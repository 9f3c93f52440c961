--------------------------- MODULE WeightedRRProofs ---------------------------
(***************************************************************************)
(* Proofs about WeightedRR, for any configurations, keys and callers, and  *)
(* any number of entries and calls.                                        *)
(***************************************************************************)
EXTENDS WeightedRR, WellFoundedInduction, SequenceTheorems, TLAPS

-----------------------------------------------------------------------------
(* Induction and recursion over an interval *)

(* What holds of some number holds of a first one. *)
LEMMA Least ==
  ASSUME NEW T \in SUBSET Nat, T # {}
  PROVE  \E n \in T : \A m \in T : n <= m
<1>1. PICK n \in T : \A m \in T : <<m, n>> \notin OpToRel(<, Nat)
  BY NatLessThanWellFounded, WFMin
<1>2. \A m \in T : ~(m < n)
  BY <1>1 DEF OpToRel
<1> QED
  BY <1>2

(* Induction, in the form of a set: what holds of lo, and of n + 1 if of   *)
(* n, holds up to hi.                                                      *)
LEMMA Upto ==
  ASSUME NEW lo \in Nat, NEW hi \in Nat, NEW T, lo \in T,
         \A n \in Nat : lo <= n /\ n < hi /\ n \in T => n + 1 \in T
  PROVE  \A n \in lo .. hi : n \in T
<1> SUFFICES ASSUME NEW some \in lo .. hi, some \notin T PROVE FALSE
  OBVIOUS
<1> DEFINE Bad == (lo .. hi) \ T
<1>1. Bad \in SUBSET Nat /\ Bad # {}
  OBVIOUS
<1>2. PICK n \in Bad : \A m \in Bad : n <= m
  <2> HIDE DEF Bad
  <2> QED
    BY <1>1, Least
<1>3. n \in Nat /\ lo <= n /\ n <= hi /\ n # lo /\ n \notin T
  OBVIOUS
<1>4. n - 1 \in Nat /\ lo <= n - 1 /\ n - 1 < hi /\ (n - 1) + 1 = n /\ ~(n <= n - 1)
  BY <1>3
<1>5. n - 1 \in T
  <2>1. n - 1 \in lo .. hi
    BY <1>3, <1>4
  <2> QED
    BY <1>2, <1>4, <2>1
<1> QED
  BY <1>3, <1>4, <1>5

(* A function on lo .. hi may be defined by its value at lo and by a step  *)
(* to the next number.                                                     *)
Recursive(f, lo, hi, S, base, step) ==
  /\ f \in [lo .. hi -> S]
  /\ \A n \in lo .. hi : f[n] = IF n = lo THEN base ELSE step[<<f[n - 1], n>>]

LEMMA Recursion ==
  ASSUME NEW lo \in Nat, NEW hi \in Nat, lo <= hi, NEW S, NEW base \in S,
         NEW step \in [S \X (lo .. hi) -> S]
  PROVE  \E f : Recursive(f, lo, hi, S, base, step)
<1> DEFINE Defined(f, k) == Recursive(f, lo, k, S, base, step)
           T == {k \in lo .. hi : \E f : Defined(f, k)}
<1>1. lo \in T
  <2> DEFINE f == [n \in lo .. lo |-> base]
  <2>1. \A n \in lo .. lo : n = lo
    OBVIOUS
  <2>2. Defined(f, lo)
    BY <2>1 DEF Recursive
  <2>3. lo \in lo .. hi
    OBVIOUS
  <2> HIDE DEF Defined
  <2> QED
    BY <2>2, <2>3
<1>2. ASSUME NEW k \in Nat, lo <= k, k < hi, k \in T PROVE k + 1 \in T
  <2>1. PICK f : Defined(f, k)
    BY <1>2
  <2> DEFINE next == step[<<f[k], k + 1>>]
             g == [n \in lo .. k + 1 |-> IF n = k + 1 THEN next ELSE f[n]]
  <2>2. k \in lo .. k /\ k + 1 \in lo .. hi /\ k + 1 # lo /\ (k + 1) - 1 = k
    BY <1>2
  <2>3. next \in S
    BY <2>1, <2>2 DEF Recursive
  <2>4. \A n \in lo .. k + 1 : n # k + 1 => n \in lo .. k /\ f[n] \in S
    BY <1>2, <2>1 DEF Recursive
  <2>5. g \in [lo .. k + 1 -> S]
    BY <2>3, <2>4
  <2>6. ASSUME NEW n \in lo .. k + 1
        PROVE  g[n] = IF n = lo THEN base ELSE step[<<g[n - 1], n>>]
    <3>1. CASE n = k + 1
      <4>1. g[n] = next /\ g[n - 1] = f[k]
        BY <2>2, <3>1
      <4> QED
        BY <2>2, <3>1, <4>1
    <3>2. CASE n # k + 1
      <4>1. n \in lo .. k /\ g[n] = f[n]
        BY <2>4, <3>2
      <4>2. n # lo => n - 1 \in lo .. k + 1 /\ n - 1 # k + 1
        BY <1>2, <4>1
      <4>3. n # lo => g[n - 1] = f[n - 1]
        BY <4>2
      <4> QED
        BY <2>1, <4>1, <4>3 DEF Recursive
    <3> QED
      BY <3>1, <3>2
  <2>7. Defined(g, k + 1)
    BY <2>5, <2>6 DEF Recursive
  <2> QED
    BY <2>2, <2>7
<1>3. hi \in T
  <2> HIDE DEF T
  <2>1. \A n \in lo .. hi : n \in T
    BY <1>1, <1>2, Upto
  <2> QED
    BY <2>1
<1> QED
  BY <1>3

-----------------------------------------------------------------------------
(* Sequences *)

LEMMA FunctionIsSeq ==
  ASSUME NEW n \in Nat, NEW S, NEW f \in [1 .. n -> S]
  PROVE  f \in Seq(S) /\ Len(f) = n
<1>1. f \in UNION {[1 .. m -> S] : m \in Nat}
  OBVIOUS
<1>2. f \in Seq(S)
  BY <1>1, SeqDef
<1>3. DOMAIN f = 1 .. n
  OBVIOUS
<1> QED
  BY <1>2, <1>3, LenProperties

(* The elements of a sequence, each put through a function.                *)
Mapped(f, s) == [i \in DOMAIN s |-> f[s[i]]]

IsMapped(m, R, f, s) ==
  m \in Seq(R) /\ Len(m) = Len(s) /\ \A i \in 1 .. Len(s) : m[i] = f[s[i]]

LEMMA MappedIs ==
  ASSUME NEW S, NEW R, NEW f, \A x \in S : f[x] \in R, NEW s \in Seq(S)
  PROVE  IsMapped(Mapped(f, s), R, f, s)
<1>1. Len(s) \in Nat /\ DOMAIN s = 1 .. Len(s) /\ \A i \in 1 .. Len(s) : s[i] \in S
  BY LenProperties, ElementOfSeq
<1>2. Mapped(f, s) \in [1 .. Len(s) -> R]
  BY <1>1 DEF Mapped
<1> QED
  BY <1>1, <1>2, FunctionIsSeq DEF Mapped, IsMapped

MapsBoth(f, s, t) == Mapped(f, s \o t) = Mapped(f, s) \o Mapped(f, t)

LEMMA MappedConcat ==
  ASSUME NEW S, NEW f, NEW s \in Seq(S), NEW t \in Seq(S)
  PROVE  MapsBoth(f, s, t)
<1>1. /\ Len(s) \in Nat /\ Len(t) \in Nat
      /\ s \o t \in Seq(S) /\ Len(s \o t) = Len(s) + Len(t)
      /\ \A i \in 1 .. Len(s) + Len(t) :
           (s \o t)[i] = IF i <= Len(s) THEN s[i] ELSE t[i - Len(s)]
  BY LenProperties, ConcatProperties
<1>2. PICK both : both = s \o t
  OBVIOUS
<1>3. PICK fs : fs = Mapped(f, s)
  OBVIOUS
<1>4. PICK ft : ft = Mapped(f, t)
  OBVIOUS
<1>5. PICK left : left = Mapped(f, both)
  OBVIOUS
<1>6. PICK right : right = fs \o ft
  OBVIOUS
<1> DEFINE R == {f[x] : x \in S}
<1>0. \A x \in S : f[x] \in R
  OBVIOUS
<1> HIDE DEF R
<1>7. fs \in Seq(R) /\ Len(fs) = Len(s) /\ \A i \in 1 .. Len(s) : fs[i] = f[s[i]]
  <2>1. IsMapped(Mapped(f, s), R, f, s)
    BY <1>0, MappedIs, Zenon
  <2> QED
    BY <1>3, <2>1 DEF IsMapped
<1>8. ft \in Seq(R) /\ Len(ft) = Len(t) /\ \A i \in 1 .. Len(t) : ft[i] = f[t[i]]
  <2>1. IsMapped(Mapped(f, t), R, f, t)
    BY <1>0, MappedIs, Zenon
  <2> QED
    BY <1>4, <2>1 DEF IsMapped
<1>9. /\ both \in Seq(S) /\ Len(both) = Len(s) + Len(t)
      /\ \A i \in 1 .. Len(s) + Len(t) :
           both[i] = IF i <= Len(s) THEN s[i] ELSE t[i - Len(s)]
  BY <1>1, <1>2
<1>10. left \in Seq(R) /\ Len(left) = Len(both) /\ \A i \in 1 .. Len(both) : left[i] = f[both[i]]
  <2>1. both \in Seq(S)
    BY <1>9
  <2>2. IsMapped(Mapped(f, both), R, f, both)
    BY <1>0, <2>1, MappedIs, Zenon
  <2> QED
    BY <1>5, <2>2 DEF IsMapped
<1>11. /\ right \in Seq(R) /\ Len(right) = Len(fs) + Len(ft)
       /\ \A i \in 1 .. Len(fs) + Len(ft) :
            right[i] = IF i <= Len(fs) THEN fs[i] ELSE ft[i - Len(fs)]
  <2>1. fs \in Seq(R) /\ ft \in Seq(R)
    BY <1>7, <1>8
  <2> QED
    BY <1>6, <2>1, ConcatProperties
<1>12. ASSUME NEW i \in 1 .. Len(left) PROVE left[i] = right[i]
  <2>1. i \in 1 .. Len(both) /\ i \in 1 .. Len(s) + Len(t) /\ i \in 1 .. Len(fs) + Len(ft)
    BY <1>1, <1>7, <1>8, <1>9, <1>10
  <2>2. CASE i <= Len(s)
    <3>1. i \in 1 .. Len(s)
      BY <1>1, <2>1, <2>2
    <3>2. left[i] = f[s[i]]
      BY <1>9, <1>10, <2>1, <2>2
    <3>3. right[i] = f[s[i]]
      BY <1>7, <1>11, <2>1, <2>2, <3>1
    <3> QED
      BY <3>2, <3>3
  <2>3. CASE ~(i <= Len(s))
    <3>1. i - Len(s) \in 1 .. Len(t)
      BY <1>1, <2>1, <2>3
    <3>2. left[i] = f[t[i - Len(s)]]
      BY <1>9, <1>10, <2>1, <2>3
    <3>3. right[i] = f[t[i - Len(s)]]
      BY <1>7, <1>8, <1>11, <2>1, <2>3, <3>1
    <3> QED
      BY <3>2, <3>3
  <2> QED
    BY <2>2, <2>3
<1>13. Len(left) = Len(right)
  BY <1>7, <1>8, <1>9, <1>10, <1>11
<1>14. left = right
  BY <1>10, <1>11, <1>12, <1>13, SeqEqual
<1> QED
  BY <1>2, <1>3, <1>4, <1>5, <1>6, <1>14 DEF MapsBoth

-----------------------------------------------------------------------------
(* Sums *)

LEMMA SumsAre ==
  ASSUME NEW ns \in Seq(Int)
  PROVE  /\ Sums(ns) \in [0 .. Len(ns) -> Int]
         /\ Sums(ns)[0] = 0
         /\ \A n \in 1 .. Len(ns) : Sums(ns)[n] = Sums(ns)[n - 1] + ns[n]
<1> DEFINE IsSums(f) == f = [n \in 0 .. Len(ns) |-> IF n = 0 THEN 0 ELSE f[n - 1] + ns[n]]
           step == [xn \in Int \X (0 .. Len(ns)) |-> IF xn[2] = 0 THEN 0 ELSE xn[1] + ns[xn[2]]]
<1>1. Len(ns) \in Nat /\ \A n \in 1 .. Len(ns) : ns[n] \in Int
  BY LenProperties, ElementOfSeq
<1>2. step \in [Int \X (0 .. Len(ns)) -> Int]
  <2>1. ASSUME NEW xn \in Int \X (0 .. Len(ns))
        PROVE  (IF xn[2] = 0 THEN 0 ELSE xn[1] + ns[xn[2]]) \in Int
    <3>1. xn[1] \in Int /\ xn[2] \in 0 .. Len(ns)
      OBVIOUS
    <3>2. xn[2] # 0 => xn[2] \in 1 .. Len(ns)
      BY <1>1, <3>1
    <3> QED
      BY <1>1, <3>1, <3>2
  <2> QED
    BY <2>1
<1>3. PICK f : Recursive(f, 0, Len(ns), Int, 0, step)
  <2> HIDE DEF step
  <2>1. 0 <= Len(ns)
    BY <1>1
  <2>2. 0 \in Nat
    OBVIOUS
  <2>3. 0 \in Int
    OBVIOUS
  <2>4. Len(ns) \in Nat
    BY <1>1
  <2> QED
    BY <1>2, <2>1, <2>2, <2>3, <2>4, Recursion, Zenon
<1>4. \A n \in 0 .. Len(ns) : n # 0 => f[n] = f[n - 1] + ns[n]
  <2> SUFFICES ASSUME NEW n \in 0 .. Len(ns), n # 0 PROVE f[n] = f[n - 1] + ns[n]
    OBVIOUS
  <2>1. n - 1 \in 0 .. Len(ns)
    BY <1>1
  <2>2. f[n - 1] \in Int
    BY <1>3, <2>1 DEF Recursive
  <2>3. step[<<f[n - 1], n>>] = f[n - 1] + ns[n]
    BY <2>2
  <2> QED
    BY <1>3, <2>3 DEF Recursive
<1>5. IsSums(f)
  <2>1. \A n \in 0 .. Len(ns) : f[n] = IF n = 0 THEN 0 ELSE f[n - 1] + ns[n]
    BY <1>3, <1>4 DEF Recursive
  <2>2. f \in [0 .. Len(ns) -> Int]
    BY <1>3 DEF Recursive
  <2> QED
    BY <2>1, <2>2
<1>6. Sums(ns) = CHOOSE g : IsSums(g)
  BY DEF Sums
<1>7. IsSums(Sums(ns))
  <2> HIDE DEF IsSums
  <2> QED
    BY <1>5, <1>6
<1>8. PICK g : g = Sums(ns)
  OBVIOUS
<1>9. \A n \in 0 .. Len(ns) : g[n] = IF n = 0 THEN 0 ELSE g[n - 1] + ns[n]
  BY <1>7, <1>8
<1>10. g = [n \in 0 .. Len(ns) |-> g[n]]
  BY <1>7, <1>8
<1>11. g[0] = 0 /\ \A n \in 1 .. Len(ns) : g[n] = g[n - 1] + ns[n]
  <2>1. 0 \in 0 .. Len(ns) /\ \A n \in 1 .. Len(ns) : n \in 0 .. Len(ns) /\ n # 0
    BY <1>1
  <2> QED
    BY <1>9, <2>1
<1> DEFINE T == {n \in Nat : g[n] \in Int}
<1>12. \A n \in 0 .. Len(ns) : n \in T
  <2>1. 0 \in T
    BY <1>11
  <2>2. ASSUME NEW n \in Nat, 0 <= n, n < Len(ns), n \in T PROVE n + 1 \in T
    <3>1. n + 1 \in 1 .. Len(ns) /\ (n + 1) - 1 = n
      BY <1>1, <2>2
    <3>2. g[n + 1] = g[n] + ns[n + 1] /\ ns[n + 1] \in Int /\ g[n] \in Int
      BY <1>1, <1>11, <2>2, <3>1
    <3> QED
      BY <3>2
  <2> HIDE DEF T
  <2> QED
    BY <1>1, <2>1, <2>2, Upto
<1>13. g \in [0 .. Len(ns) -> Int]
  BY <1>10, <1>12
<1> QED
  BY <1>8, <1>11, <1>13

LEMMA SumIs ==
  ASSUME NEW ns \in Seq(Int)
  PROVE  SumOf(ns) \in Int /\ (ns = <<>> => SumOf(ns) = 0)
<1>1. Len(ns) \in Nat /\ (ns = <<>> => Len(ns) = 0)
  BY LenProperties, EmptySeq
<1>2. Len(ns) \in 0 .. Len(ns)
  BY <1>1
<1> QED
  BY <1>1, <1>2, SumsAre DEF SumOf

(* Sums of numbers do not decrease.                                        *)
LEMMA SumsGrow ==
  ASSUME NEW ns \in Seq(Nat)
  PROVE  /\ \A n \in 0 .. Len(ns) : Sums(ns)[n] \in Nat /\ Sums(ns)[n] <= SumOf(ns)
         /\ SumOf(ns) \in Nat
         /\ \A n \in 1 .. Len(ns) : ns[n] <= SumOf(ns)
<1>1. Len(ns) \in Nat /\ \A n \in 1 .. Len(ns) : ns[n] \in Nat
  BY LenProperties, ElementOfSeq
<1>2. ns \in Seq(Int)
  <2>1. Nat \subseteq Int
    OBVIOUS
  <2> QED
    BY <2>1, SeqMonotonic
<1>3. PICK f : f = Sums(ns)
  OBVIOUS
<1>4. /\ f \in [0 .. Len(ns) -> Int] /\ f[0] = 0
      /\ \A n \in 1 .. Len(ns) : f[n] = f[n - 1] + ns[n]
  BY <1>2, <1>3, SumsAre
<1>5. \A n \in 0 .. Len(ns) : f[n] \in Nat
  <2> DEFINE T == {n \in Nat : f[n] \in Nat}
  <2>1. 0 \in T
    BY <1>4
  <2>2. ASSUME NEW n \in Nat, 0 <= n, n < Len(ns), n \in T PROVE n + 1 \in T
    <3>1. n + 1 \in 1 .. Len(ns) /\ (n + 1) - 1 = n
      BY <1>1, <2>2
    <3>2. f[n + 1] = f[n] + ns[n + 1] /\ ns[n + 1] \in Nat /\ f[n] \in Nat
      BY <1>1, <1>4, <2>2, <3>1
    <3> QED
      BY <3>2
  <2>3. \A n \in 0 .. Len(ns) : n \in T
    <3> HIDE DEF T
    <3> QED
      BY <1>1, <2>1, <2>2, Upto
  <2> QED
    BY <2>3
<1>6. ASSUME NEW m \in 0 .. Len(ns) PROVE f[m] <= f[Len(ns)]
  <2> DEFINE T == {n \in Nat : f[m] <= f[n]}
  <2>1. m \in T
    BY <1>1, <1>5
  <2>2. ASSUME NEW n \in Nat, m <= n, n < Len(ns), n \in T PROVE n + 1 \in T
    <3>1. n + 1 \in 1 .. Len(ns) /\ (n + 1) - 1 = n /\ n \in 0 .. Len(ns)
      BY <1>1, <2>2
    <3>2. f[n + 1] = f[n] + ns[n + 1] /\ ns[n + 1] \in Nat /\ f[n] \in Nat /\ f[m] \in Nat
      BY <1>1, <1>4, <1>5, <3>1
    <3> QED
      BY <2>2, <3>2
  <2>3. \A n \in m .. Len(ns) : n \in T
    <3>1. m \in Nat
      BY <1>1
    <3> HIDE DEF T
    <3> QED
      BY <1>1, <2>1, <2>2, <3>1, Upto
  <2>4. Len(ns) \in m .. Len(ns)
    BY <1>1
  <2> QED
    BY <2>3, <2>4
<1>7. ASSUME NEW n \in 1 .. Len(ns) PROVE ns[n] <= f[Len(ns)]
  <2>1. n \in 0 .. Len(ns) /\ n - 1 \in 0 .. Len(ns) /\ Len(ns) \in 0 .. Len(ns)
    BY <1>1
  <2>2. f[n] = f[n - 1] + ns[n] /\ f[n] <= f[Len(ns)]
    BY <1>4, <1>6, <2>1
  <2>3. f[n] \in Nat /\ f[n - 1] \in Nat /\ f[Len(ns)] \in Nat /\ ns[n] \in Nat
    BY <1>1, <1>5, <2>1
  <2> QED
    BY <2>2, <2>3
<1>8. Len(ns) \in 0 .. Len(ns)
  BY <1>1
<1> QED
  BY <1>3, <1>5, <1>6, <1>7, <1>8 DEF SumOf

(* The sum of multiples is the multiple of the sum.                        *)
LEMMA SumOfMultiples ==
  ASSUME NEW ns \in Seq(Int), NEW ms \in Seq(Int), NEW a \in Int, NEW b \in Int,
         Len(ns) = Len(ms), \A n \in 1 .. Len(ns) : a * ns[n] = b * ms[n]
  PROVE  a * SumOf(ns) = b * SumOf(ms)
<1>1. Len(ns) \in Nat
      /\ \A n \in 1 .. Len(ns) : ns[n] \in Int /\ ms[n] \in Int
  BY LenProperties, ElementOfSeq
<1>2. PICK f : f = Sums(ns)
  OBVIOUS
<1>3. PICK g : g = Sums(ms)
  OBVIOUS
<1>4. /\ f \in [0 .. Len(ns) -> Int] /\ f[0] = 0
      /\ \A n \in 1 .. Len(ns) : f[n] = f[n - 1] + ns[n]
  BY <1>2, SumsAre
<1>5. /\ g \in [0 .. Len(ns) -> Int] /\ g[0] = 0
      /\ \A n \in 1 .. Len(ns) : g[n] = g[n - 1] + ms[n]
  BY <1>3, SumsAre
<1> DEFINE T == {n \in Nat : a * f[n] = b * g[n]}
<1>6. 0 \in T
  BY <1>4, <1>5
<1>7. ASSUME NEW n \in Nat, 0 <= n, n < Len(ns), n \in T PROVE n + 1 \in T
  <2>1. n + 1 \in 1 .. Len(ns) /\ (n + 1) - 1 = n /\ n \in 0 .. Len(ns)
    BY <1>1, <1>7
  <2> DEFINE fn == f[n]
             gn == g[n]
             x  == ns[n + 1]
             y  == ms[n + 1]
  <2>2. fn \in Int /\ gn \in Int /\ x \in Int /\ y \in Int
    BY <1>1, <1>4, <1>5, <2>1
  <2>3. f[n + 1] = fn + x /\ g[n + 1] = gn + y
    BY <1>4, <1>5, <2>1
  <2>4. a * fn = b * gn /\ a * x = b * y
    BY <1>7, <2>1
  <2> HIDE DEF fn, gn, x, y
  <2>5. a * (fn + x) = a * fn + a * x /\ b * (gn + y) = b * gn + b * y
    BY <2>2
  <2>6. a * (fn + x) = b * (gn + y)
    BY <2>4, <2>5
  <2> QED
    BY <2>3, <2>6
<1>8. \A n \in 0 .. Len(ns) : n \in T
  <2> HIDE DEF T
  <2> QED
    BY <1>1, <1>6, <1>7, Upto
<1>9. Len(ns) \in 0 .. Len(ns)
  BY <1>1
<1>10. a * f[Len(ns)] = b * g[Len(ns)]
  BY <1>8, <1>9
<1> QED
  BY <1>2, <1>3, <1>10 DEF SumOf

LEMMA SumOfConcat ==
  ASSUME NEW s \in Seq(Int), NEW t \in Seq(Int)
  PROVE  SumOf(s \o t) = SumOf(s) + SumOf(t)
<1>1. /\ Len(s) \in Nat /\ Len(t) \in Nat
      /\ \A n \in 1 .. Len(s) : s[n] \in Int
      /\ \A n \in 1 .. Len(t) : t[n] \in Int
  BY LenProperties, ElementOfSeq
<1>2. PICK both : both = s \o t
  OBVIOUS
<1>3. /\ both \in Seq(Int) /\ Len(both) = Len(s) + Len(t)
      /\ \A i \in 1 .. Len(s) + Len(t) :
           both[i] = IF i <= Len(s) THEN s[i] ELSE t[i - Len(s)]
  BY <1>2, ConcatProperties
<1>4. PICK f : f = Sums(s)
  OBVIOUS
<1>5. PICK g : g = Sums(t)
  OBVIOUS
<1>6. PICK h : h = Sums(both)
  OBVIOUS
<1>7. /\ f \in [0 .. Len(s) -> Int] /\ f[0] = 0
      /\ \A n \in 1 .. Len(s) : f[n] = f[n - 1] + s[n]
  BY <1>4, SumsAre
<1>8. /\ g \in [0 .. Len(t) -> Int] /\ g[0] = 0
      /\ \A n \in 1 .. Len(t) : g[n] = g[n - 1] + t[n]
  BY <1>5, SumsAre
<1>9. /\ h \in [0 .. Len(both) -> Int] /\ h[0] = 0
      /\ \A n \in 1 .. Len(both) : h[n] = h[n - 1] + both[n]
  <2>1. both \in Seq(Int)
    BY <1>3
  <2> QED
    BY <1>6, <2>1, SumsAre
<1> DEFINE R == {n \in Nat : h[n] = f[n]}
<1>10. \A n \in 0 .. Len(s) : n \in R
  <2>1. 0 \in R
    BY <1>7, <1>9
  <2>2. ASSUME NEW n \in Nat, 0 <= n, n < Len(s), n \in R PROVE n + 1 \in R
    <3>1. n + 1 \in 1 .. Len(s) /\ n + 1 \in 1 .. Len(both) /\ n + 1 <= Len(s)
          /\ n + 1 \in 1 .. Len(s) + Len(t) /\ (n + 1) - 1 = n
      BY <1>1, <1>3, <2>2
    <3>2. both[n + 1] = s[n + 1]
      BY <1>3, <3>1
    <3> QED
      BY <1>7, <1>9, <2>2, <3>1, <3>2
  <2> HIDE DEF R
  <2> QED
    BY <1>1, <2>1, <2>2, Upto
<1> DEFINE T == {n \in Nat : h[Len(s) + n] = f[Len(s)] + g[n]}
<1>11. 0 \in T
  <2>1. Len(s) \in 0 .. Len(s) /\ Len(s) + 0 = Len(s)
    BY <1>1
  <2>2. f[Len(s)] \in Int
    BY <1>7, <2>1
  <2>3. f[Len(s)] + g[0] = f[Len(s)]
    BY <1>8, <2>2
  <2> QED
    BY <1>10, <2>1, <2>3
<1>12. ASSUME NEW n \in Nat, 0 <= n, n < Len(t), n \in T PROVE n + 1 \in T
  <2> DEFINE k == Len(s) + n
  <2>1. /\ n + 1 \in 1 .. Len(t) /\ (n + 1) - 1 = n /\ n \in 0 .. Len(t)
        /\ k + 1 \in 1 .. Len(both) /\ (k + 1) - 1 = k /\ Len(s) + (n + 1) = k + 1
        /\ k + 1 \in 1 .. Len(s) + Len(t) /\ ~(k + 1 <= Len(s)) /\ (k + 1) - Len(s) = n + 1
        /\ Len(s) \in 0 .. Len(s)
    BY <1>1, <1>3, <1>12
  <2>2. both[k + 1] = t[n + 1] /\ t[n + 1] \in Int
    <3>1. both[k + 1] = t[(k + 1) - Len(s)]
      BY <1>3, <2>1
    <3>2. t[n + 1] \in Int
      BY <2>1
    <3> QED
      BY <2>1, <3>1, <3>2
  <2>3. h[k + 1] = h[k] + t[n + 1]
    BY <1>9, <2>1, <2>2
  <2>4. g[n + 1] = g[n] + t[n + 1] /\ g[n] \in Int /\ f[Len(s)] \in Int
    BY <1>7, <1>8, <2>1
  <2>5. h[k] = f[Len(s)] + g[n]
    BY <1>12
  <2>6. h[k + 1] = f[Len(s)] + g[n + 1]
    <3> HIDE DEF k
    <3> QED
      BY <2>2, <2>3, <2>4, <2>5
  <2> QED
    BY <2>1, <2>6
<1>13. \A n \in 0 .. Len(t) : n \in T
  <2> HIDE DEF T
  <2> QED
    BY <1>1, <1>11, <1>12, Upto
<1>14. Len(t) \in 0 .. Len(t)
  BY <1>1
<1>15. h[Len(s) + Len(t)] = f[Len(s)] + g[Len(t)]
  BY <1>13, <1>14
<1> QED
  BY <1>2, <1>3, <1>4, <1>5, <1>6, <1>15 DEF SumOf

-----------------------------------------------------------------------------
(* Division *)

LEMMA Division ==
  ASSUME NEW a \in Nat, NEW b \in Nat \ {0}
  PROVE  \E q, r \in Nat : q = a \div b /\ r = a % b /\ r < b /\ a = b * q + r
<1>1. a \div b \in Nat /\ a % b \in Nat /\ a % b < b
  OBVIOUS
<1>2. PICK x \in Nat, y \in Nat : x = a \div b /\ y = a % b
  BY <1>1
<1>3. a = b * x + y
  BY <1>2
<1>4. y < b
  BY <1>1, <1>2
<1> QED
  BY <1>2, <1>3, <1>4, Zenon

LEMMA MultipleIsNoLess ==
  ASSUME NEW c \in Nat, NEW y \in Int, y >= 1
  PROVE  c * y >= c
<1>1. PICK z \in Nat : y = z + 1
  <2>1. y - 1 \in Nat /\ y = (y - 1) + 1
    OBVIOUS
  <2> QED
    BY <2>1
<1>2. c * z \in Nat /\ c * y = c * z + c
  BY <1>1
<1> QED
  BY <1>2

LEMMA QuotientIs ==
  ASSUME NEW c \in Nat \ {0}, NEW x \in Nat, NEW r \in Nat, r < c
  PROVE  (c * x + r) % c = r /\ (c * x + r) \div c = x
<1>1. PICK m \in Nat : m = c * x + r
  BY SMT
<1>2. PICK q \in Nat, s \in Nat : q = m \div c /\ s = m % c /\ s < c /\ m = c * q + s
  BY Division, Zenon
<1>3. m = c * q + s /\ s < c
  BY <1>2
<1>4. c * (x - q) = s - r /\ c * (q - x) = r - s
  BY <1>1, <1>3
<1>5. ~(x - q >= 1)
  BY <1>3, <1>4, MultipleIsNoLess
<1>6. ~(q - x >= 1)
  BY <1>3, <1>4, MultipleIsNoLess
<1>7. x = q
  BY <1>5, <1>6
<1> QED
  BY <1>1, <1>2, <1>4, <1>7

-----------------------------------------------------------------------------
(* The greatest common divisor *)

Divides(d, a) == \E q \in Int : a = q * d

LEMMA DividesBoth ==
  ASSUME NEW d \in Int, NEW a \in Int, NEW b \in Int, NEW x \in Int,
         Divides(d, a), Divides(d, b)
  PROVE  Divides(d, x * a + b)
<1>1. PICK q \in Int, r \in Int : a = q * d /\ b = r * d
  BY DEF Divides
<1>2. x * a + b = (x * q + r) * d /\ x * q + r \in Int
  BY <1>1
<1> QED
  BY <1>2 DEF Divides

LEMMA DividesChain ==
  ASSUME NEW d \in Int, NEW a \in Int, NEW b \in Int, Divides(d, a), Divides(a, b)
  PROVE  Divides(d, b)
<1>1. PICK q \in Int, r \in Int : a = q * d /\ b = r * a
  BY DEF Divides
<1>2. b = (r * q) * d /\ r * q \in Int
  BY <1>1
<1> QED
  BY <1>2 DEF Divides

Common(a, b) == {d \in Nat \ {0} : Divides(d, a) /\ Divides(d, b)}
Greatest(D)  == CHOOSE d \in D : \A e \in D : e <= d

(* The reason why Euclid's step is right.                                  *)
LEMMA CommonRemains ==
  ASSUME NEW a \in Nat, NEW b \in Nat \ {0}
  PROVE  Common(a, b) = Common(b, a % b)
<1>1. PICK x \in Nat, r \in Nat : x = a \div b /\ r = a % b /\ r < b /\ a = b * x + r
  BY Division, Zenon
<1>2. a = x * b + r /\ r = (-x) * b + a /\ -x \in Int
  BY <1>1
<1>3. ASSUME NEW d \in Nat \ {0}
      PROVE  Divides(d, a) /\ Divides(d, b) <=> Divides(d, b) /\ Divides(d, r)
  <2>1. d \in Int /\ a \in Int /\ b \in Int /\ x \in Int /\ r \in Int
    OBVIOUS
  <2>2. Divides(d, b) /\ Divides(d, r) => Divides(d, x * b + r)
    BY <2>1, DividesBoth
  <2>3. Divides(d, b) /\ Divides(d, a) => Divides(d, (-x) * b + a)
    BY <1>2, <2>1, DividesBoth
  <2> QED
    BY <1>2, <2>2, <2>3
<1> QED
  BY <1>1, <1>3 DEF Common

LEMMA GreatestOfOne ==
  ASSUME NEW a \in Nat \ {0}
  PROVE  Greatest(Common(a, 0)) = a
<1>1. a \in Common(a, 0)
  <2>1. a = 1 * a /\ 0 = 0 * a
    OBVIOUS
  <2> QED
    BY <2>1 DEF Common, Divides
<1>2. ASSUME NEW e \in Common(a, 0) PROVE e \in Nat /\ e <= a
  <2>1. PICK q \in Int : a = q * e
    BY DEF Common, Divides
  <2>2. e \in Nat \ {0}
    BY DEF Common
  <2>3. q >= 1
    <3> SUFFICES ASSUME -q >= 0 PROVE FALSE
      OBVIOUS
    <3>1. PICK z \in Nat : z = -q
      OBVIOUS
    <3>2. z * e \in Nat /\ a = -(z * e)
      BY <2>1, <2>2, <3>1
    <3> QED
      BY <3>2
  <2>4. e * q >= e
    BY <2>2, <2>3, MultipleIsNoLess
  <2>5. e * q = q * e
    BY <2>2
  <2> QED
    BY <2>1, <2>2, <2>4, <2>5
<1>3. \A d \in Common(a, 0) : (\A e \in Common(a, 0) : e <= d) => d = a
  <2> SUFFICES ASSUME NEW d \in Common(a, 0), \A e \in Common(a, 0) : e <= d PROVE d = a
    OBVIOUS
  <2> QED
    BY <1>1, <1>2
<1> QED
  BY <1>1, <1>2, <1>3 DEF Greatest

LEMMA GcdIs ==
  ASSUME NEW a \in Nat, NEW b \in Nat
  PROVE  gcd[<<a, b>>] = IF b = 0 THEN a ELSE gcd[<<b, a % b>>]
<1> DEFINE IsGcd(g) ==
             g = [ab \in Nat \X Nat |-> IF ab[2] = 0 THEN ab[1] ELSE g[<<ab[2], ab[1] % ab[2]>>]]
           G == [ab \in Nat \X Nat |->
                   IF ab[1] = 0 /\ ab[2] = 0 THEN 0 ELSE Greatest(Common(ab[1], ab[2]))]
<1>1. ASSUME NEW ab \in Nat \X Nat
      PROVE  G[ab] = IF ab[2] = 0 THEN ab[1] ELSE G[<<ab[2], ab[1] % ab[2]>>]
  <2>1. PICK x \in Nat, y \in Nat : ab = <<x, y>>
    OBVIOUS
  <2>2. CASE y = 0 /\ x = 0
    BY <2>1, <2>2
  <2>3. CASE y = 0 /\ x # 0
    <3>1. G[ab] = Greatest(Common(x, 0))
      BY <2>1, <2>3
    <3> QED
      BY <2>1, <2>3, <3>1, GreatestOfOne
  <2>4. CASE y # 0
    <3>1. PICK r \in Nat : r = x % y
      <4>1. y \in Nat \ {0}
        BY <2>4
      <4> QED
        BY <4>1, Division, Zenon
    <3>2. Common(x, y) = Common(y, r)
      BY <2>4, <3>1, CommonRemains
    <3>3. G[ab] = Greatest(Common(x, y))
      BY <2>1, <2>4
    <3>4. G[<<y, r>>] = Greatest(Common(y, r))
      BY <2>4
    <3> QED
      BY <2>1, <2>4, <3>1, <3>2, <3>3, <3>4
  <2> QED
    BY <2>2, <2>3, <2>4
<1>2. IsGcd(G)
  <2> DEFINE H == [ab \in Nat \X Nat |-> IF ab[2] = 0 THEN ab[1] ELSE G[<<ab[2], ab[1] % ab[2]>>]]
  <2>1. G = [ab \in Nat \X Nat |-> G[ab]]
    OBVIOUS
  <2> HIDE DEF G
  <2>2. H = [ab \in Nat \X Nat |-> G[ab]]
    BY <1>1
  <2>3. G = H
    BY <2>1, <2>2
  <2> QED
    BY <2>3
<1>3. IsGcd(gcd)
  <2>1. gcd = CHOOSE g : IsGcd(g)
    BY DEF gcd
  <2> HIDE DEF IsGcd
  <2> QED
    BY <1>2, <2>1
<1>4. PICK g : g = gcd
  OBVIOUS
<1>5. g = [ab \in Nat \X Nat |-> IF ab[2] = 0 THEN ab[1] ELSE g[<<ab[2], ab[1] % ab[2]>>]]
  BY <1>3, <1>4
<1>6. <<a, b>> \in Nat \X Nat /\ <<a, b>>[1] = a /\ <<a, b>>[2] = b
  OBVIOUS
<1>7. g[<<a, b>>] = IF b = 0 THEN a ELSE g[<<b, a % b>>]
  BY <1>5, <1>6
<1> QED
  BY <1>4, <1>7

(* Strong induction, in the form of a set.                                 *)
LEMMA Descent ==
  ASSUME NEW T, \A n \in Nat : (\A m \in Nat : m < n => m \in T) => n \in T
  PROVE  \A n \in Nat : n \in T
<1> SUFFICES ASSUME NEW some \in Nat, some \notin T PROVE FALSE
  OBVIOUS
<1> DEFINE Bad == Nat \ T
<1>1. Bad \in SUBSET Nat /\ Bad # {}
  OBVIOUS
<1>2. PICK n \in Bad : \A m \in Bad : n <= m
  <2> HIDE DEF Bad
  <2> QED
    BY <1>1, Least
<1>3. \A m \in Nat : m < n => m \in T
  BY <1>2
<1> QED
  BY <1>2, <1>3

LEMMA GcdDivides ==
  ASSUME NEW a \in Nat, NEW b \in Nat
  PROVE  /\ gcd[<<a, b>>] \in Nat
         /\ a > 0 \/ b > 0 => gcd[<<a, b>>] > 0
         /\ Divides(gcd[<<a, b>>], a) /\ Divides(gcd[<<a, b>>], b)
<1> DEFINE Good(x, y) == /\ gcd[<<x, y>>] \in Nat
                         /\ x > 0 \/ y > 0 => gcd[<<x, y>>] > 0
                         /\ Divides(gcd[<<x, y>>], x) /\ Divides(gcd[<<x, y>>], y)
           T == {y \in Nat : \A x \in Nat : Good(x, y)}
<1>1. ASSUME NEW y \in Nat, \A m \in Nat : m < y => m \in T, NEW x \in Nat
      PROVE  Good(x, y)
  <2>1. CASE y = 0
    <3>1. gcd[<<x, y>>] = x
      BY <2>1, GcdIs
    <3>2. x = 1 * x /\ 0 = 0 * x
      OBVIOUS
    <3>3. Divides(x, x) /\ Divides(x, 0)
      BY <3>2 DEF Divides
    <3> QED
      BY <2>1, <3>1, <3>3
  <2>2. CASE y # 0
    <3>1. PICK q \in Nat, r \in Nat : q = x \div y /\ r = x % y /\ r < y /\ x = y * q + r
      <4>1. y \in Nat \ {0}
        BY <2>2
      <4> QED
        BY <4>1, Division, Zenon
    <3>2. r < y /\ x = q * y + r
      BY <3>1
    <3>3. PICK g : g = gcd[<<y, r>>]
      OBVIOUS
    <3>4. gcd[<<x, y>>] = g
      BY <2>2, <3>1, <3>3, GcdIs
    <3>5. Good(y, r)
      BY <1>1, <3>2
    <3>6. g \in Nat /\ g > 0 /\ Divides(g, y) /\ Divides(g, r)
      BY <2>2, <3>3, <3>5
    <3>7. Divides(g, q * y + r)
      <4>1. g \in Int /\ y \in Int /\ r \in Int /\ q \in Int
        BY <3>6
      <4> QED
        BY <3>6, <4>1, DividesBoth
    <3> QED
      BY <3>2, <3>4, <3>6, <3>7
  <2> QED
    BY <2>1, <2>2
<1>2. \A n \in Nat : n \in T
  <2>1. \A n \in Nat : (\A m \in Nat : m < n => m \in T) => n \in T
    BY <1>1
  <2> HIDE DEF T
  <2> QED
    BY <2>1, Descent
<1>3. Good(a, b)
  <2> HIDE DEF Good
  <2> QED
    BY <1>2
<1> QED
  BY <1>3

LEMMA GcdScales ==
  ASSUME NEW k \in Nat \ {0}, NEW a \in Nat, NEW b \in Nat
  PROVE  gcd[<<k * a, k * b>>] = k * gcd[<<a, b>>]
<1> DEFINE T == {y \in Nat : \A x \in Nat : gcd[<<k * x, k * y>>] = k * gcd[<<x, y>>]}
<1>1. ASSUME NEW y \in Nat, \A m \in Nat : m < y => m \in T, NEW x \in Nat
      PROVE  gcd[<<k * x, k * y>>] = k * gcd[<<x, y>>]
  <2>1. PICK kx \in Nat, ky \in Nat : kx = k * x /\ ky = k * y
    BY SMT
  <2>2. CASE y = 0
    <3>1. ky = 0
      BY <2>1, <2>2
    <3>2. gcd[<<kx, ky>>] = kx
      BY <3>1, GcdIs
    <3>3. gcd[<<x, y>>] = x
      BY <2>2, GcdIs
    <3> QED
      BY <2>1, <3>2, <3>3
  <2>3. CASE y # 0
    <3>1. PICK q \in Nat, r \in Nat : q = x \div y /\ r = x % y /\ r < y /\ x = y * q + r
      <4>1. y \in Nat \ {0}
        BY <2>3
      <4> QED
        BY <4>1, Division, Zenon
    <3>2. r < y /\ x = y * q + r
      BY <3>1
    <3>3. PICK kr \in Nat : kr = k * r
      BY SMT
    <3>4. ky > 0 /\ kr < ky
      <4>1. PICK z \in Nat : y - r = z + 1
        <5>1. (y - r) - 1 \in Nat
          BY <3>2
        <5> QED
          BY <5>1
      <4>2. k * (y - r) = ky - kr /\ k * (y - r) = k * z + k /\ k * z \in Nat
        BY <2>1, <3>3, <4>1
      <4> QED
        BY <4>2
    <3>5. kx = ky * q + kr
      BY <2>1, <3>2, <3>3
    <3>6. kx % ky = kr
      BY <3>4, <3>5, QuotientIs
    <3>7. gcd[<<kx, ky>>] = gcd[<<ky, kr>>]
      BY <3>4, <3>6, GcdIs
    <3>8. gcd[<<x, y>>] = gcd[<<y, r>>]
      BY <2>3, <3>1, GcdIs
    <3>9. gcd[<<k * y, k * r>>] = k * gcd[<<y, r>>]
      BY <1>1, <3>2
    <3> QED
      BY <2>1, <3>3, <3>7, <3>8, <3>9
  <2> QED
    BY <2>2, <2>3
<1>2. \A n \in Nat : n \in T
  <2>1. \A n \in Nat : (\A m \in Nat : m < n => m \in T) => n \in T
    BY <1>1
  <2> HIDE DEF T
  <2> QED
    BY <2>1, Descent
<1> QED
  BY <1>2

LEMMA Cancel ==
  ASSUME NEW c \in Nat \ {0}, NEW x \in Int, NEW y \in Int, c * x = c * y
  PROVE  x = y
<1>1. c * (x - y) = 0 /\ c * (y - x) = 0
  OBVIOUS
<1>2. ~(x - y >= 1) /\ ~(y - x >= 1)
  BY <1>1, MultipleIsNoLess
<1> QED
  BY <1>2

Positives == Nat \ {0}

(* What the recursion of GcdOf returns.                                    *)
IsGcdOf(g, ws) ==
  /\ g \in [1 .. Len(ws) -> Positives]
  /\ g[1] = ws[1]
  /\ \A n \in 2 .. Len(ws) : g[n] = gcd[<<g[n - 1], ws[n]>>]
  /\ GcdOf(ws) = g[Len(ws)]

LEMMA GcdOfIs ==
  ASSUME NEW ws \in Seq(Positives), Len(ws) # 0
  PROVE  \E g : IsGcdOf(g, ws)
<1> DEFINE N == Len(ws)
           IsG(f) == f = [n \in 1 .. N |-> IF n = 1 THEN ws[1] ELSE gcd[<<f[n - 1], ws[n]>>]]
           step == [xn \in Positives \X (1 .. N) |-> gcd[<<xn[1], ws[xn[2]]>>]]
<1>1. N \in Nat /\ 1 <= N /\ \A n \in 1 .. N : ws[n] \in Positives
  BY LenProperties, ElementOfSeq
<1>2. step \in [Positives \X (1 .. N) -> Positives]
  <2>1. ASSUME NEW xn \in Positives \X (1 .. N)
        PROVE  gcd[<<xn[1], ws[xn[2]]>>] \in Positives
    <3>1. PICK x \in Nat, y \in Nat : x = xn[1] /\ y = ws[xn[2]] /\ x > 0
      BY <1>1 DEF Positives
    <3>2. gcd[<<x, y>>] \in Nat /\ gcd[<<x, y>>] > 0
      BY <3>1, GcdDivides
    <3> QED
      BY <3>1, <3>2 DEF Positives
  <2> QED
    BY <2>1
<1>3. PICK f : Recursive(f, 1, N, Positives, ws[1], step)
  <2> HIDE DEF step, N
  <2>1. 1 <= N
    BY <1>1
  <2>2. 1 \in Nat
    OBVIOUS
  <2>3. ws[1] \in Positives
    BY <1>1
  <2>4. N \in Nat
    BY <1>1
  <2> QED
    BY <1>2, <2>1, <2>2, <2>3, <2>4, Recursion, Zenon
<1>4. \A n \in 1 .. N : n # 1 => f[n] = gcd[<<f[n - 1], ws[n]>>]
  <2> SUFFICES ASSUME NEW n \in 1 .. N, n # 1 PROVE f[n] = gcd[<<f[n - 1], ws[n]>>]
    OBVIOUS
  <2>1. n - 1 \in 1 .. N
    BY <1>1
  <2>2. f[n - 1] \in Positives
    BY <1>3, <2>1 DEF Recursive
  <2>3. step[<<f[n - 1], n>>] = gcd[<<f[n - 1], ws[n]>>]
    BY <2>2
  <2> QED
    BY <1>3, <2>3 DEF Recursive
<1>5. IsG(f)
  <2>1. \A n \in 1 .. N : f[n] = IF n = 1 THEN ws[1] ELSE gcd[<<f[n - 1], ws[n]>>]
    BY <1>3, <1>4 DEF Recursive
  <2>2. f \in [1 .. N -> Positives]
    BY <1>3 DEF Recursive
  <2> QED
    BY <2>1, <2>2
<1>6. GcdOf(ws) = (CHOOSE g : IsG(g))[Len(ws)]
  BY DEF GcdOf
<1>7. PICK g : g = CHOOSE h : IsG(h)
  OBVIOUS
<1>8. IsG(g)
  <2> HIDE DEF IsG
  <2> QED
    BY <1>5, <1>7
<1>9. g = [n \in 1 .. N |-> g[n]]
  BY <1>8
<1>10. g[1] = ws[1] /\ \A n \in 2 .. N : g[n] = gcd[<<g[n - 1], ws[n]>>]
  <2>1. 1 \in 1 .. N /\ \A n \in 2 .. N : n \in 1 .. N /\ n # 1
    BY <1>1
  <2> QED
    BY <1>8, <2>1
<1> DEFINE T == {n \in Nat : g[n] \in Positives}
<1>11. \A n \in 1 .. N : n \in T
  <2>1. 1 \in T
    BY <1>1, <1>10
  <2>2. ASSUME NEW n \in Nat, 1 <= n, n < N, n \in T PROVE n + 1 \in T
    <3>1. n + 1 \in 2 .. N /\ n + 1 \in 1 .. N /\ (n + 1) - 1 = n
      BY <1>1, <2>2
    <3>2. PICK x \in Nat, y \in Nat : x = g[n] /\ y = ws[n + 1] /\ x > 0
      BY <1>1, <2>2, <3>1 DEF Positives
    <3>3. g[n + 1] = gcd[<<x, y>>]
      BY <1>10, <3>1, <3>2
    <3>4. gcd[<<x, y>>] \in Nat /\ gcd[<<x, y>>] > 0
      BY <3>2, GcdDivides
    <3> QED
      BY <3>3, <3>4 DEF Positives
  <2>3. 1 \in Nat
    OBVIOUS
  <2> HIDE DEF T
  <2> QED
    BY <1>1, <2>1, <2>2, <2>3, Upto
<1>12. g \in [1 .. Len(ws) -> Positives]
  BY <1>9, <1>11
<1>13. IsGcdOf(g, ws)
  BY <1>6, <1>7, <1>10, <1>12 DEF IsGcdOf
<1> QED
  BY <1>13

LEMMA GcdOfDivides ==
  ASSUME NEW ws \in Seq(Positives), Len(ws) # 0
  PROVE  GcdOf(ws) \in Positives /\ \A i \in 1 .. Len(ws) : Divides(GcdOf(ws), ws[i])
<1>1. Len(ws) \in Nat /\ 1 <= Len(ws) /\ \A n \in 1 .. Len(ws) : ws[n] \in Positives
  BY LenProperties, ElementOfSeq
<1>2. PICK g : IsGcdOf(g, ws)
  BY GcdOfIs
<1> DEFINE T == {n \in Nat : \A i \in 1 .. n : Divides(g[n], ws[i])}
<1>3. 1 \in T
  <2>1. PICK x \in Nat : x = ws[1]
    BY <1>1 DEF Positives
  <2>2. x = 1 * x
    OBVIOUS
  <2>3. Divides(x, x)
    BY <2>2 DEF Divides
  <2>4. \A i \in 1 .. 1 : i = 1
    OBVIOUS
  <2> QED
    BY <1>2, <2>1, <2>3, <2>4 DEF IsGcdOf
<1>4. ASSUME NEW n \in Nat, 1 <= n, n < Len(ws), n \in T PROVE n + 1 \in T
  <2>1. n + 1 \in 2 .. Len(ws) /\ n + 1 \in 1 .. Len(ws) /\ n \in 1 .. Len(ws) /\ (n + 1) - 1 = n
    BY <1>1, <1>4
  <2>2. PICK x \in Nat, y \in Nat : x = g[n] /\ y = ws[n + 1]
    BY <1>1, <1>2, <2>1 DEF IsGcdOf, Positives
  <2>3. PICK z \in Nat : z = gcd[<<x, y>>] /\ Divides(z, x) /\ Divides(z, y)
    BY GcdDivides
  <2>4. g[n + 1] = z
    BY <1>2, <2>1, <2>2, <2>3 DEF IsGcdOf
  <2>5. ASSUME NEW i \in 1 .. n + 1 PROVE Divides(z, ws[i])
    <3>1. CASE i = n + 1
      BY <2>2, <2>3, <3>1
    <3>2. CASE i # n + 1
      <4>1. i \in 1 .. n /\ i \in 1 .. Len(ws)
        BY <1>4, <3>2
      <4>2. Divides(x, ws[i])
        BY <1>4, <2>2, <4>1
      <4>3. ws[i] \in Int /\ z \in Int /\ x \in Int
        BY <1>1, <4>1 DEF Positives
      <4> QED
        BY <2>3, <4>2, <4>3, DividesChain
    <3> QED
      BY <3>1, <3>2
  <2> QED
    BY <2>4, <2>5
<1>5. \A n \in 1 .. Len(ws) : n \in T
  <2>1. 1 \in Nat
    OBVIOUS
  <2> HIDE DEF T
  <2> QED
    BY <1>1, <1>3, <1>4, <2>1, Upto
<1>6. Len(ws) \in 1 .. Len(ws)
  BY <1>1
<1> QED
  BY <1>2, <1>5, <1>6 DEF IsGcdOf

LEMMA GcdOfScales ==
  ASSUME NEW k \in Positives, NEW us \in Seq(Positives), NEW ws \in Seq(Positives),
         Len(us) = Len(ws), Len(ws) # 0, \A i \in 1 .. Len(ws) : us[i] = k * ws[i]
  PROVE  GcdOf(us) = k * GcdOf(ws)
<1>1. Len(ws) \in Nat /\ 1 <= Len(ws) /\ \A n \in 1 .. Len(ws) : ws[n] \in Positives
  BY LenProperties, ElementOfSeq
<1>2. PICK g : IsGcdOf(g, ws)
  BY GcdOfIs
<1>3. PICK h : IsGcdOf(h, us)
  BY GcdOfIs
<1> DEFINE T == {n \in Nat : h[n] = k * g[n]}
<1>4. 1 \in T
  <2>1. 1 \in 1 .. Len(ws)
    BY <1>1
  <2> QED
    BY <1>2, <1>3, <2>1 DEF IsGcdOf
<1>5. ASSUME NEW n \in Nat, 1 <= n, n < Len(ws), n \in T PROVE n + 1 \in T
  <2>1. n + 1 \in 2 .. Len(ws) /\ n + 1 \in 1 .. Len(ws) /\ n \in 1 .. Len(ws) /\ (n + 1) - 1 = n
    BY <1>1, <1>5
  <2>2. PICK x \in Nat, y \in Nat : x = g[n] /\ y = ws[n + 1]
    BY <1>1, <1>2, <2>1 DEF IsGcdOf, Positives
  <2>3. g[n + 1] = gcd[<<x, y>>]
    BY <1>2, <2>1, <2>2 DEF IsGcdOf
  <2>4. h[n + 1] = gcd[<<h[n], us[n + 1]>>]
    BY <1>3, <2>1 DEF IsGcdOf
  <2>5. h[n] = k * x /\ us[n + 1] = k * y
    BY <1>5, <2>1, <2>2
  <2>6. gcd[<<k * x, k * y>>] = k * gcd[<<x, y>>]
    BY GcdScales DEF Positives
  <2>7. h[n + 1] = k * g[n + 1]
    BY <2>3, <2>4, <2>5, <2>6
  <2> QED
    BY <2>7
<1>6. \A n \in 1 .. Len(ws) : n \in T
  <2>1. 1 \in Nat
    OBVIOUS
  <2> HIDE DEF T
  <2> QED
    BY <1>1, <1>4, <1>5, <2>1, Upto
<1>7. Len(ws) \in 1 .. Len(ws)
  BY <1>1
<1> QED
  BY <1>2, <1>3, <1>6, <1>7 DEF IsGcdOf

LEMMA ScaledIs ==
  ASSUME NEW ws \in Seq(Positives), Len(ws) # 0
  PROVE  /\ Scaled(ws) \in Seq(Positives) /\ Len(Scaled(ws)) = Len(ws)
         /\ \A i \in 1 .. Len(ws) : ws[i] = GcdOf(ws) * Scaled(ws)[i]
<1>1. /\ Len(ws) \in Nat /\ DOMAIN ws = 1 .. Len(ws)
      /\ \A n \in 1 .. Len(ws) : ws[n] \in Positives
  BY LenProperties, ElementOfSeq
<1>2. PICK g : g = GcdOf(ws)
  OBVIOUS
<1>3. g \in Positives /\ \A i \in 1 .. Len(ws) : Divides(g, ws[i])
  BY <1>2, GcdOfDivides
<1>4. PICK f : f = [i \in 1 .. Len(ws) |-> ws[i] \div g]
  OBVIOUS
<1>5. Scaled(ws) = f
  BY <1>1, <1>2, <1>4 DEF Scaled
<1>6. ASSUME NEW i \in 1 .. Len(ws) PROVE f[i] \in Positives /\ ws[i] = g * f[i]
  <2>1. PICK q \in Int : ws[i] = q * g
    BY <1>3 DEF Divides
  <2>2. PICK w \in Nat : w = ws[i] /\ w > 0
    BY <1>1 DEF Positives
  <2>3. g \in Nat /\ g > 0
    BY <1>3 DEF Positives
  <2>4. q >= 1
    <3> SUFFICES ASSUME -q >= 0 PROVE FALSE
      OBVIOUS
    <3>1. PICK z \in Nat : z = -q
      OBVIOUS
    <3>2. z * g \in Nat /\ w = -(z * g)
      BY <2>1, <2>2, <2>3, <3>1
    <3> QED
      BY <2>2, <3>2
  <2>5. (g * q + 0) \div g = q
    <3>1. q \in Nat /\ 0 \in Nat /\ 0 < g /\ g \in Nat \ {0}
      BY <2>3, <2>4
    <3> QED
      BY <3>1, QuotientIs
  <2>6. g * q + 0 = w
    BY <2>1, <2>2, <2>3
  <2>7. f[i] = q
    BY <1>4, <2>2, <2>5, <2>6
  <2>8. q \in Positives
    BY <2>4 DEF Positives
  <2>9. w = g * q
    BY <2>3, <2>6
  <2> QED
    BY <2>2, <2>7, <2>8, <2>9
<1>7. f \in [1 .. Len(ws) -> Positives]
  BY <1>4, <1>6
<1>8. f \in Seq(Positives) /\ Len(f) = Len(ws)
  BY <1>1, <1>7, FunctionIsSeq
<1> QED
  BY <1>2, <1>5, <1>6, <1>8

(* Weights in the same ratio are the same once they are scaled.            *)
LEMMA ScaledSame ==
  ASSUME NEW us \in Seq(Positives), NEW ws \in Seq(Positives), Len(us) = Len(ws), Len(ws) # 0,
         NEW a \in Positives, NEW b \in Positives,
         \A i \in 1 .. Len(ws) : a * us[i] = b * ws[i]
  PROVE  Scaled(us) = Scaled(ws)
<1>1. /\ Len(ws) \in Nat
      /\ \A n \in 1 .. Len(ws) : ws[n] \in Positives
      /\ \A n \in 1 .. Len(ws) : us[n] \in Positives
  BY LenProperties, ElementOfSeq
<1>2. PICK x, y : x = GcdOf(us) /\ y = GcdOf(ws)
  OBVIOUS
<1>3. x \in Positives /\ y \in Positives
  BY <1>2, GcdOfDivides
<1>4. PICK both : both = [i \in 1 .. Len(ws) |-> a * us[i]]
  OBVIOUS
<1>5. /\ both \in Seq(Positives) /\ Len(both) = Len(ws)
      /\ \A i \in 1 .. Len(ws) : both[i] = a * us[i] /\ both[i] = b * ws[i]
  <2>1. ASSUME NEW i \in 1 .. Len(ws) PROVE a * us[i] \in Positives
    <3>1. PICK u \in Nat, c \in Nat : u = us[i] /\ u > 0 /\ c = a /\ c > 0
      BY <1>1 DEF Positives
    <3>2. u * c >= u /\ u * c = c * u /\ c * u \in Nat
      BY <3>1, MultipleIsNoLess
    <3> QED
      BY <3>1, <3>2 DEF Positives
  <2>2. both \in [1 .. Len(ws) -> Positives]
    BY <1>4, <2>1
  <2>3. both \in Seq(Positives) /\ Len(both) = Len(ws)
    BY <1>1, <2>2, FunctionIsSeq
  <2> QED
    BY <1>4, <2>3
<1>6. GcdOf(both) = a * x /\ GcdOf(both) = b * y
  BY <1>2, <1>5, GcdOfScales
<1>7. PICK su, sw : su = Scaled(us) /\ sw = Scaled(ws)
  OBVIOUS
<1>8. /\ su \in Seq(Positives) /\ Len(su) = Len(ws)
      /\ \A i \in 1 .. Len(ws) : us[i] = x * su[i]
  BY <1>2, <1>7, ScaledIs
<1>9. /\ sw \in Seq(Positives) /\ Len(sw) = Len(ws)
      /\ \A i \in 1 .. Len(ws) : ws[i] = y * sw[i]
  BY <1>2, <1>7, ScaledIs
<1>10. ASSUME NEW i \in 1 .. Len(ws) PROVE su[i] = sw[i]
  <2>1. PICK p \in Nat, q \in Nat : p = su[i] /\ q = sw[i]
    <3>1. su[i] \in Positives /\ sw[i] \in Positives
      BY <1>8, <1>9, ElementOfSeq
    <3> QED
      BY <3>1 DEF Positives
  <2>2. a * (x * p) = b * (y * q)
    BY <1>8, <1>9, <2>1
  <2>3. PICK d \in Nat, c \in Nat, v \in Nat, w \in Nat :
          d = a /\ c = b /\ v = x /\ w = y /\ d > 0 /\ v > 0
    BY <1>3 DEF Positives
  <2>4. d * v = c * w
    BY <1>6, <2>3
  <2>5. (d * v) * p = (c * w) * q
    BY <2>2, <2>3
  <2>6. PICK e \in Nat : e = d * v /\ e > 0
    <3>1. v * d >= v /\ v * d = d * v /\ d * v \in Nat
      BY <2>3, MultipleIsNoLess
    <3> QED
      BY <2>3, <3>1
  <2>7. e * p = e * q
    BY <2>4, <2>5, <2>6
  <2>8. e \in Nat \ {0} /\ p \in Int /\ q \in Int
    BY <2>6
  <2>9. p = q
    BY <2>7, <2>8, Cancel
  <2> QED
    BY <2>1, <2>9
<1> QED
  BY <1>7, <1>8, <1>9, <1>10, SeqEqual

-----------------------------------------------------------------------------
(* The table *)

Repeat(x, m) == [k \in 1 .. m |-> x]

LEMMA RepeatIs ==
  ASSUME NEW m \in Nat, NEW S, NEW x \in S
  PROVE  Repeat(x, m) \in Seq(S) /\ Len(Repeat(x, m)) = m
<1>1. Repeat(x, m) \in [1 .. m -> S]
  BY DEF Repeat
<1> QED
  BY <1>1, FunctionIsSeq

LEMMA MappedRepeat ==
  ASSUME NEW c, NEW x, NEW m \in Nat
  PROVE  Mapped(c, Repeat(x, m)) = Repeat(c[x], m)
  BY DEF Mapped, Repeat

LEMMA SumOfRepeat ==
  ASSUME NEW x \in Int, NEW m \in Nat
  PROVE  SumOf(Repeat(x, m)) = m * x
<1>1. PICK s : s = Repeat(x, m)
  OBVIOUS
<1>2. s \in Seq(Int) /\ Len(s) = m /\ \A n \in 1 .. m : s[n] = x
  BY <1>1, RepeatIs DEF Repeat
<1>3. PICK f : f = Sums(s)
  OBVIOUS
<1>4. f \in [0 .. m -> Int] /\ f[0] = 0 /\ \A n \in 1 .. m : f[n] = f[n - 1] + s[n]
  BY <1>2, <1>3, SumsAre
<1> DEFINE T == {n \in Nat : f[n] = n * x}
<1>5. 0 \in T
  BY <1>4
<1>6. ASSUME NEW n \in Nat, 0 <= n, n < m, n \in T PROVE n + 1 \in T
  <2>1. n + 1 \in 1 .. m /\ (n + 1) - 1 = n
    BY <1>6
  <2>2. f[n + 1] = f[n] + x
    BY <1>2, <1>4, <2>1
  <2>3. f[n] = n * x
    BY <1>6
  <2>4. (n + 1) * x = n * x + x
    OBVIOUS
  <2> QED
    BY <2>2, <2>3, <2>4
<1>7. \A n \in 0 .. m : n \in T
  <2> HIDE DEF T
  <2> QED
    BY <1>5, <1>6, Upto
<1>8. m \in 0 .. m
  OBVIOUS
<1> QED
  BY <1>1, <1>2, <1>3, <1>7, <1>8 DEF SumOf

(* What the recursion of Table returns.                                    *)
IsTable(t, ws) ==
  /\ t \in [0 .. Len(ws) -> Seq(1 .. Len(ws))]
  /\ t[0] = <<>>
  /\ \A n \in 1 .. Len(ws) : t[n] = t[n - 1] \o Repeat(n, ws[n])
  /\ Table(ws) = t[Len(ws)]

LEMMA TableIs ==
  ASSUME NEW ws \in Seq(Nat)
  PROVE  \E t : IsTable(t, ws)
<1> DEFINE N == Len(ws)
           S == Seq(1 .. N)
           IsT(f) == f = [n \in 0 .. N |-> IF n = 0 THEN <<>> ELSE f[n - 1] \o [k \in 1 .. ws[n] |-> n]]
           step == [xn \in S \X (0 .. N) |->
                      IF xn[2] = 0 THEN <<>> ELSE xn[1] \o Repeat(xn[2], ws[xn[2]])]
<1>1. N \in Nat /\ \A n \in 1 .. N : ws[n] \in Nat
  BY LenProperties, ElementOfSeq
<1>2. ASSUME NEW x \in S, NEW n \in 1 .. N PROVE x \o Repeat(n, ws[n]) \in S
  <2>1. ws[n] \in Nat
    BY <1>1
  <2>2. PICK r : r = Repeat(n, ws[n])
    OBVIOUS
  <2>3. r \in S
    BY <2>1, <2>2, RepeatIs
  <2> QED
    BY <2>2, <2>3, ConcatProperties
<1>3. <<>> \in S
  BY EmptySeq
<1>4. step \in [S \X (0 .. N) -> S]
  <2>1. ASSUME NEW xn \in S \X (0 .. N)
        PROVE  (IF xn[2] = 0 THEN <<>> ELSE xn[1] \o Repeat(xn[2], ws[xn[2]])) \in S
    <3>1. PICK x \in S, n \in 0 .. N : x = xn[1] /\ n = xn[2]
      OBVIOUS
    <3>2. n # 0 => n \in 1 .. N
      BY <1>1
    <3> HIDE DEF S
    <3> QED
      BY <1>2, <1>3, <3>1, <3>2
  <2> HIDE DEF S
  <2> QED
    BY <2>1
<1>5. PICK f : Recursive(f, 0, N, S, <<>>, step)
  <2> HIDE DEF step, N, S
  <2>1. 0 <= N
    BY <1>1
  <2>2. 0 \in Nat
    OBVIOUS
  <2>3. N \in Nat
    BY <1>1
  <2> QED
    BY <1>3, <1>4, <2>1, <2>2, <2>3, Recursion, Zenon
<1>6. ASSUME NEW n \in 0 .. N, n # 0 PROVE f[n] = f[n - 1] \o [k \in 1 .. ws[n] |-> n]
  <2>1. n - 1 \in 0 .. N
    BY <1>1, <1>6
  <2>2. f[n - 1] \in S
    <3> HIDE DEF S
    <3> QED
      BY <1>5, <2>1 DEF Recursive
  <2>3. step[<<f[n - 1], n>>] = f[n - 1] \o Repeat(n, ws[n])
    <3> HIDE DEF S
    <3> QED
      BY <1>6, <2>2
  <2>4. f[n] = step[<<f[n - 1], n>>]
    <3> HIDE DEF S, step
    <3> QED
      BY <1>5, <1>6 DEF Recursive
  <2> QED
    BY <2>3, <2>4 DEF Repeat
<1>7. IsT(f)
  <2> HIDE DEF S, step
  <2>1. \A n \in 0 .. N : n = 0 => f[n] = <<>>
    BY <1>5 DEF Recursive
  <2>2. \A n \in 0 .. N : f[n] = IF n = 0 THEN <<>> ELSE f[n - 1] \o [k \in 1 .. ws[n] |-> n]
    BY <1>6, <2>1
  <2>3. f \in [0 .. N -> S]
    BY <1>5 DEF Recursive
  <2> QED
    BY <2>2, <2>3
<1>8. Table(ws) = (CHOOSE g : IsT(g))[Len(ws)]
  BY DEF Table
<1>9. PICK g : g = CHOOSE h : IsT(h)
  OBVIOUS
<1>10. IsT(g)
  <2> HIDE DEF IsT
  <2> QED
    BY <1>7, <1>9
<1>11. g = [n \in 0 .. N |-> g[n]]
  BY <1>10
<1>12. g[0] = <<>> /\ \A n \in 1 .. N : g[n] = g[n - 1] \o Repeat(n, ws[n])
  <2>1. 0 \in 0 .. N /\ \A n \in 1 .. N : n \in 0 .. N /\ n # 0
    BY <1>1
  <2> QED
    BY <1>10, <2>1 DEF Repeat
<1> DEFINE T == {n \in Nat : g[n] \in S}
<1>13. \A n \in 0 .. N : n \in T
  <2> HIDE DEF S
  <2>1. 0 \in T
    BY <1>3, <1>12
  <2>2. ASSUME NEW n \in Nat, 0 <= n, n < N, n \in T PROVE n + 1 \in T
    <3>1. n + 1 \in 1 .. N /\ (n + 1) - 1 = n
      BY <1>1, <2>2
    <3>2. g[n + 1] = g[n] \o Repeat(n + 1, ws[n + 1])
      BY <1>12, <3>1
    <3>3. PICK x \in S, k \in 1 .. N : x = g[n] /\ k = n + 1
      BY <2>2, <3>1
    <3>4. PICK y : y = x \o Repeat(k, ws[k])
      OBVIOUS
    <3>5. y \in S /\ g[n + 1] = y
      BY <1>2, <3>2, <3>3, <3>4
    <3> QED
      BY <3>5
  <2> HIDE DEF T
  <2> QED
    BY <1>1, <2>1, <2>2, Upto
<1>14. g \in [0 .. N -> S]
  <2>1. \A n \in 0 .. N : g[n] \in S
    BY <1>13
  <2> HIDE DEF S
  <2> QED
    BY <1>11, <2>1
<1>15. IsTable(g, ws)
  BY <1>8, <1>9, <1>12, <1>14 DEF IsTable
<1> QED
  BY <1>15

(* A sum over the table is the sum over the positions, times their weight. *)
LEMMA TableSum ==
  ASSUME NEW ws \in Seq(Nat), NEW c \in [1 .. Len(ws) -> Int], NEW v \in Seq(Int),
         Len(v) = Len(ws), \A i \in 1 .. Len(ws) : v[i] = ws[i] * c[i]
  PROVE  /\ Table(ws) \in Seq(1 .. Len(ws))
         /\ SumOf(Mapped(c, Table(ws))) = SumOf(v)
<1> DEFINE D == 1 .. Len(ws)
<1>1. Len(ws) \in Nat /\ \A n \in 1 .. Len(ws) : ws[n] \in Nat
  BY LenProperties, ElementOfSeq
<1>2. PICK t : IsTable(t, ws)
  BY TableIs
<1>3. PICK f : f = Sums(v)
  OBVIOUS
<1>4. /\ f \in [0 .. Len(ws) -> Int] /\ f[0] = 0
      /\ \A n \in 1 .. Len(ws) : f[n] = f[n - 1] + v[n]
  BY <1>3, SumsAre
<1>5. \A n \in 0 .. Len(ws) : t[n] \in Seq(D)
  BY <1>2 DEF IsTable
<1> DEFINE T == {n \in Nat : SumOf(Mapped(c, t[n])) = f[n]}
<1>6. 0 \in T
  <2>1. t[0] = <<>> /\ <<>> \in Seq(D)
    BY <1>2, EmptySeq DEF IsTable
  <2>2. PICK m : m = Mapped(c, <<>>)
    OBVIOUS
  <2>3. m \in Seq(Int) /\ Len(m) = 0
    <3>1. \A i \in D : c[i] \in Int
      OBVIOUS
    <3>2. IsMapped(Mapped(c, <<>>), Int, c, <<>>)
      <4>1. <<>> \in Seq(D)
        BY <2>1
      <4> HIDE DEF D
      <4> QED
        BY <3>1, <4>1, MappedIs, Zenon
    <3> QED
      BY <2>2, <3>2, EmptySeq DEF IsMapped
  <2>4. m = <<>>
    BY <2>3, EmptySeq
  <2>5. SumOf(m) = 0
    BY <2>3, <2>4, SumIs
  <2> QED
    BY <1>4, <2>1, <2>2, <2>5
<1>7. ASSUME NEW n \in Nat, 0 <= n, n < Len(ws), n \in T PROVE n + 1 \in T
  <2>1. n + 1 \in D /\ (n + 1) - 1 = n /\ n \in 0 .. Len(ws)
    BY <1>1, <1>7
  <2>2. PICK a, w : a = t[n] /\ w = ws[n + 1]
    OBVIOUS
  <2>3. a \in Seq(D) /\ w \in Nat
    BY <1>1, <1>5, <2>1, <2>2
  <2>4. PICK b : b = Repeat(n + 1, w)
    OBVIOUS
  <2>5. b \in Seq(D)
    BY <2>1, <2>3, <2>4, RepeatIs
  <2>6. t[n + 1] = a \o b
    BY <1>2, <2>1, <2>2, <2>4 DEF IsTable
  <2>7. PICK ca, cb, x : ca = Mapped(c, a) /\ cb = Mapped(c, b) /\ x = c[n + 1]
    OBVIOUS
  <2>8. x \in Int
    BY <2>1, <2>7
  <2> HIDE DEF D
  <2>9. \A i \in D : c[i] \in Int
    BY DEF D
  <2>10. ca \in Seq(Int)
    <3>1. IsMapped(Mapped(c, a), Int, c, a)
      BY <2>3, <2>9, MappedIs, Zenon
    <3> QED
      BY <2>7, <3>1 DEF IsMapped
  <2>11. cb = Repeat(x, w)
    BY <2>3, <2>4, <2>7, MappedRepeat
  <2>12. cb \in Seq(Int)
    BY <2>3, <2>8, <2>11, RepeatIs
  <2>13. Mapped(c, a \o b) = ca \o cb
    <3>1. a \in Seq(D)
      BY <2>3
    <3>2. MapsBoth(c, a, b)
      BY <2>5, <3>1, MappedConcat, Zenon
    <3> QED
      BY <2>7, <3>2, Zenon DEF MapsBoth
  <2>14. SumOf(ca \o cb) = SumOf(ca) + SumOf(cb)
    BY <2>10, <2>12, SumOfConcat
  <2>15. SumOf(cb) = w * x
    BY <2>3, <2>8, <2>11, SumOfRepeat
  <2>16. SumOf(ca) = f[n]
    BY <1>7, <2>2, <2>7
  <2>17. f[n + 1] = f[n] + w * x
    BY <1>4, <2>1, <2>2, <2>7 DEF D
  <2>18. SumOf(Mapped(c, t[n + 1])) = f[n + 1]
    BY <2>6, <2>13, <2>14, <2>15, <2>16, <2>17
  <2> QED
    BY <2>18
<1>8. \A n \in 0 .. Len(ws) : n \in T
  <2> HIDE DEF T
  <2> QED
    BY <1>1, <1>6, <1>7, Upto
<1>9. Len(ws) \in 0 .. Len(ws)
  BY <1>1
<1>10. Table(ws) = t[Len(ws)]
  BY <1>2 DEF IsTable
<1> QED
  BY <1>3, <1>5, <1>8, <1>9, <1>10 DEF SumOf

LEMMA TableLength ==
  ASSUME NEW ws \in Seq(Nat)
  PROVE  Table(ws) \in Seq(1 .. Len(ws)) /\ Len(Table(ws)) = SumOf(ws)
<1>1. Len(ws) \in Nat /\ \A n \in 1 .. Len(ws) : ws[n] \in Nat
  BY LenProperties, ElementOfSeq
<1>2. PICK c : c = [i \in 1 .. Len(ws) |-> 1]
  OBVIOUS
<1>3. c \in [1 .. Len(ws) -> Int]
  BY <1>2
<1>4. ws \in Seq(Int)
  <2>1. Nat \subseteq Int
    OBVIOUS
  <2> QED
    BY <2>1, SeqMonotonic
<1>5. \A i \in 1 .. Len(ws) : ws[i] = ws[i] * c[i]
  BY <1>1, <1>2
<1>6. Table(ws) \in Seq(1 .. Len(ws)) /\ SumOf(Mapped(c, Table(ws))) = SumOf(ws)
  BY <1>3, <1>4, <1>5, TableSum
<1>7. PICK t, n : t = Table(ws) /\ n = Len(t)
  OBVIOUS
<1>8. n \in Nat /\ \A i \in 1 .. n : t[i] \in 1 .. Len(ws)
  BY <1>6, <1>7, LenProperties, ElementOfSeq
<1>9. DOMAIN t = 1 .. n
  BY <1>6, <1>7, LenProperties
<1>10. Mapped(c, t) = Repeat(1, n)
  BY <1>2, <1>8, <1>9 DEF Mapped, Repeat
<1>11. SumOf(Repeat(1, n)) = n * 1
  BY <1>8, SumOfRepeat
<1> QED
  BY <1>6, <1>7, <1>8, <1>10, <1>11

-----------------------------------------------------------------------------
(* The positions that are kept *)

IsConfig(config) ==
  /\ config.pools \in Seq(Pool \cup {NoPool}) /\ config.weights \in Seq(Int)
  /\ Len(config.pools) = Len(config.weights)

(* What the recursion of Kept returns.                                     *)
IsKept(k, config) ==
  /\ k \in [0 .. Len(config.pools) -> Seq(1 .. Len(config.pools))]
  /\ k[0] = <<>>
  /\ \A n \in 1 .. Len(config.pools) :
       k[n] = IF config.weights[n] > 0 THEN Append(k[n - 1], n) ELSE k[n - 1]
  /\ Kept(config) = k[Len(config.pools)]

LEMMA KeptIs ==
  ASSUME NEW config, IsConfig(config)
  PROVE  \E k : IsKept(k, config)
<1> DEFINE N == Len(config.pools)
           S == Seq(1 .. N)
           w == config.weights
           IsK(f) == f = [n \in 0 .. N |->
                            IF n = 0 THEN <<>>
                            ELSE IF w[n] > 0 THEN Append(f[n - 1], n) ELSE f[n - 1]]
           step == [xn \in S \X (0 .. N) |->
                      IF xn[2] = 0 THEN <<>>
                      ELSE IF w[xn[2]] > 0 THEN Append(xn[1], xn[2]) ELSE xn[1]]
<1>1. N \in Nat
  BY LenProperties DEF IsConfig
<1>2. ASSUME NEW x \in S, NEW n \in 1 .. N PROVE Append(x, n) \in S
  BY <1>2, AppendProperties
<1>3. <<>> \in S
  BY EmptySeq
<1>4. step \in [S \X (0 .. N) -> S]
  <2>1. ASSUME NEW xn \in S \X (0 .. N)
        PROVE  (IF xn[2] = 0 THEN <<>>
                ELSE IF w[xn[2]] > 0 THEN Append(xn[1], xn[2]) ELSE xn[1]) \in S
    <3>1. PICK x \in S, n \in 0 .. N : x = xn[1] /\ n = xn[2]
      OBVIOUS
    <3>2. n # 0 => n \in 1 .. N
      BY <1>1
    <3>3. n # 0 => Append(x, n) \in S
      <4> HIDE DEF S
      <4> QED
        BY <1>2, <3>2
    <3> HIDE DEF S, w
    <3> QED
      BY <1>3, <3>1, <3>3
  <2> HIDE DEF S, w
  <2> QED
    BY <2>1
<1>5. PICK f : Recursive(f, 0, N, S, <<>>, step)
  <2> HIDE DEF step, N, S
  <2>1. 0 <= N
    BY <1>1
  <2>2. 0 \in Nat
    OBVIOUS
  <2>3. N \in Nat
    BY <1>1
  <2> QED
    BY <1>3, <1>4, <2>1, <2>2, <2>3, Recursion, Zenon
<1>6. ASSUME NEW n \in 0 .. N, n # 0
      PROVE  f[n] = IF w[n] > 0 THEN Append(f[n - 1], n) ELSE f[n - 1]
  <2>1. n - 1 \in 0 .. N
    BY <1>1, <1>6
  <2>2. f[n - 1] \in S
    <3> HIDE DEF S
    <3> QED
      BY <1>5, <2>1 DEF Recursive
  <2>3. step[<<f[n - 1], n>>] = IF w[n] > 0 THEN Append(f[n - 1], n) ELSE f[n - 1]
    <3> HIDE DEF S, w
    <3> QED
      BY <1>6, <2>2
  <2>4. f[n] = step[<<f[n - 1], n>>]
    <3> HIDE DEF S, step
    <3> QED
      BY <1>5, <1>6 DEF Recursive
  <2> HIDE DEF step
  <2> QED
    BY <2>3, <2>4
<1>7. IsK(f)
  <2> HIDE DEF S, step, w
  <2>1. \A n \in 0 .. N : n = 0 => f[n] = <<>>
    BY <1>5 DEF Recursive
  <2>2. \A n \in 0 .. N : f[n] = IF n = 0 THEN <<>>
                                 ELSE IF w[n] > 0 THEN Append(f[n - 1], n) ELSE f[n - 1]
    BY <1>6, <2>1
  <2>3. f \in [0 .. N -> S]
    BY <1>5 DEF Recursive
  <2> QED
    BY <2>2, <2>3
<1>8. Kept(config) = (CHOOSE g : IsK(g))[Len(config.pools)]
  BY DEF Kept
<1>9. PICK g : g = CHOOSE h : IsK(h)
  OBVIOUS
<1>10. IsK(g)
  <2> HIDE DEF IsK
  <2> QED
    BY <1>7, <1>9
<1>11. g = [n \in 0 .. N |-> g[n]]
  BY <1>10
<1>12. g[0] = <<>>
       /\ \A n \in 1 .. N : g[n] = IF w[n] > 0 THEN Append(g[n - 1], n) ELSE g[n - 1]
  <2>1. 0 \in 0 .. N /\ \A n \in 1 .. N : n \in 0 .. N /\ n # 0
    BY <1>1
  <2> QED
    BY <1>10, <2>1
<1> DEFINE T == {n \in Nat : g[n] \in S}
<1>13. \A n \in 0 .. N : n \in T
  <2> HIDE DEF S, w
  <2>1. 0 \in T
    BY <1>3, <1>12
  <2>2. ASSUME NEW n \in Nat, 0 <= n, n < N, n \in T PROVE n + 1 \in T
    <3>1. n + 1 \in 1 .. N /\ (n + 1) - 1 = n
      BY <1>1, <2>2
    <3>2. PICK x \in S, k \in 1 .. N : x = g[n] /\ k = n + 1
      BY <2>2, <3>1
    <3>3. Append(x, k) \in S
      BY <1>2
    <3>4. g[k] = IF w[k] > 0 THEN Append(g[k - 1], k) ELSE g[k - 1]
      BY <1>12
    <3>5. g[k] = Append(x, k) \/ g[k] = x
      BY <3>1, <3>2, <3>4
    <3>6. g[k] \in S
      BY <3>3, <3>5
    <3> QED
      BY <3>2, <3>6
  <2> HIDE DEF T
  <2> QED
    BY <1>1, <2>1, <2>2, Upto
<1>14. g \in [0 .. N -> S]
  <2>1. \A n \in 0 .. N : g[n] \in S
    BY <1>13
  <2> HIDE DEF S
  <2> QED
    BY <1>11, <2>1
<1>15. IsKept(g, config)
  BY <1>8, <1>9, <1>12, <1>14 DEF IsKept
<1> QED
  BY <1>15

LEMMA KeptArePositive ==
  ASSUME NEW config, IsConfig(config)
  PROVE  /\ Kept(config) \in Seq(1 .. Len(config.pools))
         /\ \A i \in 1 .. Len(Kept(config)) : config.weights[Kept(config)[i]] > 0
<1> DEFINE N == Len(config.pools)
           D == 1 .. N
           w == config.weights
<1>1. N \in Nat
  BY LenProperties DEF IsConfig
<1>2. PICK k : IsKept(k, config)
  BY KeptIs
<1>3. /\ k[0] = <<>> /\ \A n \in 0 .. N : k[n] \in Seq(D)
      /\ \A n \in 1 .. N : k[n] = IF w[n] > 0 THEN Append(k[n - 1], n) ELSE k[n - 1]
  BY <1>2 DEF IsKept
<1> HIDE DEF D, w
<1> DEFINE Good(s) == \A i \in 1 .. Len(s) : w[s[i]] > 0
           T == {n \in Nat : Good(k[n])}
<1>4. 0 \in T
  BY <1>3, EmptySeq
<1>5. ASSUME NEW n \in Nat, 0 <= n, n < N, n \in T PROVE n + 1 \in T
  <2>1. n + 1 \in D /\ (n + 1) - 1 = n /\ n \in 0 .. N
    BY <1>1, <1>5 DEF D
  <2>2. PICK s, m : s = k[n] /\ m = n + 1
    OBVIOUS
  <2>3. s \in Seq(D) /\ m \in D /\ Good(s)
    BY <1>3, <1>5, <2>1, <2>2
  <2>4. k[m] = IF w[m] > 0 THEN Append(s, m) ELSE s
    BY <1>3, <2>1, <2>2 DEF D
  <2>5. CASE w[m] > 0
    <3>1. PICK a : a = Append(s, m)
      OBVIOUS
    <3>2. Len(a) = Len(s) + 1 /\ a[Len(s) + 1] = m /\ \A i \in 1 .. Len(s) : a[i] = s[i]
      BY <2>3, <3>1, AppendProperties
    <3>3. Len(s) \in Nat
      BY <2>3, LenProperties
    <3>4. ASSUME NEW i \in 1 .. Len(a) PROVE w[a[i]] > 0
      <4>1. CASE i = Len(s) + 1
        BY <2>5, <3>2, <4>1
      <4>2. CASE i # Len(s) + 1
        <5>1. i \in 1 .. Len(s)
          BY <3>2, <3>3, <4>2
        <5> QED
          BY <2>3, <3>2, <5>1
      <4> QED
        BY <4>1, <4>2
    <3>5. k[m] = a /\ Good(a)
      BY <2>4, <2>5, <3>1, <3>4
    <3> HIDE DEF Good
    <3> QED
      BY <2>2, <3>5
  <2>6. CASE ~(w[m] > 0)
    BY <2>2, <2>3, <2>4, <2>6
  <2> QED
    BY <2>5, <2>6
<1>6. \A n \in 0 .. N : n \in T
  <2> HIDE DEF T, N
  <2> QED
    BY <1>1, <1>4, <1>5, Upto
<1>7. N \in 0 .. N
  BY <1>1
<1>8. Kept(config) = k[N]
  BY <1>2 DEF IsKept
<1>9. k[N] \in Seq(D) /\ Good(k[N])
  BY <1>3, <1>6, <1>7
<1> QED
  BY <1>8, <1>9 DEF D, w

(* A sum over the positions kept is the sum over those with a positive     *)
(* weight.                                                                 *)
LEMMA KeptSum ==
  ASSUME NEW config, IsConfig(config), NEW c, NEW v \in Seq(Int), Len(v) = Len(config.pools),
         \A i \in 1 .. Len(config.pools) :
           c[i] \in Int /\ v[i] = IF config.weights[i] > 0 THEN c[i] ELSE 0
  PROVE  SumOf(Mapped(c, Kept(config))) = SumOf(v)
<1> DEFINE N == Len(config.pools)
           D == 1 .. N
           w == config.weights
<1>1. N \in Nat
  BY LenProperties DEF IsConfig
<1>2. PICK k : IsKept(k, config)
  BY KeptIs
<1>3. /\ k[0] = <<>> /\ \A n \in 0 .. N : k[n] \in Seq(D)
      /\ \A n \in 1 .. N : k[n] = IF w[n] > 0 THEN Append(k[n - 1], n) ELSE k[n - 1]
  BY <1>2 DEF IsKept
<1>4. PICK f : f = Sums(v)
  OBVIOUS
<1>5. f \in [0 .. N -> Int] /\ f[0] = 0 /\ \A n \in 1 .. N : f[n] = f[n - 1] + v[n]
  BY <1>4, SumsAre
<1>6. (\A i \in D : c[i] \in Int) /\ \A i \in D : v[i] = IF w[i] > 0 THEN c[i] ELSE 0
  OBVIOUS
<1> HIDE DEF D, w
<1> DEFINE T == {n \in Nat : SumOf(Mapped(c, k[n])) = f[n]}
<1>7. ASSUME NEW s \in Seq(D) PROVE Mapped(c, s) \in Seq(Int) /\ Len(Mapped(c, s)) = Len(s)
  <2>1. \A i \in D : c[i] \in Int
    BY <1>6
  <2>2. IsMapped(Mapped(c, s), Int, c, s)
    BY <2>1, MappedIs, Zenon
  <2> QED
    BY <2>2 DEF IsMapped
<1>8. 0 \in T
  <2>1. PICK m, s : m = Mapped(c, s) /\ s = <<>>
    OBVIOUS
  <2>2. s \in Seq(D) /\ Len(s) = 0
    BY <2>1, EmptySeq
  <2>3. m \in Seq(Int) /\ Len(m) = 0
    BY <1>7, <2>1, <2>2
  <2>4. m = <<>>
    BY <2>3, EmptySeq
  <2>5. SumOf(m) = 0
    BY <2>3, <2>4, SumIs
  <2> QED
    BY <1>3, <1>5, <2>1, <2>5
<1>9. ASSUME NEW n \in Nat, 0 <= n, n < N, n \in T PROVE n + 1 \in T
  <2>1. n + 1 \in D /\ n + 1 \in 1 .. N /\ (n + 1) - 1 = n /\ n \in 0 .. N
    BY <1>1, <1>9 DEF D
  <2>2. PICK s, m : s = k[n] /\ m = n + 1
    OBVIOUS
  <2>3. s \in Seq(D) /\ m \in D /\ SumOf(Mapped(c, s)) = f[n]
    BY <1>3, <1>9, <2>1, <2>2
  <2>4. k[m] = IF w[m] > 0 THEN Append(s, m) ELSE s
    BY <1>3, <2>1, <2>2
  <2>5. f[m] = f[n] + v[m] /\ f[n] \in Int /\ v[m] = IF w[m] > 0 THEN c[m] ELSE 0
    BY <1>5, <1>6, <2>1, <2>2
  <2>6. CASE w[m] > 0
    <3>1. PICK one, cs, x : one = <<m>> /\ cs = Mapped(c, s) /\ x = c[m]
      OBVIOUS
    <3>2. x \in Int
      BY <1>6, <2>3, <3>1
    <3>3. one = Repeat(m, 1)
      BY <3>1 DEF Repeat
    <3>4. one \in Seq(D)
      BY <2>3, <3>3, RepeatIs
    <3>5. Mapped(c, one) = Repeat(x, 1)
      BY <3>1, <3>3, MappedRepeat
    <3>6. PICK ones : ones = Repeat(x, 1)
      OBVIOUS
    <3>7. ones \in Seq(Int) /\ SumOf(ones) = 1 * x
      BY <3>2, <3>6, RepeatIs, SumOfRepeat
    <3>8. cs \in Seq(Int)
      BY <1>7, <2>3, <3>1
    <3>9. MapsBoth(c, s, one)
      <4>1. s \in Seq(D)
        BY <2>3
      <4> QED
        BY <3>4, <4>1, MappedConcat, Zenon
    <3>10. Append(s, m) = s \o one
      BY <2>3, <3>1, AppendIsConcat
    <3>11. Mapped(c, Append(s, m)) = cs \o ones
      BY <3>1, <3>5, <3>6, <3>9, <3>10, Zenon DEF MapsBoth
    <3>12. SumOf(cs \o ones) = SumOf(cs) + SumOf(ones)
      BY <3>7, <3>8, SumOfConcat
    <3>13. SumOf(cs) = f[n]
      BY <2>3, <3>1
    <3>14. k[m] = Append(s, m)
      BY <2>4, <2>6
    <3>15. SumOf(Mapped(c, k[m])) = SumOf(cs) + SumOf(ones)
      BY <3>11, <3>12, <3>14
    <3>16. f[m] = f[n] + x
      BY <2>5, <2>6, <3>1
    <3>17. SumOf(Mapped(c, k[m])) = f[m]
      BY <2>5, <3>2, <3>7, <3>13, <3>15, <3>16
    <3> QED
      BY <2>2, <3>17
  <2>7. CASE ~(w[m] > 0)
    <3>1. k[m] = s /\ f[m] = f[n]
      BY <2>4, <2>5, <2>7
    <3>2. SumOf(Mapped(c, k[m])) = f[m]
      BY <2>3, <3>1
    <3> QED
      BY <2>2, <3>2
  <2> QED
    BY <2>6, <2>7
<1>10. \A n \in 0 .. N : n \in T
  <2> HIDE DEF T, N
  <2> QED
    BY <1>1, <1>8, <1>9, Upto
<1>11. N \in 0 .. N
  BY <1>1
<1>12. Kept(config) = k[N]
  BY <1>2 DEF IsKept
<1> QED
  BY <1>4, <1>10, <1>11, <1>12 DEF SumOf

(* The positions kept depend on where the positive weights are only.       *)
LEMMA KeptSame ==
  ASSUME NEW config, NEW other, IsConfig(config), IsConfig(other),
         Len(config.pools) = Len(other.pools),
         \A i \in 1 .. Len(config.pools) : config.weights[i] > 0 <=> other.weights[i] > 0
  PROVE  Kept(config) = Kept(other)
<1> DEFINE N == Len(config.pools)
<1>1. N \in Nat
  BY LenProperties DEF IsConfig
<1>2. PICK k : IsKept(k, config)
  BY KeptIs
<1>3. PICK l : IsKept(l, other)
  BY KeptIs
<1> DEFINE T == {n \in Nat : k[n] = l[n]}
<1>4. 0 \in T
  BY <1>2, <1>3 DEF IsKept
<1>5. ASSUME NEW n \in Nat, 0 <= n, n < N, n \in T PROVE n + 1 \in T
  <2>1. n + 1 \in 1 .. N /\ (n + 1) - 1 = n
    BY <1>1, <1>5
  <2>2. k[n + 1] = IF config.weights[n + 1] > 0 THEN Append(k[n], n + 1) ELSE k[n]
    BY <1>2, <2>1 DEF IsKept
  <2>3. l[n + 1] = IF other.weights[n + 1] > 0 THEN Append(l[n], n + 1) ELSE l[n]
    BY <1>3, <2>1 DEF IsKept
  <2>4. k[n] = l[n] /\ (config.weights[n + 1] > 0 <=> other.weights[n + 1] > 0)
    BY <1>5, <2>1
  <2>5. k[n + 1] = l[n + 1]
    BY <2>2, <2>3, <2>4
  <2> QED
    BY <2>5
<1>6. \A n \in 0 .. N : n \in T
  <2> HIDE DEF T, N
  <2> QED
    BY <1>1, <1>4, <1>5, Upto
<1>7. N \in 0 .. N
  BY <1>1
<1> QED
  BY <1>2, <1>3, <1>6, <1>7 DEF IsKept

-----------------------------------------------------------------------------
(* What buildRREntry makes of a configuration *)

(* The places of pool p in the table, as a sequence of ones and zeros.     *)
Marks(entry, p) ==
  [i \in 1 .. Len(entry.table) |-> IF entry.targets[entry.table[i]] = p THEN 1 ELSE 0]

LEMMA MarksAre ==
  ASSUME NEW entry, NEW p, Len(entry.table) \in Nat
  PROVE  /\ Marks(entry, p) \in Seq(Nat) /\ Len(Marks(entry, p)) = Len(entry.table)
         /\ \A i \in 1 .. Len(entry.table) :
              /\ Marks(entry, p)[i] \in {0, 1}
              /\ Marks(entry, p)[i] = 1 <=> entry.targets[entry.table[i]] = p
<1>1. Marks(entry, p) \in [1 .. Len(entry.table) -> Nat]
  BY DEF Marks
<1>2. Marks(entry, p) \in Seq(Nat) /\ Len(Marks(entry, p)) = Len(entry.table)
  BY <1>1, FunctionIsSeq
<1> QED
  BY <1>2 DEF Marks

LEMMA ConfigIs ==
  ASSUME NEW config \in Config, Buildable(config)
  PROVE  IsConfig(config)
  BY RouterAssumption DEF Buildable, IsConfig

(* The weights a configuration asks for, and those it asks for a pool.     *)
Asked(config) == [i \in DOMAIN config.weights |-> Positive(config.weights[i])]
AskedFor(config, p) ==
  [i \in DOMAIN config.weights |->
     IF config.pools[i] = p THEN Positive(config.weights[i]) ELSE 0]

LEMMA WeightsAre ==
  ASSUME NEW config, IsConfig(config), NEW p
  PROVE  /\ Asked(config) \in Seq(Nat) /\ Len(Asked(config)) = Len(config.pools)
         /\ AskedFor(config, p) \in Seq(Nat) /\ Len(AskedFor(config, p)) = Len(config.pools)
<1>1. /\ Len(config.pools) \in Nat /\ DOMAIN config.weights = 1 .. Len(config.pools)
      /\ \A i \in 1 .. Len(config.pools) : config.weights[i] \in Int
  BY LenProperties, ElementOfSeq DEF IsConfig
<1>2. Asked(config) \in [1 .. Len(config.pools) -> Nat]
  BY <1>1 DEF Positive, Asked
<1>3. AskedFor(config, p) \in [1 .. Len(config.pools) -> Nat]
  BY <1>1 DEF Positive, AskedFor
<1> QED
  BY <1>1, <1>2, <1>3, FunctionIsSeq

(* The weights that are kept, before they are scaled.                      *)
KeptWeights(config) == Mapped(config.weights, Kept(config))

LEMMA KeptWeightsAre ==
  ASSUME NEW config \in Config, Buildable(config)
  PROVE  /\ Kept(config) \in Seq(1 .. Len(config.pools))
         /\ DOMAIN Kept(config) = 1 .. Len(Kept(config))
         /\ KeptWeights(config) \in Seq(Positives)
         /\ Len(KeptWeights(config)) = Len(Kept(config))
         /\ Len(Kept(config)) \in Positives
         /\ SumOf(KeptWeights(config)) = WeightSum(config)
         /\ WeightSum(config) \in Positives
<1> DEFINE N == Len(config.pools)
<1>1. IsConfig(config)
  BY ConfigIs
<1>2. /\ N \in Nat /\ DOMAIN config.weights = 1 .. N
      /\ \A i \in 1 .. N : config.weights[i] \in Int
  BY <1>1, LenProperties, ElementOfSeq DEF IsConfig
<1>3. PICK kept : kept = Kept(config)
  OBVIOUS
<1>4. kept \in Seq(1 .. N) /\ \A i \in 1 .. Len(kept) : config.weights[kept[i]] > 0
  BY <1>1, <1>3, KeptArePositive
<1>5. /\ Len(kept) \in Nat /\ DOMAIN kept = 1 .. Len(kept)
      /\ \A i \in 1 .. Len(kept) : kept[i] \in 1 .. N
  BY <1>4, LenProperties, ElementOfSeq
<1>6. PICK ws : ws = KeptWeights(config)
  OBVIOUS
<1>7. ws = [i \in 1 .. Len(kept) |-> config.weights[kept[i]]]
  BY <1>3, <1>5, <1>6 DEF KeptWeights, Mapped
<1>8. ws \in [1 .. Len(kept) -> Positives]
  BY <1>2, <1>4, <1>5, <1>7 DEF Positives
<1>9. ws \in Seq(Positives) /\ Len(ws) = Len(kept)
  BY <1>5, <1>8, FunctionIsSeq
<1>10. PICK v : v = Asked(config)
  OBVIOUS
<1>11. v \in Seq(Nat) /\ Len(v) = N /\ \A i \in 1 .. N : v[i] = Positive(config.weights[i])
  BY <1>1, <1>2, <1>10, WeightsAre DEF Asked
<1>12. v \in Seq(Int)
  <2>1. Nat \subseteq Int
    OBVIOUS
  <2> QED
    BY <1>11, <2>1, SeqMonotonic
<1>13. SumOf(ws) = SumOf(v)
  <2>1. \A i \in 1 .. N :
          /\ config.weights[i] \in Int
          /\ v[i] = IF config.weights[i] > 0 THEN config.weights[i] ELSE 0
    BY <1>2, <1>11 DEF Positive
  <2>2. SumOf(Mapped(config.weights, Kept(config))) = SumOf(v)
    BY <1>1, <1>11, <1>12, <2>1, KeptSum
  <2> QED
    BY <1>6, <2>2 DEF KeptWeights
<1>14. WeightSum(config) = SumOf(v)
  BY <1>10 DEF WeightSum, Asked
<1>15. SumOf(v) \in Positives
  <2>1. PICK i \in 1 .. N : config.weights[i] > 0
    BY <1>2 DEF Buildable
  <2>2. v[i] > 0 /\ v[i] \in Nat
    BY <1>2, <1>11, <2>1 DEF Positive
  <2>3. SumOf(v) \in Nat /\ v[i] <= SumOf(v)
    BY <1>11, SumsGrow
  <2> QED
    BY <2>2, <2>3 DEF Positives
<1>16. Len(kept) # 0
  <2> SUFFICES ASSUME Len(kept) = 0 PROVE FALSE
    OBVIOUS
  <2>1. Len(ws) = 0 /\ ws \in Seq(Positives)
    BY <1>9
  <2>2. ws = <<>>
    BY <2>1, EmptySeq
  <2>3. <<>> \in Seq(Int)
    BY EmptySeq
  <2>4. SumOf(ws) = 0
    BY <2>2, <2>3, SumIs
  <2> QED
    BY <1>13, <1>15, <2>4 DEF Positives
<1> QED
  BY <1>3, <1>4, <1>5, <1>6, <1>9, <1>13, <1>14, <1>15, <1>16 DEF Positives

(* The fields of an entry.                                                 *)
LEMMA BuildIs ==
  ASSUME NEW config \in Config, Buildable(config)
  PROVE  /\ Build(config).table = Table(Scaled(KeptWeights(config)))
         /\ Build(config).targets = Mapped(config.pools, Kept(config))
         /\ Build(config) = [targets |-> Mapped(config.pools, Kept(config)),
                             table   |-> Table(Scaled(KeptWeights(config)))]
  BY DEF Build, KeptWeights, Mapped

(* An entry's table has a place for each kept position, and only for       *)
(* those; the weights of the configuration are the numbers of places,      *)
(* times a factor that is the same for all pools.                          *)
IsEntry(entry, config) ==
  /\ Len(entry.table) \in Positives
  /\ \A i \in 1 .. Len(entry.table) :
       entry.table[i] \in DOMAIN entry.targets /\ entry.targets[entry.table[i]] \in Pool
  /\ DOMAIN entry.table = 1 .. Len(entry.table)
  /\ \E g \in Positives :
       /\ WeightSum(config) = g * Len(entry.table)
       /\ \A p \in Pool : WeightOf(config, p) = g * SumOf(Marks(entry, p))

LEMMA EntryIs ==
  ASSUME NEW config \in Config, Buildable(config)
  PROVE  IsEntry(Build(config), config)
<1> DEFINE N == Len(config.pools)
<1>1. IsConfig(config)
  BY ConfigIs
<1>2. /\ N \in Nat /\ DOMAIN config.weights = 1 .. N
      /\ (\A i \in 1 .. N : config.weights[i] \in Int)
      /\ \A i \in 1 .. N : config.pools[i] \in Pool
  <2>1. /\ N \in Nat /\ DOMAIN config.weights = 1 .. N /\ DOMAIN config.pools = 1 .. N
        /\ \A i \in 1 .. N : config.weights[i] \in Int
        /\ \A i \in 1 .. N : config.pools[i] \in Pool \cup {NoPool}
    BY <1>1, LenProperties, ElementOfSeq DEF IsConfig
  <2> QED
    BY <2>1 DEF Buildable
<1>3. PICK kept, ws, L, W :
        kept = Kept(config) /\ ws = KeptWeights(config) /\ L = Len(kept) /\ W = WeightSum(config)
  OBVIOUS
<1>4. /\ kept \in Seq(1 .. N) /\ DOMAIN kept = 1 .. L
      /\ ws \in Seq(Positives) /\ Len(ws) = L /\ L \in Positives
      /\ SumOf(ws) = W /\ W \in Positives
  BY <1>3, KeptWeightsAre
<1>5. \A i \in 1 .. L : kept[i] \in 1 .. N /\ ws[i] \in Positives /\ ws[i] = config.weights[kept[i]]
  <2>1. \A i \in 1 .. L : kept[i] \in 1 .. N /\ ws[i] \in Positives
    BY <1>3, <1>4, ElementOfSeq
  <2> QED
    BY <1>3, <1>4, <2>1 DEF KeptWeights, Mapped
<1>6. PICK g, v : g = GcdOf(ws) /\ v = Scaled(ws)
  OBVIOUS
<1>7. L # 0 /\ L \in Nat
  BY <1>4 DEF Positives
<1>8. /\ g \in Positives /\ v \in Seq(Positives) /\ Len(v) = L
      /\ \A i \in 1 .. L : ws[i] = g * v[i]
  BY <1>4, <1>6, <1>7, GcdOfDivides, ScaledIs
<1>9. v \in Seq(Nat) /\ v \in Seq(Int) /\ ws \in Seq(Int)
  <2>1. Positives \subseteq Nat /\ Positives \subseteq Int
    BY DEF Positives
  <2> QED
    BY <1>4, <1>8, <2>1, SeqMonotonic
<1>10. PICK table, n : table = Table(v) /\ n = Len(table)
  OBVIOUS
<1>11. table \in Seq(1 .. L) /\ n = SumOf(v)
  BY <1>8, <1>9, <1>10, TableLength
<1>12. DOMAIN table = 1 .. n /\ n \in Nat /\ \A i \in 1 .. n : table[i] \in 1 .. L
  BY <1>10, <1>11, LenProperties, ElementOfSeq
<1>13. W = g * n
  <2>1. \A i \in 1 .. L : 1 * ws[i] = g * v[i]
    <3>1. \A i \in 1 .. L : ws[i] \in Int
      BY <1>5 DEF Positives
    <3> QED
      BY <1>8, <3>1
  <2>2. g \in Int /\ 1 \in Int /\ Len(ws) = Len(v)
    BY <1>4, <1>8 DEF Positives
  <2>3. 1 * SumOf(ws) = g * SumOf(v)
    BY <1>4, <1>9, <2>1, <2>2, SumOfMultiples
  <2>4. SumOf(ws) \in Int
    BY <1>4 DEF Positives
  <2> QED
    BY <1>4, <1>11, <2>3, <2>4
<1>14. n \in Positives
  <2>1. n # 0
    BY <1>4, <1>8, <1>13 DEF Positives
  <2> QED
    BY <1>12, <2>1 DEF Positives
<1>15. PICK entry : entry = Build(config)
  OBVIOUS
<1>16. PICK targets : targets = Mapped(config.pools, kept)
  OBVIOUS
<1>17. targets = [i \in 1 .. L |-> config.pools[kept[i]]]
  BY <1>4, <1>16 DEF Mapped
<1>18. entry.table = table /\ entry.targets = targets
  BY <1>3, <1>6, <1>10, <1>15, <1>16, BuildIs
<1>19. \A i \in 1 .. n : table[i] \in DOMAIN targets /\ targets[table[i]] \in Pool
  BY <1>2, <1>5, <1>12, <1>17
<1>20. ASSUME NEW p \in Pool PROVE WeightOf(config, p) = g * SumOf(Marks(entry, p))
  <2>1. PICK c : c = [i \in 1 .. L |-> IF targets[i] = p THEN 1 ELSE 0]
    OBVIOUS
  <2>2. PICK y : y = [i \in 1 .. L |-> v[i] * c[i]]
    OBVIOUS
  <2>3. c \in [1 .. L -> Int] /\ \A i \in 1 .. L : c[i] = IF targets[i] = p THEN 1 ELSE 0
    BY <2>1
  <2>4. \A i \in 1 .. L : v[i] \in Int
    BY <1>8, <1>9, ElementOfSeq
  <2>5. y \in [1 .. L -> Int]
    BY <2>2, <2>3, <2>4
  <2>6. y \in Seq(Int) /\ Len(y) = L /\ \A i \in 1 .. L : y[i] = v[i] * c[i]
    BY <1>7, <2>2, <2>5, FunctionIsSeq
  <2>7. SumOf(Mapped(c, table)) = SumOf(y)
    <3>1. v \in Seq(Nat)
      BY <1>9
    <3>2. c \in [1 .. Len(v) -> Int]
      BY <1>8, <2>3
    <3>3. y \in Seq(Int) /\ Len(y) = Len(v)
      BY <1>8, <2>6
    <3>4. \A i \in 1 .. Len(v) : y[i] = v[i] * c[i]
      BY <1>8, <2>6
    <3>5. SumOf(Mapped(c, Table(v))) = SumOf(y)
      BY <3>1, <3>2, <3>3, <3>4, TableSum
    <3> QED
      BY <1>10, <3>5
  <2>8. Mapped(c, table) = Marks(entry, p)
    BY <1>10, <1>12, <1>18, <2>3 DEF Mapped, Marks
  <2>9. PICK cp : cp = [i \in 1 .. N |-> IF config.pools[i] = p THEN config.weights[i] ELSE 0]
    OBVIOUS
  <2>10. PICK vp : vp = AskedFor(config, p)
    OBVIOUS
  <2>11. vp \in Seq(Int) /\ Len(vp) = N
    <3>1. vp \in Seq(Nat) /\ Len(vp) = N
      BY <1>1, <2>10, WeightsAre
    <3>2. Nat \subseteq Int
      OBVIOUS
    <3> QED
      BY <3>1, <3>2, SeqMonotonic
  <2>12. \A i \in 1 .. N :
           cp[i] \in Int /\ vp[i] = IF config.weights[i] > 0 THEN cp[i] ELSE 0
    BY <1>2, <2>9, <2>10 DEF Positive, AskedFor
  <2>13. SumOf(Mapped(cp, kept)) = SumOf(vp)
    BY <1>1, <1>3, <2>11, <2>12, KeptSum
  <2>14. WeightOf(config, p) = SumOf(vp)
    BY <2>10 DEF WeightOf, AskedFor
  <2>15. PICK mp : mp = Mapped(cp, kept)
    OBVIOUS
  <2>16. \A i \in 1 .. N : cp[i] \in Int
    BY <2>12
  <2>17. mp \in Seq(Int) /\ Len(mp) = L /\ \A i \in 1 .. L : mp[i] = cp[kept[i]]
    <3>1. kept \in Seq(1 .. N)
      BY <1>4
    <3>2. IsMapped(Mapped(cp, kept), Int, cp, kept)
      BY <2>16, <3>1, MappedIs, Zenon
    <3> QED
      BY <1>3, <2>15, <3>2 DEF IsMapped
  <2>18. ASSUME NEW i \in 1 .. L PROVE 1 * mp[i] = g * y[i]
    <3>1. PICK a \in Int, b \in Int : a = v[i] /\ b = g
      BY <1>8, <2>4 DEF Positives
    <3>2. ws[i] = b * a /\ ws[i] \in Int
      BY <1>5, <1>8, <3>1 DEF Positives
    <3>3. mp[i] = IF targets[i] = p THEN b * a ELSE 0
      BY <1>5, <1>17, <2>9, <2>17, <3>2
    <3>4. y[i] = IF targets[i] = p THEN a ELSE 0
      BY <2>3, <2>6, <3>1
    <3>5. b * a \in Int /\ 1 * (b * a) = b * a /\ b * 0 = 0
      OBVIOUS
    <3> QED
      BY <3>1, <3>3, <3>4, <3>5
  <2>19. 1 * SumOf(mp) = g * SumOf(y)
    <3>1. g \in Int /\ 1 \in Int /\ Len(mp) = Len(y)
      BY <1>8, <2>6, <2>17 DEF Positives
    <3>2. \A i \in 1 .. Len(mp) : 1 * mp[i] = g * y[i]
      BY <2>17, <2>18
    <3> QED
      BY <2>6, <2>17, <3>1, <3>2, SumOfMultiples
  <2>20. SumOf(mp) \in Int
    BY <2>17, SumIs
  <2> QED
    BY <2>7, <2>8, <2>13, <2>14, <2>15, <2>19, <2>20
<1>21. IsEntry(entry, config)
  BY <1>3, <1>8, <1>10, <1>12, <1>13, <1>14, <1>18, <1>19, <1>20 DEF IsEntry
<1> QED
  BY <1>15, <1>21

(* Weights in the same ratio build the same entry.                         *)
LEMMA BuildSame ==
  ASSUME NEW config \in Config, NEW other \in Config, Buildable(config), Buildable(other),
         config.pools = other.pools,
         \A i \in DOMAIN config.pools :
           Positive(config.weights[i]) * WeightSum(other)
             = Positive(other.weights[i]) * WeightSum(config)
  PROVE  Build(config) = Build(other)
<1> DEFINE N == Len(config.pools)
<1>1. IsConfig(config) /\ IsConfig(other)
  BY ConfigIs
<1>2. /\ N \in Nat /\ DOMAIN config.pools = 1 .. N
      /\ (\A i \in 1 .. N : config.weights[i] \in Int)
      /\ \A i \in 1 .. N : other.weights[i] \in Int
  BY <1>1, LenProperties, ElementOfSeq DEF IsConfig
<1>3. PICK a, b : a = WeightSum(other) /\ b = WeightSum(config)
  OBVIOUS
<1>4. a \in Positives /\ b \in Positives
  BY <1>3, KeptWeightsAre
<1>5. ASSUME NEW i \in 1 .. N
      PROVE  /\ config.weights[i] > 0 <=> other.weights[i] > 0
             /\ config.weights[i] > 0 => a * config.weights[i] = b * other.weights[i]
  <2>1. PICK x \in Nat, y \in Nat, c \in Nat, d \in Nat :
          /\ x = Positive(config.weights[i]) /\ y = Positive(other.weights[i])
          /\ c = a /\ d = b /\ c > 0 /\ d > 0
    BY <1>2, <1>4 DEF Positive, Positives
  <2>2. x * c = y * d
    BY <1>2, <1>3, <2>1
  <2>3. x > 0 => y > 0
    <3> SUFFICES ASSUME x > 0, y = 0 PROVE FALSE
      OBVIOUS
    <3>1. c * x >= c /\ c * x = x * c /\ y * d = 0
      BY <2>1, MultipleIsNoLess
    <3> QED
      BY <2>1, <2>2, <3>1
  <2>4. y > 0 => x > 0
    <3> SUFFICES ASSUME y > 0, x = 0 PROVE FALSE
      OBVIOUS
    <3>1. d * y >= d /\ d * y = y * d /\ x * c = 0
      BY <2>1, MultipleIsNoLess
    <3> QED
      BY <2>1, <2>2, <3>1
  <2>5. c * x = d * y
    BY <2>2
  <2> QED
    BY <1>2, <2>1, <2>3, <2>4, <2>5 DEF Positive
<1>6. PICK kept : kept = Kept(config)
  OBVIOUS
<1>7. Kept(other) = kept
  BY <1>1, <1>5, <1>6, KeptSame
<1>8. PICK us, ws, L : us = KeptWeights(config) /\ ws = KeptWeights(other) /\ L = Len(kept)
  OBVIOUS
<1>9. /\ kept \in Seq(1 .. N) /\ DOMAIN kept = 1 .. L /\ L \in Positives
      /\ us \in Seq(Positives) /\ Len(us) = L /\ ws \in Seq(Positives) /\ Len(ws) = L
  BY <1>6, <1>7, <1>8, KeptWeightsAre
<1>10. ASSUME NEW i \in 1 .. L PROVE a * us[i] = b * ws[i]
  <2>1. kept[i] \in 1 .. N
    BY <1>8, <1>9, ElementOfSeq
  <2>2. us[i] = config.weights[kept[i]] /\ ws[i] = other.weights[kept[i]]
    BY <1>6, <1>7, <1>8, <1>9 DEF KeptWeights, Mapped
  <2>3. config.weights[kept[i]] > 0
    BY <1>1, <1>6, <1>8, KeptArePositive
  <2> QED
    BY <1>5, <2>1, <2>2, <2>3
<1>11. Scaled(us) = Scaled(ws)
  <2>1. Len(ws) # 0 /\ Len(us) = Len(ws)
    BY <1>9 DEF Positives
  <2> QED
    <3>1. us \in Seq(Positives) /\ ws \in Seq(Positives)
      BY <1>9
    <3>2. \A i \in 1 .. Len(ws) : a * us[i] = b * ws[i]
      BY <1>9, <1>10
    <3> QED
      BY <1>4, <2>1, <3>1, <3>2, ScaledSame
<1> QED
  BY <1>6, <1>7, <1>8, <1>11, BuildIs

-----------------------------------------------------------------------------
(* The messages an entry has sent to a pool after n of them                *)

Count(entry, p, n) ==
  (n \div Len(entry.table)) * SumOf(Marks(entry, p))
    + Sums(Marks(entry, p))[n % Len(entry.table)]

SlotOf(entry, n) == entry.targets[entry.table[1 + (n % Len(entry.table))]]

(* Message n is message r of round q.                                      *)
IsAt(entry, p, n, q, r) ==
  /\ Count(entry, p, n) = q * SumOf(Marks(entry, p)) + Sums(Marks(entry, p))[r]
  /\ SlotOf(entry, n) = entry.targets[entry.table[1 + r]]

LEMMA CountIs ==
  ASSUME NEW entry, NEW p, NEW L \in Nat \ {0}, L = Len(entry.table),
         NEW n \in Nat, NEW q \in Nat, NEW r \in Nat, r < L, n = L * q + r
  PROVE  IsAt(entry, p, n, q, r)
<1>1. n % L = r /\ n \div L = q
  BY QuotientIs
<1> QED
  BY <1>1 DEF Count, SlotOf, IsAt

(* With message n the count of its pool goes up by one, and no other.      *)
Moves(entry, p, n) ==
  /\ Count(entry, p, n) \in Nat
  /\ Count(entry, p, n + 1)
       = IF SlotOf(entry, n) = p THEN Count(entry, p, n) + 1 ELSE Count(entry, p, n)

LEMMA CountStep ==
  ASSUME NEW entry, NEW p, Len(entry.table) \in Positives, NEW n \in Nat
  PROVE  Moves(entry, p, n)
<1>1. PICK L \in Nat \ {0} : L = Len(entry.table)
  BY DEF Positives
<1>2. PICK q \in Nat, r \in Nat : r < L /\ n = L * q + r
  <2>1. PICK x, y \in Nat : x = n \div L /\ y = n % L /\ y < L /\ n = L * x + y
    BY Division, Zenon
  <2> QED
    BY <2>1, Zenon
<1>3. PICK m : m = Marks(entry, p)
  OBVIOUS
<1>4. /\ m \in Seq(Nat) /\ Len(m) = L
      /\ \A i \in 1 .. L : m[i] \in {0, 1} /\ (m[i] = 1 <=> entry.targets[entry.table[i]] = p)
  BY <1>1, <1>3, MarksAre
<1>5. PICK f, S : f = Sums(m) /\ S = SumOf(m)
  OBVIOUS
<1>6. \A i \in 0 .. L : f[i] \in Nat
  BY <1>4, <1>5, SumsGrow
<1>7. S \in Nat
  BY <1>4, <1>5, SumsGrow
<1>8. f[0] = 0 /\ S = f[L] /\ \A i \in 1 .. L : f[i] = f[i - 1] + m[i]
  <2>1. Nat \subseteq Int
    OBVIOUS
  <2>2. m \in Seq(Int)
    BY <1>4, <2>1, SeqMonotonic
  <2> QED
    BY <1>4, <1>5, <2>2, SumsAre DEF SumOf
<1>9. Count(entry, p, n) = q * S + f[r] /\ SlotOf(entry, n) = entry.targets[entry.table[1 + r]]
  <2>1. r < L
    BY <1>2
  <2>2. n = L * q + r
    BY <1>2
  <2>3. IsAt(entry, p, n, q, r)
    BY <1>1, <2>1, <2>2, CountIs, Zenon
  <2> QED
    BY <1>3, <1>5, <2>3 DEF IsAt
<1>10. r \in 0 .. L /\ r + 1 \in 1 .. L /\ (r + 1) - 1 = r /\ 1 + r = r + 1
  BY <1>1, <1>2
<1>11. f[r + 1] = f[r] + m[r + 1] /\ f[r] \in Nat
  BY <1>6, <1>8, <1>10
<1>12. Count(entry, p, n + 1) = q * S + f[r + 1]
  <2>1. CASE r + 1 < L
    <3>1. PICK j \in Nat, k \in Nat : j = n + 1 /\ k = r + 1
      OBVIOUS
    <3>2. j = L * q + k
      BY <1>2, <3>1
    <3>3. k < L
      BY <2>1, <3>1
    <3>4. IsAt(entry, p, j, q, k)
      BY <1>1, <3>2, <3>3, CountIs, Zenon
    <3> QED
      BY <1>3, <1>5, <3>1, <3>4 DEF IsAt
  <2>2. CASE ~(r + 1 < L)
    <3>1. r + 1 = L
      BY <1>1, <1>2, <2>2
    <3>2. PICK j \in Nat, k \in Nat, z \in Nat : j = n + 1 /\ k = q + 1 /\ z = 0
      OBVIOUS
    <3>3. j = L * k + z
      <4>1. L * (q + 1) = L * q + L
        OBVIOUS
      <4>2. n + 1 = L * q + L
        BY <1>2, <3>1
      <4>3. L * k = n + 1 /\ n + 1 \in Nat
        BY <3>2, <4>1, <4>2
      <4> QED
        BY <3>2, <4>3
    <3>4. z < L
      BY <3>2
    <3>5. Count(entry, p, n + 1) = k * S + 0
      <4>1. IsAt(entry, p, j, k, z)
        BY <1>1, <3>3, <3>4, CountIs, Zenon
      <4> QED
        BY <1>3, <1>5, <1>8, <3>2, <4>1 DEF IsAt
    <3>6. (q + 1) * S + 0 = q * S + S
      BY <1>7
    <3> QED
      BY <1>8, <3>1, <3>2, <3>5, <3>6
  <2> QED
    BY <2>1, <2>2
<1>13. q * S \in Nat
  BY <1>7
<1>14. m[r + 1] = IF SlotOf(entry, n) = p THEN 1 ELSE 0
  BY <1>4, <1>9, <1>10
<1>15. Count(entry, p, n + 1) = Count(entry, p, n) + m[r + 1]
  <2>1. PICK qs \in Nat : qs = q * S
    BY <1>13
  <2>2. m[r + 1] \in Nat
    BY <1>14
  <2> QED
    BY <1>9, <1>11, <1>12, <2>1, <2>2
<1>16. Count(entry, p, n) \in Nat
  BY <1>9, <1>11, <1>13
<1> QED
  BY <1>14, <1>15, <1>16 DEF Moves

LEMMA CountZero ==
  ASSUME NEW entry, NEW p, Len(entry.table) \in Positives
  PROVE  Count(entry, p, 0) = 0
<1>1. PICK L \in Nat \ {0} : L = Len(entry.table)
  BY DEF Positives
<1>2. PICK z \in Nat : z = 0 /\ z = L * z + z /\ z < L
  OBVIOUS
<1>3. Count(entry, p, 0) = 0 * SumOf(Marks(entry, p)) + Sums(Marks(entry, p))[0]
  <2>1. z < L
    BY <1>2
  <2>2. z = L * z + z
    BY <1>2
  <2>3. IsAt(entry, p, z, z, z)
    BY <1>1, <2>1, <2>2, CountIs, Zenon
  <2> QED
    BY <1>2, <2>3 DEF IsAt
<1>4. Marks(entry, p) \in Seq(Nat)
  BY <1>1, MarksAre
<1>5. SumOf(Marks(entry, p)) \in Nat
  BY <1>4, SumsGrow
<1>6. Sums(Marks(entry, p))[0] = 0
  <2>1. Nat \subseteq Int
    OBVIOUS
  <2>2. Marks(entry, p) \in Seq(Int)
    BY <1>4, <2>1, SeqMonotonic
  <2> QED
    BY <2>2, SumsAre
<1> QED
  BY <1>3, <1>5, <1>6

(* After q rounds and r messages more a pool has had q times its places,   *)
(* and at most r messages more.                                            *)
InRounds(entry, p, n) ==
  \E q, r, S, extra \in Nat :
    /\ n = Len(entry.table) * q + r /\ r < Len(entry.table)
    /\ n % Len(entry.table) = r
    /\ S = SumOf(Marks(entry, p)) /\ S <= Len(entry.table)
    /\ Count(entry, p, n) = q * S + extra /\ extra <= r /\ extra <= S

LEMMA CountBounds ==
  ASSUME NEW entry, NEW p, Len(entry.table) \in Positives, NEW n \in Nat
  PROVE  InRounds(entry, p, n)
<1>1. PICK L \in Nat \ {0} : L = Len(entry.table)
  BY DEF Positives
<1>2. PICK q, r \in Nat : q = n \div L /\ r = n % L /\ r < L /\ n = L * q + r
  BY Division, Zenon
<1>3. PICK m : m = Marks(entry, p)
  OBVIOUS
<1>4. m \in Seq(Nat) /\ Len(m) = L /\ \A i \in 1 .. L : m[i] \in {0, 1}
  BY <1>1, <1>3, MarksAre
<1>5. PICK f, S : f = Sums(m) /\ S = SumOf(m)
  OBVIOUS
<1>6. S \in Nat /\ \A i \in 0 .. L : f[i] \in Nat /\ f[i] <= S
  BY <1>4, <1>5, SumsGrow
<1>7. f[0] = 0 /\ S = f[L] /\ \A i \in 1 .. L : f[i] = f[i - 1] + m[i]
  <2>1. Nat \subseteq Int
    OBVIOUS
  <2>2. m \in Seq(Int)
    BY <1>4, <2>1, SeqMonotonic
  <2> QED
    BY <1>4, <1>5, <2>2, SumsAre DEF SumOf
<1> DEFINE T == {i \in Nat : f[i] <= i}
<1>8. \A i \in 0 .. L : i \in T
  <2>1. 0 \in T
    BY <1>7
  <2>2. ASSUME NEW i \in Nat, 0 <= i, i < L, i \in T PROVE i + 1 \in T
    <3>1. i + 1 \in 1 .. L /\ (i + 1) - 1 = i /\ i \in 0 .. L
      BY <2>2
    <3>2. f[i + 1] = f[i] + m[i + 1] /\ m[i + 1] \in {0, 1} /\ f[i] \in Nat /\ f[i] <= i
      BY <1>4, <1>6, <1>7, <2>2, <3>1
    <3> QED
      BY <3>2
  <2> HIDE DEF T
  <2> QED
    BY <2>1, <2>2, Upto
<1>9. r \in 0 .. L /\ L \in 0 .. L
  BY <1>2
<1>10. f[r] \in Nat /\ f[r] <= r /\ f[r] <= S /\ S <= L
  BY <1>6, <1>7, <1>8, <1>9
<1>11. Count(entry, p, n) = q * S + f[r]
  <2>1. r < L
    BY <1>2
  <2>2. n = L * q + r
    BY <1>2
  <2>3. IsAt(entry, p, n, q, r)
    BY <1>1, <2>1, <2>2, CountIs, Zenon
  <2> QED
    BY <1>3, <1>5, <2>3 DEF IsAt
<1>12. PICK extra \in Nat : extra = f[r]
  BY <1>10
<1> QED
  BY <1>1, <1>2, <1>3, <1>5, <1>6, <1>10, <1>11, <1>12 DEF InRounds

(* A pool with a place in the table has a positive weight.                 *)
LEMMA PlacedAreWeighted ==
  ASSUME NEW entry, NEW config, IsEntry(entry, config), NEW p \in Pool,
         SumOf(Marks(entry, p)) # 0
  PROVE  WeightOf(config, p) > 0
<1>1. PICK g \in Positives : WeightOf(config, p) = g * SumOf(Marks(entry, p))
  BY DEF IsEntry
<1>2. Len(entry.table) \in Nat
  BY DEF IsEntry, Positives
<1>3. Marks(entry, p) \in Seq(Nat)
  BY <1>2, MarksAre
<1>4. PICK S \in Nat : S = SumOf(Marks(entry, p)) /\ S >= 1
  BY <1>3, SumsGrow
<1>5. g * S >= g
  BY <1>4, MultipleIsNoLess DEF Positives
<1> QED
  BY <1>1, <1>4, <1>5 DEF Positives

LEMMA SlotIsPlaced ==
  ASSUME NEW entry, NEW config, IsEntry(entry, config), NEW n \in Nat
  PROVE  SlotOf(entry, n) \in Pool /\ SumOf(Marks(entry, SlotOf(entry, n))) # 0
<1>1. PICK L \in Nat \ {0} : L = Len(entry.table)
  BY DEF IsEntry, Positives
<1>2. PICK q, r \in Nat : q = n \div L /\ r = n % L /\ r < L /\ n = L * q + r
  BY Division, Zenon
<1>3. PICK p : p = SlotOf(entry, n)
  OBVIOUS
<1>4. 1 + r \in 1 .. L /\ p = entry.targets[entry.table[1 + r]]
  <2>1. r < L
    BY <1>2
  <2>2. n = L * q + r
    BY <1>2
  <2>3. IsAt(entry, p, n, q, r)
    BY <1>1, <2>1, <2>2, CountIs, Zenon
  <2> QED
    BY <1>3, <2>1, <2>3 DEF IsAt
<1>5. p \in Pool
  BY <1>1, <1>4 DEF IsEntry
<1>6. PICK m : m = Marks(entry, p)
  OBVIOUS
<1>7. m \in Seq(Nat) /\ Len(m) = L /\ m[1 + r] = 1
  BY <1>1, <1>4, <1>6, MarksAre
<1>8. SumOf(m) \in Nat /\ m[1 + r] <= SumOf(m)
  BY <1>4, <1>7, SumsGrow
<1> QED
  BY <1>3, <1>5, <1>6, <1>7, <1>8

-----------------------------------------------------------------------------
(* The inductive invariant *)

Entry == {Build(config) : config \in {any \in Config : Buildable(any)}}

Shapes ==
  /\ entries \in Seq(Entry) /\ Len(entries) <= MaxEntries
  /\ configs \in Seq(Config) /\ Len(configs) = Len(entries)
  /\ cursor \in Seq(Nat) /\ Len(cursor) = Len(entries)
  /\ picked \in Seq([Pool -> Nat]) /\ Len(picked) = Len(entries)
  /\ sticky \in Seq([Key -> Pool \cup {NoPool}]) /\ Len(sticky) = Len(entries)
  /\ route \in 0 .. Len(entries)
  /\ call \in [Caller -> [entry : 0 .. Len(entries), key : Keys]]
  /\ \A c \in Caller : call[c] # Idle => call[c].entry # 0

(* An entry is what its configuration makes it, for ever.                  *)
BuiltOnce ==
  \A e \in 1 .. Len(entries) : Buildable(configs[e]) /\ entries[e] = Build(configs[e])

(* The pool a key has been given is that of its hash.                      *)
Hashed ==
  \A e \in 1 .. Len(entries) : \A k \in Key :
    sticky[e][k] # NoPool => sticky[e][k] = SlotOf(entries[e], Hash[k])

(* What an entry has sent to a pool is what the cursor has passed.         *)
Counted ==
  \A e \in 1 .. Len(entries) : \A p \in Pool : picked[e][p] = Count(entries[e], p, cursor[e])

IInv == Shapes /\ BuiltOnce /\ Hashed /\ Counted

LEMMA ShapesAre ==
  ASSUME Shapes
  PROVE  /\ Len(entries) \in Nat
         /\ DOMAIN entries = 1 .. Len(entries) /\ DOMAIN configs = 1 .. Len(entries)
         /\ DOMAIN cursor = 1 .. Len(entries) /\ DOMAIN sticky = 1 .. Len(entries)
         /\ \A e \in 1 .. Len(entries) :
              /\ configs[e] \in Config /\ cursor[e] \in Nat
              /\ picked[e] \in [Pool -> Nat] /\ sticky[e] \in [Key -> Pool \cup {NoPool}]
  BY LenProperties, ElementOfSeq DEF Shapes

LEMMA EntriesAre ==
  ASSUME Shapes, BuiltOnce
  PROVE  \A e \in 1 .. Len(entries) : IsEntry(entries[e], configs[e])
  BY ShapesAre, EntryIs DEF BuiltOnce

LEMMA InitInv == Init => IInv
<1> SUFFICES ASSUME Init PROVE IInv
  OBVIOUS
<1>1. PICK none : none = <<>>
  OBVIOUS
<1>2. /\ none \in Seq(Entry) /\ none \in Seq(Config) /\ none \in Seq(Nat)
      /\ none \in Seq([Pool -> Nat]) /\ none \in Seq([Key -> Pool \cup {NoPool}])
      /\ Len(none) = 0
  BY <1>1, EmptySeq
<1>3. entries = none /\ cursor = none /\ configs = none /\ picked = none /\ sticky = none
  BY <1>1 DEF Init
<1>4. /\ route \in 0 .. 0
      /\ call \in [Caller -> [entry : 0 .. 0, key : Keys]]
      /\ \A c \in Caller : call[c] = Idle
  BY DEF Init, Idle, Keys
<1>5. 0 <= MaxEntries
  BY RouterAssumption
<1>6. Shapes
  BY <1>2, <1>3, <1>4, <1>5 DEF Shapes
<1>7. 1 .. Len(entries) = {}
  BY <1>2, <1>3
<1> QED
  BY <1>6, <1>7 DEF IInv, BuiltOnce, Hashed, Counted

LEMMA Appended ==
  ASSUME NEW S, NEW seq \in Seq(S), NEW x \in S, NEW new, new = Append(seq, x)
  PROVE  /\ new \in Seq(S) /\ Len(new) = Len(seq) + 1
         /\ (\A i \in 1 .. Len(seq) : new[i] = seq[i]) /\ new[Len(seq) + 1] = x
  BY AppendProperties

(* A new entry is what was asked for, and the old ones stay as they are.   *)
LEMMA PublishKeeps ==
  ASSUME IInv, NEW config \in Config, Publish(config)
  PROVE  /\ IInv'
         /\ \A e \in 1 .. Len(entries) : sticky'[e] = sticky[e]
<1> USE DEF IInv
<1>1. PICK n \in Nat : n = Len(entries)
  BY ShapesAre
<1>2. /\ Buildable(config) /\ n < MaxEntries
      /\ entries' = Append(entries, Build(config)) /\ configs' = Append(configs, config)
      /\ cursor' = Append(cursor, 0)
      /\ picked' = Append(picked, [p \in Pool |-> 0])
      /\ sticky' = Append(sticky, [k \in Key |-> NoPool])
      /\ route' = n + 1 /\ call' = call
  BY <1>1 DEF Publish
<1>3. /\ entries' \in Seq(Entry) /\ Len(entries') = n + 1
      /\ (\A e \in 1 .. n : entries'[e] = entries[e]) /\ entries'[n + 1] = Build(config)
  <2>1. Build(config) \in Entry
    BY <1>2 DEF Entry
  <2>2. entries \in Seq(Entry)
    BY DEF Shapes
  <2> QED
    BY <1>1, <1>2, <2>1, <2>2, Appended
<1>4. /\ configs' \in Seq(Config) /\ Len(configs') = n + 1
      /\ (\A e \in 1 .. n : configs'[e] = configs[e]) /\ configs'[n + 1] = config
  <2>1. configs \in Seq(Config) /\ Len(configs) = n
    BY <1>1 DEF Shapes
  <2> QED
    BY <1>2, <2>1, Appended
<1>5. /\ cursor' \in Seq(Nat) /\ Len(cursor') = n + 1
      /\ (\A e \in 1 .. n : cursor'[e] = cursor[e]) /\ cursor'[n + 1] = 0
  <2>1. cursor \in Seq(Nat) /\ Len(cursor) = n
    BY <1>1 DEF Shapes
  <2>2. PICK zero \in Nat : zero = 0
    OBVIOUS
  <2>3. cursor' = Append(cursor, zero)
    BY <1>2, <2>2
  <2>4. /\ cursor' \in Seq(Nat) /\ Len(cursor') = n + 1
        /\ (\A e \in 1 .. n : cursor'[e] = cursor[e]) /\ cursor'[n + 1] = zero
    BY <2>1, <2>3, Appended
  <2> QED
    BY <2>2, <2>4
<1>6. /\ picked' \in Seq([Pool -> Nat]) /\ Len(picked') = n + 1
      /\ (\A e \in 1 .. n : picked'[e] = picked[e])
      /\ \A p \in Pool : picked'[n + 1][p] = 0
  <2>1. picked \in Seq([Pool -> Nat]) /\ Len(picked) = n
    BY <1>1 DEF Shapes
  <2>2. PICK zero : zero = [p \in Pool |-> 0]
    OBVIOUS
  <2>3. zero \in [Pool -> Nat] /\ \A p \in Pool : zero[p] = 0
    BY <2>2
  <2>4. picked' = Append(picked, zero)
    BY <1>2, <2>2
  <2>5. /\ picked' \in Seq([Pool -> Nat]) /\ Len(picked') = n + 1
        /\ (\A e \in 1 .. n : picked'[e] = picked[e]) /\ picked'[n + 1] = zero
    BY <2>1, <2>3, <2>4, Appended
  <2> QED
    BY <2>3, <2>5
<1>7. /\ sticky' \in Seq([Key -> Pool \cup {NoPool}]) /\ Len(sticky') = n + 1
      /\ (\A e \in 1 .. n : sticky'[e] = sticky[e])
      /\ \A k \in Key : sticky'[n + 1][k] = NoPool
  <2>1. sticky \in Seq([Key -> Pool \cup {NoPool}]) /\ Len(sticky) = n
    BY <1>1 DEF Shapes
  <2>2. PICK none : none = [k \in Key |-> NoPool]
    OBVIOUS
  <2>3. none \in [Key -> Pool \cup {NoPool}] /\ \A k \in Key : none[k] = NoPool
    BY <2>2
  <2>4. sticky' = Append(sticky, none)
    BY <1>2, <2>2
  <2>5. /\ sticky' \in Seq([Key -> Pool \cup {NoPool}]) /\ Len(sticky') = n + 1
        /\ (\A e \in 1 .. n : sticky'[e] = sticky[e]) /\ sticky'[n + 1] = none
    BY <2>1, <2>3, <2>4, Appended
  <2> QED
    BY <2>3, <2>5
<1>8. Shapes'
  <2>1. n + 1 <= MaxEntries /\ n + 1 \in 0 .. n + 1
    BY <1>2, RouterAssumption
  <2>2. call' \in [Caller -> [entry : 0 .. n + 1, key : Keys]]
    <3>1. 0 .. n \subseteq 0 .. n + 1
      OBVIOUS
    <3> QED
      BY <1>1, <1>2, <3>1 DEF Shapes
  <2>3. \A c \in Caller : call'[c] # Idle => call'[c].entry # 0
    BY <1>2 DEF Shapes
  <2> QED
    BY <1>2, <1>3, <1>4, <1>5, <1>6, <1>7, <2>1, <2>2, <2>3 DEF Shapes
<1>9. \A e \in 1 .. n + 1 : e = n + 1 \/ e \in 1 .. n
  OBVIOUS
<1>10. BuiltOnce'
  <2>1. \A e \in 1 .. n + 1 : Buildable(configs'[e]) /\ entries'[e] = Build(configs'[e])
    BY <1>1, <1>2, <1>3, <1>4, <1>9 DEF BuiltOnce
  <2> QED
    BY <1>3, <2>1 DEF BuiltOnce
<1>11. Hashed'
  <2>1. \A e \in 1 .. n + 1 : \A k \in Key :
          sticky'[e][k] # NoPool => sticky'[e][k] = SlotOf(entries'[e], Hash[k])
    <3> SUFFICES ASSUME NEW e \in 1 .. n + 1, NEW k \in Key, sticky'[e][k] # NoPool
                 PROVE  sticky'[e][k] = SlotOf(entries'[e], Hash[k])
      OBVIOUS
    <3>1. CASE e = n + 1
      BY <1>7, <3>1
    <3>2. CASE e \in 1 .. n
      <4>1. sticky'[e] = sticky[e] /\ entries'[e] = entries[e]
        BY <1>3, <1>7, <3>2
      <4>2. sticky[e][k] # NoPool => sticky[e][k] = SlotOf(entries[e], Hash[k])
        BY <1>1, <3>2 DEF Hashed
      <4> QED
        BY <4>1, <4>2, Zenon
    <3> QED
      BY <1>9, <3>1, <3>2
  <2>2. Len(entries') = n + 1
    BY <1>3
  <2> QED
    BY <2>1, <2>2, Zenon DEF Hashed, SlotOf
<1>12. Counted'
  <2>1. IsEntry(Build(config), config)
    BY <1>2, EntryIs
  <2>2. \A p \in Pool : Count(Build(config), p, 0) = 0
    BY <2>1, CountZero DEF IsEntry
  <2>3. \A e \in 1 .. n + 1 : \A p \in Pool :
          picked'[e][p] = Count(entries'[e], p, cursor'[e])
    <3> SUFFICES ASSUME NEW e \in 1 .. n + 1, NEW p \in Pool
                 PROVE  picked'[e][p] = Count(entries'[e], p, cursor'[e])
      OBVIOUS
    <3>1. CASE e = n + 1
      <4>1. picked'[e][p] = 0 /\ entries'[e] = Build(config) /\ cursor'[e] = 0
        BY <1>3, <1>5, <1>6, <3>1
      <4> QED
        BY <2>2, <4>1, Zenon
    <3>2. CASE e \in 1 .. n
      <4>1. picked'[e] = picked[e] /\ entries'[e] = entries[e] /\ cursor'[e] = cursor[e]
        BY <1>3, <1>5, <1>6, <3>2
      <4>2. picked[e][p] = Count(entries[e], p, cursor[e])
        BY <1>1, <3>2 DEF Counted
      <4> QED
        BY <4>1, <4>2, Zenon
    <3> QED
      BY <1>9, <3>1, <3>2
  <2> QED
    BY <1>3, <2>3 DEF Counted, Count, Sums, SumOf, Marks
<1>13. IInv'
  BY <1>8, <1>10, <1>11, <1>12
<1>14. \A e \in 1 .. n : sticky'[e] = sticky[e]
  BY <1>7
<1> QED
  BY <1>1, <1>13, <1>14, Zenon

LEMMA RouteReadKeeps ==
  ASSUME IInv, NEW c \in Caller, NEW k \in Keys, RouteRead(c, k)
  PROVE  IInv'
<1> USE DEF IInv
<1>1. /\ route # 0 /\ call' = [call EXCEPT ![c] = [entry |-> route, key |-> k]]
      /\ UNCHANGED <<entries, configs, route, cursor, picked, sticky>>
  BY DEF RouteRead, entryVars, pickVars
<1>2. /\ route \in 0 .. Len(entries) /\ call \in [Caller -> [entry : 0 .. Len(entries), key : Keys]]
      /\ \A d \in Caller : call[d] # Idle => call[d].entry # 0
  BY DEF Shapes
<1>3. call' \in [Caller -> [entry : 0 .. Len(entries), key : Keys]]
      /\ \A d \in Caller : call'[d] # Idle => call'[d].entry # 0
  BY <1>1, <1>2
<1>4. Shapes'
  BY <1>1, <1>3 DEF Shapes
<1>5. BuiltOnce' /\ Hashed' /\ Counted'
  BY <1>1 DEF BuiltOnce, Hashed, Counted
<1> QED
  BY <1>4, <1>5

(* A caller that has read an entry holds one of those that were built.     *)
LEMMA CallIs ==
  ASSUME IInv, NEW c \in Caller, call[c] # Idle
  PROVE  call[c].entry \in 1 .. Len(entries) /\ call[c].key \in Keys
<1>1. /\ call[c] \in [entry : 0 .. Len(entries), key : Keys] /\ call[c].entry # 0
  BY DEF IInv, Shapes
<1>2. Len(entries) \in Nat
  BY ShapesAre DEF IInv
<1> QED
  BY <1>1, <1>2

LEMMA ReturnIs ==
  ASSUME IInv, NEW c \in Caller, Return(c)
  PROVE  /\ call' \in [Caller -> [entry : 0 .. Len(entries), key : Keys]]
         /\ \A d \in Caller : call'[d] # Idle => call'[d].entry # 0
<1>1. /\ call \in [Caller -> [entry : 0 .. Len(entries), key : Keys]]
      /\ \A d \in Caller : call[d] # Idle => call[d].entry # 0
  BY DEF IInv, Shapes
<1>2. Idle \in [entry : 0 .. Len(entries), key : Keys]
  <2>1. 0 \in 0 .. Len(entries)
    BY ShapesAre DEF IInv
  <2> QED
    BY <2>1 DEF Idle, Keys
<1> QED
  BY <1>1, <1>2 DEF Return

(* A keyed message goes where the messages of its key have gone.           *)
LEMMA RouteKeyedKeeps ==
  ASSUME IInv, NEW c \in Caller, RouteKeyed(c)
  PROVE  /\ IInv'
         /\ \A e \in 1 .. Len(entries) : \A k \in Key :
              sticky[e][k] # NoPool => sticky'[e][k] = sticky[e][k]
<1> USE DEF IInv
<1>1. PICK e, k, p : e = call[c].entry /\ k = call[c].key /\ p = SlotOf(entries[e], Hash[k])
  OBVIOUS
<1>2. call[c] # Idle /\ k # NoKey
  BY <1>1 DEF RouteKeyed, Keyed
<1>3. e \in 1 .. Len(entries) /\ k \in Key
  <2>1. call[c].entry \in 1 .. Len(entries) /\ call[c].key \in Keys
    BY <1>2, CallIs
  <2> QED
    BY <1>1, <1>2, <2>1 DEF Keys
<1>4. sticky' = [sticky EXCEPT ![e][k] = p]
  BY <1>1 DEF RouteKeyed, Slot, SlotOf
<1>5. UNCHANGED <<entries, configs, route, cursor, picked>> /\ Return(c)
  BY DEF RouteKeyed, entryVars
<1>6. Hash[k] \in Nat
  BY <1>3, RouterAssumption
<1>7. p \in Pool
  <2>1. IsEntry(entries[e], configs[e])
    BY <1>3, EntriesAre
  <2>2. SlotOf(entries[e], Hash[k]) \in Pool
    BY <1>6, <2>1, SlotIsPlaced, Zenon
  <2> QED
    BY <1>1, <2>2
<1>8. PICK row : row = [sticky[e] EXCEPT ![k] = p]
  OBVIOUS
<1>9. sticky[e] \in [Key -> Pool \cup {NoPool}]
  BY <1>3, ShapesAre
<1>10. /\ row \in [Key -> Pool \cup {NoPool}]
       /\ row[k] = p /\ \A l \in Key : l # k => row[l] = sticky[e][l]
  BY <1>3, <1>7, <1>8, <1>9
<1>11. /\ sticky \in Seq([Key -> Pool \cup {NoPool}]) /\ Len(sticky) = Len(entries)
       /\ sticky' = [sticky EXCEPT ![e] = row]
  BY <1>4, <1>8 DEF Shapes
<1>12. /\ sticky' \in Seq([Key -> Pool \cup {NoPool}]) /\ Len(sticky') = Len(entries)
       /\ sticky'[e] = row /\ \A f \in 1 .. Len(entries) : f # e => sticky'[f] = sticky[f]
  BY <1>3, <1>10, <1>11, ExceptSeq
<1>13. Shapes'
  <2>1. /\ call' \in [Caller -> [entry : 0 .. Len(entries), key : Keys]]
        /\ \A d \in Caller : call'[d] # Idle => call'[d].entry # 0
    BY <1>5, ReturnIs
  <2> QED
    BY <1>5, <1>12, <2>1 DEF Shapes
<1>14. BuiltOnce' /\ Counted'
  BY <1>5 DEF BuiltOnce, Counted
<1>15. ASSUME NEW f \in 1 .. Len(entries), NEW l \in Key
       PROVE  /\ sticky'[f][l] # NoPool => sticky'[f][l] = SlotOf(entries[f], Hash[l])
              /\ sticky[f][l] # NoPool => sticky'[f][l] = sticky[f][l]
  <2>1. sticky[f][l] # NoPool => sticky[f][l] = SlotOf(entries[f], Hash[l])
    BY DEF Hashed
  <2>2. CASE f = e /\ l = k
    BY <1>1, <1>10, <1>12, <2>1, <2>2
  <2>3. CASE ~(f = e /\ l = k)
    BY <1>10, <1>12, <2>1, <2>3
  <2> QED
    BY <2>2, <2>3
<1>16. Hashed'
  BY <1>5, <1>15 DEF Hashed
<1> QED
  BY <1>13, <1>14, <1>15, <1>16

(* A keyless message goes where the cursor points, and moves it on.        *)
LEMMA RouteKeylessKeeps ==
  ASSUME IInv, NEW c \in Caller, RouteKeyless(c)
  PROVE  IInv'
<1> USE DEF IInv
<1>1. PICK e : e = call[c].entry
  OBVIOUS
<1>2. e \in 1 .. Len(entries)
  BY <1>1, CallIs DEF RouteKeyless, Keyless
<1>3. cursor[e] \in Nat /\ picked[e] \in [Pool -> Nat]
  BY <1>2, ShapesAre
<1>4. PICK n \in Nat : n = cursor[e]
  BY <1>3
<1>5. PICK p : p = SlotOf(entries[e], n)
  OBVIOUS
<1>6. p \in Pool
  <2>1. IsEntry(entries[e], configs[e])
    BY <1>2, EntriesAre
  <2> QED
    BY <1>5, <2>1, SlotIsPlaced, Zenon
<1>7. /\ cursor' = [cursor EXCEPT ![e] = n + 1]
      /\ picked' = [picked EXCEPT ![e][p] = @ + 1]
      /\ UNCHANGED <<entries, configs, route, sticky>> /\ Return(c)
  BY <1>1, <1>4, <1>5 DEF RouteKeyless, Slot, SlotOf, entryVars
<1>8. PICK row : row = [picked[e] EXCEPT ![p] = picked[e][p] + 1]
  OBVIOUS
<1>9. row \in [Pool -> Nat]
      /\ row[p] = picked[e][p] + 1 /\ \A q \in Pool : q # p => row[q] = picked[e][q]
  BY <1>3, <1>6, <1>8
<1>10. /\ picked \in Seq([Pool -> Nat]) /\ Len(picked) = Len(entries)
       /\ picked' = [picked EXCEPT ![e] = row]
  BY <1>7, <1>8 DEF Shapes
<1>11. /\ picked' \in Seq([Pool -> Nat]) /\ Len(picked') = Len(entries)
       /\ picked'[e] = row /\ \A f \in 1 .. Len(entries) : f # e => picked'[f] = picked[f]
  BY <1>2, <1>9, <1>10, ExceptSeq
<1>12. /\ cursor' \in Seq(Nat) /\ Len(cursor') = Len(entries)
       /\ cursor'[e] = n + 1 /\ \A f \in 1 .. Len(entries) : f # e => cursor'[f] = cursor[f]
  <2>1. cursor \in Seq(Nat) /\ Len(cursor) = Len(entries) /\ n + 1 \in Nat
    BY DEF Shapes
  <2> QED
    BY <1>2, <1>7, <2>1, ExceptSeq
<1>13. Shapes'
  <2>1. /\ call' \in [Caller -> [entry : 0 .. Len(entries), key : Keys]]
        /\ \A d \in Caller : call'[d] # Idle => call'[d].entry # 0
    BY <1>7, ReturnIs
  <2> QED
    BY <1>7, <1>11, <1>12, <2>1 DEF Shapes
<1>14. BuiltOnce' /\ Hashed'
  BY <1>7 DEF BuiltOnce, Hashed
<1>15. ASSUME NEW f \in 1 .. Len(entries), NEW q \in Pool
       PROVE  picked'[f][q] = Count(entries[f], q, cursor'[f])
  <2>1. picked[f][q] = Count(entries[f], q, cursor[f])
    BY DEF Counted
  <2>2. CASE f = e
    <3>1. Len(entries[e].table) \in Positives
      BY <1>2, EntriesAre DEF IsEntry
    <3>2. Moves(entries[e], q, n)
      BY <3>1, CountStep, Zenon
    <3>3. Count(entries[e], q, n + 1)
            = IF p = q THEN Count(entries[e], q, n) + 1 ELSE Count(entries[e], q, n)
      BY <1>5, <3>2 DEF Moves
    <3>4. picked[e][q] = Count(entries[e], q, n) /\ picked'[f] = row /\ cursor'[f] = n + 1
      BY <1>4, <1>11, <1>12, <2>1, <2>2
    <3> QED
      BY <1>9, <2>2, <3>3, <3>4
  <2>3. CASE f # e
    BY <1>11, <1>12, <2>1, <2>3
  <2> QED
    BY <2>2, <2>3
<1>16. Counted'
  BY <1>7, <1>15 DEF Counted
<1> QED
  BY <1>13, <1>14, <1>16

(* Every step keeps the invariant, and no step gives a key another pool.   *)
LEMMA NextKeeps ==
  ASSUME IInv, [Next]_vars
  PROVE  /\ IInv'
         /\ \A e \in 1 .. Len(entries) : \A k \in Key :
              sticky[e][k] # NoPool => sticky'[e][k] = sticky[e][k]
<1>1. CASE UNCHANGED vars
  <2>1. UNCHANGED <<entries, configs, route, call, cursor, picked, sticky>>
    BY <1>1 DEF vars, entryVars, pickVars
  <2> QED
    BY <2>1 DEF IInv, Shapes, BuiltOnce, Hashed, Counted
<1>2. ASSUME NEW config \in Config, BindMany(config) \/ SetMany(config)
      PROVE  /\ IInv'
             /\ \A e \in 1 .. Len(entries) : \A k \in Key :
                  sticky[e][k] # NoPool => sticky'[e][k] = sticky[e][k]
  <2>1. Publish(config)
    BY <1>2 DEF BindMany, SetMany
  <2> QED
    BY <2>1, PublishKeeps
<1>3. ASSUME NEW c \in Caller, NEW k \in Keys, RouteRead(c, k)
      PROVE  IInv' /\ sticky' = sticky
  BY <1>3, RouteReadKeeps DEF RouteRead, pickVars
<1>4. ASSUME NEW c \in Caller, RouteKeyless(c)
      PROVE  IInv' /\ sticky' = sticky
  BY <1>4, RouteKeylessKeeps DEF RouteKeyless
<1> QED
  BY <1>1, <1>2, <1>3, <1>4, RouteKeyedKeeps DEF Next

-----------------------------------------------------------------------------
(* Theorems *)

(* The inductive invariant: an entry is at all times what its arguments    *)
(* make it, a key has the pool of its hash, and the messages of a pool are *)
(* those the cursor has passed.                                            *)
THEOREM Invariance == Spec => []IInv
<1>1. IInv /\ [Next]_vars => IInv'
  BY NextKeeps
<1> QED
  BY <1>1, InitInv, PTL DEF Spec

(* Every variable keeps its type, and every place of every table leads to  *)
(* a pool: RouteWithKey never answers nil or runs out of the table.        *)
THEOREM TypeCorrect == Spec => []TypeOK
<1>1. IInv => TypeOK
  <2> SUFFICES ASSUME IInv PROVE TypeOK
    OBVIOUS
  <2>1. ASSUME NEW e \in DOMAIN entries
        PROVE  /\ Len(entries[e].table) > 0
               /\ \A i \in DOMAIN entries[e].table :
                    entries[e].targets[entries[e].table[i]] \in Pool
    <3>1. IsEntry(entries[e], configs[e])
      BY ShapesAre, EntriesAre DEF IInv
    <3> QED
      BY <3>1 DEF IsEntry, Positives
  <2> QED
    BY <2>1, ShapesAre DEF IInv, Shapes, TypeOK
<1> QED
  BY <1>1, Invariance, PTL

(* An entry sends a key to one pool for ever, whatever else is routed or   *)
(* published.                                                              *)
THEOREM KeysStay == Spec => KeySticky
<1>1. IInv /\ [Next]_vars =>
        [\A e \in DOMAIN sticky : \A k \in Key :
           sticky[e][k] # NoPool => sticky'[e][k] = sticky[e][k]]_vars
  <2> SUFFICES ASSUME IInv, [Next]_vars
               PROVE  \A e \in DOMAIN sticky : \A k \in Key :
                        sticky[e][k] # NoPool => sticky'[e][k] = sticky[e][k]
    OBVIOUS
  <2>1. DOMAIN sticky = 1 .. Len(entries)
    BY ShapesAre DEF IInv
  <2> QED
    BY <2>1, NextKeeps
<1> QED
  BY <1>1, Invariance, PTL DEF Spec, KeySticky

(* A pool without a positive weight gets no message, keyed or not.         *)
THEOREM WeightedAlone == Spec => []OnlyWeighted
<1>1. IInv => OnlyWeighted
  <2> SUFFICES ASSUME IInv, NEW e \in 1 .. Len(entries), NEW p \in Pool,
                      picked[e][p] > 0 \/ \E k \in Key : sticky[e][k] = p
               PROVE  WeightOf(configs[e], p) > 0
    BY ShapesAre DEF IInv, OnlyWeighted
  <2>1. IsEntry(entries[e], configs[e])
    BY EntriesAre DEF IInv
  <2>2. CASE picked[e][p] > 0
    <3>1. PICK at \in Nat : at = cursor[e]
      BY ShapesAre DEF IInv
    <3>2. PICK q, r, S, extra \in Nat :
            /\ S = SumOf(Marks(entries[e], p)) /\ extra <= S
            /\ Count(entries[e], p, at) = q * S + extra
      <4>1. Len(entries[e].table) \in Positives
        BY <2>1 DEF IsEntry
      <4>2. InRounds(entries[e], p, at)
        BY <4>1, CountBounds, Zenon
      <4> QED
        BY <4>2 DEF InRounds
    <3>3. picked[e][p] = q * S + extra
      BY <3>1, <3>2 DEF IInv, Counted
    <3>4. S # 0
      <4> SUFFICES ASSUME S = 0 PROVE FALSE
        OBVIOUS
      <4>1. q * S = 0 /\ extra = 0
        BY <3>2
      <4> QED
        BY <2>2, <3>3, <4>1
    <3> QED
      BY <2>1, <3>2, <3>4, PlacedAreWeighted
  <2>3. ASSUME NEW k \in Key, sticky[e][k] = p PROVE WeightOf(configs[e], p) > 0
    <3>1. p # NoPool /\ Hash[k] \in Nat
      BY RouterAssumption
    <3>2. p = SlotOf(entries[e], Hash[k])
      BY <2>3, <3>1 DEF IInv, Hashed
    <3>3. SumOf(Marks(entries[e], p)) # 0
      BY <2>1, <3>1, <3>2, SlotIsPlaced
    <3> QED
      BY <2>1, <3>3, PlacedAreWeighted
  <2> QED
    BY <2>2, <2>3
<1> QED
  BY <1>1, Invariance, PTL

(* After whole rounds the keyless messages of an entry are shared out      *)
(* exactly as the weights ask, and in between they are off by less than a  *)
(* round, however the callers and SetMany interleave.                      *)
THEOREM SharesAreExact == Spec => []Proportional
<1>1. IInv => Proportional
  <2> SUFFICES ASSUME IInv, NEW e \in 1 .. Len(entries), NEW p \in Pool
               PROVE  LET n   == Len(entries[e].table)
                          due == cursor[e] * WeightOf(configs[e], p)
                          got == picked[e][p] * WeightSum(configs[e])
                      IN  /\ cursor[e] % n = 0 => got = due
                          /\ got - due < n * WeightSum(configs[e])
                          /\ due - got < n * WeightSum(configs[e])
    BY ShapesAre DEF IInv, Proportional
  <2>1. IsEntry(entries[e], configs[e])
    BY EntriesAre DEF IInv
  <2>2. PICK at \in Nat, n \in Nat : at = cursor[e] /\ n = Len(entries[e].table) /\ n > 0
    BY <2>1, ShapesAre DEF IInv, IsEntry, Positives
  <2>3. PICK q, r, S, extra \in Nat :
          /\ at = n * q + r /\ r < n /\ at % n = r
          /\ S = SumOf(Marks(entries[e], p)) /\ S <= n
          /\ Count(entries[e], p, at) = q * S + extra /\ extra <= r /\ extra <= S
    <3>1. Len(entries[e].table) \in Positives
      BY <2>1 DEF IsEntry
    <3>2. InRounds(entries[e], p, at)
      BY <3>1, CountBounds, Zenon
    <3> QED
      BY <2>2, <3>2 DEF InRounds
  <2>4. PICK g \in Nat : g > 0 /\ WeightSum(configs[e]) = g * n /\ WeightOf(configs[e], p) = g * S
    BY <2>1, <2>2, <2>3 DEF IsEntry, Positives
  <2>5. picked[e][p] = q * S + extra
    BY <2>2, <2>3 DEF IInv, Counted
  <2>6. PICK got, due : got = (q * S + extra) * (g * n) /\ due = (n * q + r) * (g * S)
    OBVIOUS
  <2>7. PICK en, rs, nn \in Nat : en = extra * n /\ rs = r * S /\ nn = n * n
    BY SMT
  <2>8. got - due = g * (en - rs) /\ due - got = g * (rs - en)
    BY <2>6, <2>7
  <2>9. en < nn /\ rs < nn
    <3>1. \A x \in Nat : x < n => x * n < nn
      <4> SUFFICES ASSUME NEW x \in Nat, x < n PROVE x * n < nn
        OBVIOUS
      <4>1. n * (n - x) >= n
        BY MultipleIsNoLess
      <4>2. n * (n - x) = nn - x * n /\ x * n \in Nat
        BY <2>7
      <4> QED
        BY <2>2, <4>1, <4>2
    <3>2. extra < n
      BY <2>3
    <3>3. r * n < nn
      BY <2>3, <3>1
    <3>4. r * S <= r * n
      <4>1. r * (n - S) \in Nat
        <5>1. n - S \in Nat
          BY <2>3
        <5>2. \A x \in Nat : r * x \in Nat
          OBVIOUS
        <5> QED
          BY <5>1, <5>2, Zenon
      <4>2. r * (n - S) = r * n - r * S
        OBVIOUS
      <4> QED
        BY <4>1, <4>2
    <3> QED
      BY <2>7, <3>1, <3>2, <3>3, <3>4
  <2>10. ASSUME NEW x \in Int, x < nn PROVE g * x < n * (g * n)
    <3>1. g * (nn - x) >= g
      BY <2>10, MultipleIsNoLess
    <3>2. g * (nn - x) = g * nn - g * x /\ g * nn = n * (g * n)
      BY <2>7
    <3> QED
      BY <2>4, <3>1, <3>2
  <2>11. got - due < n * (g * n) /\ due - got < n * (g * n)
    <3>1. en - rs < nn /\ rs - en < nn /\ en - rs \in Int /\ rs - en \in Int
      BY <2>9
    <3> QED
      BY <2>8, <2>10, <3>1
  <2>12. r = 0 => got = due
    <3> SUFFICES ASSUME r = 0 PROVE got = due
      OBVIOUS
    <3>1. en = 0 /\ rs = 0
      BY <2>3, <2>7
    <3>2. got - due = 0 /\ got \in Int /\ due \in Int
      BY <2>6, <2>8, <3>1
    <3> QED
      BY <3>2
  <2> QED
    BY <2>2, <2>3, <2>4, <2>5, <2>6, <2>11, <2>12
<1> QED
  BY <1>1, Invariance, PTL

(* Entries for the same pools with weights in the same ratio are the same: *)
(* a SetMany that changes no ratio moves no key.                           *)
THEOREM SameRatioMovesNoKey == Spec => []SameRatioSameRing
<1>1. IInv => SameRatioSameRing
  BY ShapesAre, BuildSame DEF IInv, BuiltOnce, SameRatioSameRing
<1> QED
  BY <1>1, Invariance, PTL

-----------------------------------------------------------------------------
(* The router implements StreamRoute                                       *)

Shares(config)  == [p \in Pool |-> WeightOf(config, p)]
SharesOf(given) == [e \in DOMAIN given |-> Shares(given[e])]

(* Weights that can be built give every pool a share, and some pool one    *)
(* that is not 0.                                                          *)
AreShares(w) == w \in [Pool -> Nat] /\ \E p \in Pool : w[p] > 0

LEMMA SharesAre ==
  ASSUME NEW config \in Config, Buildable(config)
  PROVE  AreShares(Shares(config))
<1>1. PICK entry : entry = Build(config)
  OBVIOUS
<1>2. IsEntry(entry, config)
  BY <1>1, EntryIs
<1>3. ASSUME NEW p \in Pool PROVE WeightOf(config, p) \in Nat
  <2>1. PICK g \in Positives : WeightOf(config, p) = g * SumOf(Marks(entry, p))
    BY <1>2 DEF IsEntry
  <2>2. SumOf(Marks(entry, p)) \in Nat
    <3>1. Len(entry.table) \in Nat
      BY <1>2 DEF IsEntry, Positives
    <3>2. Marks(entry, p) \in Seq(Nat)
      BY <3>1, MarksAre
    <3> QED
      BY <3>2, SumsGrow
  <2> QED
    BY <2>1, <2>2 DEF Positives
<1>4. PICK p : p = SlotOf(entry, 0) /\ p \in Pool /\ SumOf(Marks(entry, p)) # 0
  <2>1. PICK z \in Nat : z = 0
    OBVIOUS
  <2> QED
    BY <1>2, <2>1, SlotIsPlaced
<1>5. WeightOf(config, p) > 0
  BY <1>2, <1>4, PlacedAreWeighted
<1> QED
  BY <1>3, <1>4, <1>5 DEF AreShares, Shares

(* Sent over weight, no pool is a whole round ahead of another.            *)
NoneAhead(entry, config, n, p, q) ==
  Count(entry, p, n) * WeightOf(config, q)
    <= (Count(entry, q, n) + WeightOf(config, q)) * WeightOf(config, p)

LEMMA RoundsAreLevel ==
  ASSUME NEW entry, NEW config, IsEntry(entry, config), NEW n \in Nat,
         NEW p \in Pool, NEW q \in Pool
  PROVE  NoneAhead(entry, config, n, p, q)
<1>1. PICK L \in Nat \ {0} : L = Len(entry.table)
  BY DEF IsEntry, Positives
<1>2. PICK k, r, S, x \in Nat :
        /\ n = L * k + r /\ r < L /\ S = SumOf(Marks(entry, p))
        /\ Count(entry, p, n) = k * S + x /\ x <= S
  <2>1. InRounds(entry, p, n)
    BY <1>1, CountBounds, Zenon DEF IsEntry
  <2> QED
    BY <1>1, <2>1 DEF InRounds
<1>3. PICK l, s, T, y \in Nat :
        /\ n = L * l + s /\ s < L /\ T = SumOf(Marks(entry, q))
        /\ Count(entry, q, n) = l * T + y
  <2>1. InRounds(entry, q, n)
    BY <1>1, CountBounds, Zenon DEF IsEntry
  <2> QED
    BY <1>1, <2>1 DEF InRounds
<1>4. k = l
  <2>1. (L * k + r) \div L = k
    BY <1>2, QuotientIs
  <2>2. (L * l + s) \div L = l
    BY <1>3, QuotientIs
  <2> QED
    BY <1>2, <1>3, <2>1, <2>2
<1>5. PICK g \in Nat : g >= 1 /\ WeightOf(config, p) = g * S /\ WeightOf(config, q) = g * T
  BY <1>2, <1>3 DEF IsEntry, Positives
<1>6. PICK xT, yS, ST, kST \in Nat :
        xT = x * T /\ yS = y * S /\ ST = S * T /\ kST = k * S * T
  BY SMT
<1>7. xT <= ST
  <2>1. PICK d \in Nat : S = x + d
    <3>1. S - x \in Nat /\ S = x + (S - x)
      BY <1>2
    <3> QED
      BY <3>1
  <2>2. ST = xT + d * T /\ d * T \in Nat
    BY <1>6, <2>1
  <2> QED
    BY <2>2
<1>8. PICK gST \in Nat : gST = g * ST /\ ST <= gST
  <2>1. ST * g >= ST
    BY <1>5, MultipleIsNoLess
  <2>2. ST * g = g * ST /\ g * ST \in Nat
    OBVIOUS
  <2> QED
    BY <2>1, <2>2
<1>9. kST + xT <= kST + yS + gST
  BY <1>7, <1>8
<1>10. PICK a, b \in Nat : a = kST + xT /\ b = kST + yS + gST /\ a <= b
  BY <1>9
<1>11. g * a <= g * b
  <2>1. PICK d \in Nat : b = a + d
    <3>1. b - a \in Nat /\ b = a + (b - a)
      BY <1>10
    <3> QED
      BY <3>1
  <2>2. g * b = g * a + g * d /\ g * d \in Nat /\ g * a \in Nat
    BY <2>1
  <2> QED
    BY <2>2
<1>12. (k * S + x) * (g * T) = g * a
  BY <1>6, <1>10
<1>13. (k * T + y + g * T) * (g * S) = g * b
  BY <1>6, <1>8, <1>10
<1> QED
  BY <1>2, <1>3, <1>4, <1>5, <1>11, <1>12, <1>13 DEF NoneAhead

(* The shares of one configuration more.                                   *)
LEMMA SharesGrow ==
  ASSUME NEW given \in Seq(Config), NEW config \in Config
  PROVE  SharesOf(Append(given, config)) = Append(SharesOf(given), Shares(config))
<1>1. PICK n \in Nat : n = Len(given)
  BY LenProperties
<1>2. PICK more : more = Append(given, config)
  OBVIOUS
<1>3. /\ more \in Seq(Config) /\ Len(more) = n + 1
      /\ (\A e \in 1 .. n : more[e] = given[e]) /\ more[n + 1] = config
  BY <1>1, <1>2, Appended
<1>4. DOMAIN given = 1 .. n /\ DOMAIN more = 1 .. n + 1
  BY <1>1, <1>3, LenProperties
<1>5. PICK S, F : S = {Shares(any) : any \in Config} /\ F = SharesOf(given)
  OBVIOUS
<1>6. F \in [1 .. n -> S] /\ \A e \in 1 .. n : F[e] = Shares(given[e])
  <2>1. \A e \in 1 .. n : given[e] \in Config
    BY <1>1, ElementOfSeq
  <2> QED
    BY <1>4, <1>5, <2>1 DEF SharesOf
<1>7. F \in Seq(S) /\ Len(F) = n
  BY <1>6, FunctionIsSeq
<1>8. PICK w, G : w = Shares(config) /\ G = Append(F, w)
  OBVIOUS
<1>9. w \in S
  BY <1>5, <1>8
<1>10. /\ G \in Seq(S) /\ Len(G) = n + 1
      /\ (\A e \in 1 .. n : G[e] = F[e]) /\ G[n + 1] = w
  BY <1>7, <1>8, <1>9, Appended
<1>11. PICK H : H = SharesOf(more)
  OBVIOUS
<1>12. H = [e \in 1 .. n + 1 |-> Shares(more[e])]
  BY <1>4, <1>11 DEF SharesOf
<1>13. \A e \in 1 .. n + 1 : G[e] = H[e]
  <2>1. \A e \in 1 .. n + 1 : e = n + 1 \/ e \in 1 .. n
    OBVIOUS
  <2>2. \A e \in 1 .. n : H[e] = Shares(given[e])
    BY <1>3, <1>12
  <2>3. H[n + 1] = Shares(config)
    BY <1>3, <1>12
  <2> QED
    BY <1>6, <1>8, <1>10, <2>1, <2>2, <2>3
<1>14. G = [e \in 1 .. n + 1 |-> G[e]]
  <2>1. G \in [1 .. n + 1 -> S]
    BY <1>10, SeqDef, LenProperties
  <2> QED
    BY <2>1
<1> QED
  BY <1>2, <1>5, <1>8, <1>11, <1>12, <1>13, <1>14

(* The published entry is always the last one built: a SetMany that fails  *)
(* leaves no entry behind.                                                 *)
Latest == route = Len(entries)

RouteInv == IInv /\ Latest

LEMMA LatestStays ==
  ASSUME RouteInv, [Next]_vars
  PROVE  RouteInv'
<1>1. IInv'
  BY NextKeeps DEF RouteInv
<1>2. CASE UNCHANGED <<entries, route>>
  BY <1>1, <1>2 DEF RouteInv, Latest
<1>3. ASSUME NEW config \in Config, Publish(config)
      PROVE  Latest'
  <2>1. PICK n \in Nat : n = Len(entries)
    BY ShapesAre DEF RouteInv, IInv
  <2>2. entries' = Append(entries, Build(config)) /\ route' = n + 1
    BY <1>3, <2>1 DEF Publish
  <2>3. entries \in Seq(Entry) /\ Build(config) \in Entry
    BY <1>3 DEF RouteInv, IInv, Shapes, Entry, Publish
  <2>4. Len(entries') = n + 1
    BY <2>1, <2>2, <2>3, Appended
  <2> QED
    BY <2>2, <2>4 DEF Latest
<1> QED
  BY <1>1, <1>2, <1>3
  DEF RouteInv, Next, BindMany, SetMany, RouteRead, RouteKeyed, RouteKeyless, vars, entryVars

LEMMA InitIsRoute == Init => SR!Init
<1> SUFFICES ASSUME Init PROVE SR!Init
  OBVIOUS
<1>1. [e \in DOMAIN configs |-> [p \in Pool |-> WeightOf(configs[e], p)]] = <<>>
  BY DEF Init
<1> QED
  BY <1>1 DEF Init, SR!Init, Idle, SR!Idle

LEMMA PublishIsRoute ==
  ASSUME RouteInv, NEW config \in Config, Publish(config)
  PROVE  SR!Next
<1>1. PICK w : w = Shares(config)
  OBVIOUS
<1>2. AreShares(w)
  BY <1>1, SharesAre DEF Publish
<1>3. configs \in Seq(Config) /\ configs' = Append(configs, config)
  BY DEF RouteInv, IInv, Shapes, Publish
<1>4. SharesOf(configs') = Append(SharesOf(configs), w)
  BY <1>1, <1>3, SharesGrow
<1>5. SR!SetMany(w)
  BY <1>2, <1>4 DEF SR!SetMany, AreShares, SharesOf, Shares, Publish
<1>6. w \in {[p \in Pool |-> WeightOf(any, p)] : any \in {some \in Config : Buildable(some)}}
  BY <1>1 DEF Shares, Publish
<1> QED
  BY <1>5, <1>6 DEF SR!Next

LEMMA ReadIsRoute ==
  ASSUME RouteInv, NEW c \in Caller, NEW k \in Keys, RouteRead(c, k)
  PROVE  SR!Next
<1>1. PICK n \in Nat : n = Len(configs) /\ n = route
  BY ShapesAre DEF RouteInv, IInv, Shapes, Latest
<1>2. PICK F : F = SharesOf(configs)
  OBVIOUS
<1>3. Len(F) = n /\ F # <<>>
  <2>1. DOMAIN configs = 1 .. n
    BY <1>1, LenProperties DEF RouteInv, IInv, Shapes
  <2>2. F \in [1 .. n -> {Shares(configs[e]) : e \in 1 .. n}]
    BY <1>2, <2>1 DEF SharesOf
  <2>3. Len(F) = n
    BY <2>2, FunctionIsSeq
  <2>4. n # 0 /\ Len(<<>>) = 0
    BY <1>1, EmptySeq DEF RouteRead
  <2> QED
    BY <2>3, <2>4
<1>4. call' = [call EXCEPT ![c] = [entry |-> Len(F), key |-> k]] /\ call[c] = Idle
  BY <1>1, <1>3 DEF RouteRead
<1>5. UNCHANGED <<configs, picked, sticky>>
  BY DEF RouteRead, entryVars, pickVars
<1>6. SR!Look(c, k)
  BY <1>2, <1>3, <1>4, <1>5 DEF SR!Look, SR!Idle, Idle, SharesOf, Shares
<1> QED
  BY <1>6 DEF SR!Next, Keys

LEMMA KeylessIsRoute ==
  ASSUME RouteInv, NEW c \in Caller, RouteKeyless(c)
  PROVE  SR!Next
<1>1. PICK e, n : e = call[c].entry /\ n = cursor[e]
  OBVIOUS
<1>2. e \in 1 .. Len(entries) /\ call[c] # Idle /\ call[c].key = NoKey
  BY <1>1, CallIs DEF RouteInv, RouteKeyless, Keyless
<1>3. n \in Nat /\ picked[e] \in [Pool -> Nat] /\ IsEntry(entries[e], configs[e])
  BY <1>1, <1>2, ShapesAre, EntriesAre DEF RouteInv, IInv
<1>4. PICK p : p = SlotOf(entries[e], n)
  OBVIOUS
<1>5. p \in Pool
  BY <1>3, <1>4, SlotIsPlaced
<1>6. /\ cursor' = [cursor EXCEPT ![e] = n + 1]
      /\ picked' = [picked EXCEPT ![e][p] = @ + 1]
      /\ UNCHANGED <<entries, configs, sticky>> /\ Return(c)
  BY <1>1, <1>4 DEF RouteKeyless, Slot, SlotOf, entryVars
<1>7. IInv'
  BY RouteKeylessKeeps DEF RouteInv
<1>8. cursor'[e] = n + 1 /\ n + 1 \in Nat
  <2>1. DOMAIN cursor = 1 .. Len(entries)
    BY ShapesAre DEF RouteInv, IInv
  <2> QED
    BY <1>2, <1>3, <1>6, <2>1
<1>9. ASSUME NEW q \in Pool
      PROVE  picked'[e][p] * WeightOf(configs[e], q)
               <= (picked'[e][q] + WeightOf(configs[e], q)) * WeightOf(configs[e], p)
  <2>1. \A some \in Pool : picked'[e][some] = Count(entries[e], some, n + 1)
    BY <1>2, <1>6, <1>7, <1>8 DEF IInv, Counted
  <2>2. NoneAhead(entries[e], configs[e], n + 1, p, q)
    BY <1>3, <1>5, <1>8, RoundsAreLevel, Zenon
  <2> QED
    BY <1>5, <2>1, <2>2 DEF NoneAhead
<1>10. PICK F : F = SharesOf(configs)
  OBVIOUS
<1>11. \A q \in Pool : F[e][q] = WeightOf(configs[e], q)
  <2>1. e \in DOMAIN configs
    BY <1>2, ShapesAre DEF RouteInv, IInv
  <2> QED
    BY <1>10, <2>1 DEF SharesOf, Shares
<1>12. SR!Level(F[e], picked'[e], p)
  BY <1>5, <1>9, <1>11 DEF SR!Level
<1>13. SR!Spread(c, p)
  BY <1>1, <1>2, <1>6, <1>10, <1>12 DEF SR!Spread, SR!Return, SR!Idle, Return, Idle, SharesOf, Shares
<1> QED
  BY <1>5, <1>13 DEF SR!Next

LEMMA KeyedIsRoute ==
  ASSUME RouteInv, NEW c \in Caller, RouteKeyed(c)
  PROVE  SR!Next
<1>1. PICK e, k : e = call[c].entry /\ k = call[c].key
  OBVIOUS
<1>2. e \in 1 .. Len(entries) /\ call[c] # Idle /\ k # NoKey /\ k \in Key
  BY <1>1, CallIs DEF RouteInv, RouteKeyed, Keyed, Keys
<1>3. IsEntry(entries[e], configs[e]) /\ Hash[k] \in Nat
  BY <1>2, EntriesAre, RouterAssumption DEF RouteInv, IInv
<1>4. PICK p : p = SlotOf(entries[e], Hash[k])
  OBVIOUS
<1>5. p \in Pool /\ WeightOf(configs[e], p) > 0
  BY <1>3, <1>4, SlotIsPlaced, PlacedAreWeighted
<1>6. /\ sticky' = [sticky EXCEPT ![e][k] = p]
      /\ UNCHANGED <<configs, picked>> /\ Return(c)
  BY <1>1, <1>4 DEF RouteKeyed, Slot, SlotOf, entryVars
<1>7. sticky[e][k] \in {NoPool, p}
  BY <1>2, <1>4 DEF RouteInv, IInv, Hashed
<1>8. PICK F : F = SharesOf(configs)
  OBVIOUS
<1>9. F[e][p] > 0
  <2>1. e \in DOMAIN configs
    BY <1>2, ShapesAre DEF RouteInv, IInv
  <2> QED
    BY <1>5, <1>8, <2>1 DEF SharesOf, Shares
<1>10. SR!Keep(c, p)
  BY <1>1, <1>2, <1>6, <1>7, <1>8, <1>9
  DEF SR!Keep, SR!Return, SR!Idle, Return, Idle, SharesOf, Shares
<1> QED
  BY <1>5, <1>10 DEF SR!Next

(* WeightedRR implements StreamRoute: without tables and cursors, a stream *)
(* is routed by the weights that were in force when a call looked, level   *)
(* to a round, and every key to one pool.                                  *)
THEOREM RouteRefinement == Spec => RoutesByWeight
<1>1. Init => RouteInv
  <2> SUFFICES ASSUME Init PROVE RouteInv
    OBVIOUS
  <2>1. route = 0 /\ entries = <<>>
    BY DEF Init
  <2>2. Len(entries) = 0
    BY <2>1, EmptySeq
  <2> QED
    BY <2>1, <2>2, InitInv DEF RouteInv, Latest
<1>2. RouteInv /\ [Next]_vars => [SR!Next]_(SR!vars)
  <2> SUFFICES ASSUME RouteInv, [Next]_vars PROVE [SR!Next]_(SR!vars)
    OBVIOUS
  <2>1. CASE UNCHANGED vars
    BY <2>1 DEF vars, entryVars, pickVars, SR!vars
  <2> QED
    BY <2>1, PublishIsRoute, ReadIsRoute, KeylessIsRoute, KeyedIsRoute DEF Next, BindMany, SetMany
<1>3. RouteInv /\ [Next]_vars => RouteInv'
  BY LatestStays
<1> QED
  BY <1>1, <1>2, <1>3, InitIsRoute, PTL DEF Spec, SR!Spec, RoutesByWeight

=============================================================================
