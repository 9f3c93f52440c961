---------------------------- MODULE RuntimeProofs ----------------------------
(***************************************************************************)
(* Proofs about Runtime, for any sources, pools and messages, any sizes of *)
(* the buffers, queues and pools, and any number of Stop calls.            *)
(***************************************************************************)
EXTENDS Runtime, FiniteSetTheorems, SequenceTheorems, TLAPS

(* What a goroutine holds fits where it is. *)
Placed ==
  /\ \A p \in Pool : IsFiniteSet(busy[p])
  /\ \A s \in Source :
       /\ received[s] <= Msgs[s]
       /\ src[s] \in {"route", "try"} => received[s] # 0
       /\ src[s] = "try" => dest[s] \in Pool /\ disp[<<s, dest[s]>>] # "none"
  /\ \A r \in Route :
       /\ disp[r] = "submit" <=> held[r] # NoMsg
       /\ disp[r] = "none" => buf[r] = <<>>
       /\ held[r] # NoMsg => held[r][1] = r[1]
       /\ \A i \in DOMAIN buf[r] : buf[r][i][1] = r[1]

(* A source is started once. *)
StartedOnce ==
  \A s \in Source :
    (start \in {"idle", "unlocked"} \/ (start = "spawn" /\ s \in spawning)) => src[s] = "none"

Types == TypeOK /\ Placed /\ StartedOnce

(* The stations of a message on its way into pool p, the last one first.   *)
Station == 1 .. 4
Here(m, k, p) ==
  CASE k = 1 -> m \in Elements(fetched[p])
    [] k = 2 -> m \in Elements(queue[p])
    [] k = 3 -> held[<<m[1], p>>] = m
    [] k = 4 -> m \in Elements(buf[<<m[1], p>>])

(* The messages of a source that its goroutine is done with.               *)
Behind(s) == IF src[s] \in {"route", "try"} THEN received[s] - 1 ELSE received[s]

(* Between two stations no message overtakes one of its source.            *)
Staged ==
  \A p \in Pool, m, o \in Msg, k, l \in Station :
    (Here(m, k, p) /\ Here(o, l, p) /\ k < l /\ m[1] = o[1]) => m[2] < o[2]

(* A message is nowhere before the source is done with it, and then on the *)
(* way into one pool.                                                      *)
Seen    == \A p \in Pool, m \in Msg, k \in Station : Here(m, k, p) => m[2] <= Behind(m[1])
OnePool == \A p, q \in Pool, m \in Msg, k, l \in Station : Here(m, k, p) /\ Here(m, l, q) => p = q

Line == Staged /\ Seen /\ OnePool

Increasing(seq) ==
  \A i, j \in DOMAIN seq : (i < j /\ seq[i][1] = seq[j][1]) => seq[i][2] < seq[j][2]

(* Nor does it at a station.                                               *)
Rows ==
  /\ \A p \in Pool : Increasing(fetched[p]) /\ Increasing(queue[p])
  /\ \A r \in Route : Increasing(buf[r])

(* What is being executed or was handled was taken off the channel.        *)
Work ==
  /\ \A p \in Pool : \A m \in busy[p] : Here(m, 1, p) /\ m \notin handled
  /\ \A m \in handled : \E p \in Pool : Here(m, 1, p)

(* A pool with one goroutine has handled all it has taken off its channel, *)
(* but for the last, which that goroutine may be busy with.                *)
OneByOne ==
  \A p \in Pool : Size[p] = 1 => \A i \in DOMAIN fetched[p] :
    \/ fetched[p][i] \in handled
    \/ i = Len(fetched[p]) /\ busy[p] = {fetched[p][i]}

(* What a dispatcher, or a pool, took is where NothingForgotten expects it.*)
Kept ==
  /\ \A m \in buffered : ctxDone \/ m \in accepted
                         \/ \E p \in Pool : Here(m, 3, p) \/ Here(m, 4, p)
  /\ \A m \in accepted : m \in handled \/ \E p \in Pool : Here(m, 2, p) \/ m \in busy[p]

Order == Line /\ Rows /\ Work /\ Kept

(* A Stop call is beyond the loop in question.                             *)
Called(c)      == stop[c] \notin {"idle", "notStarted"}
PastSources(c) == Called(c) /\ stop[c] # "sources"
PastDisps(c)   == stop[c] \in {"pools", "ok", "err"}

StopEnds == \A c \in Stopper : Called(c) => ctxDone

(* The pools that are registered all the time.                             *)
Lasting == (Pool \cap Initially) \ replaced

(* Every Stop call leaves behind what it waited for, if Start had started  *)
(* all sources before.                                                     *)
StopWaits ==
  \A c \in Stopper :
    /\ Called(c) => start \in {"wait", "returned"}
    /\ PastSources(c) => SourcesGone
    /\ stop[c] = "dispatchers" => todo[c] = {r \in Route : disp[r] # "none"}
    /\ PastDisps(c) => Quiet
    /\ stop[c] \in {"pools", "ok"} => \A p \in Lasting : p \in todo[c] \/ Drained(p)
    /\ stop[c] = "ok" => todo[c] = {}

Stopping ==
  /\ Lasting \subseteq registered
  /\ poolClosed # {} => \E c \in Stopper : PastDisps(c)
  /\ StopEnds
  /\ early = {} => StopWaits

IInv == Types /\ Order /\ OneByOne /\ Stopping

-----------------------------------------------------------------------------
(* Messages and sequences of them *)

LEMMA Messages ==
  /\ \A m \in Msg : /\ m[1] \in Source /\ m[2] \in Nat \ {0} /\ m[2] <= Msgs[m[1]]
                    /\ m = <<m[1], m[2]>> /\ m # NoMsg
  /\ \A s \in Source, n \in Nat \ {0} : n <= Msgs[s] => <<s, n>> \in Msg
<1>1. \A s \in Source : Msgs[s] \in Nat
  BY RuntimeAssumption
<1>2. \A s, n : <<s, n>> # NoMsg
  BY DEF NoMsg
<1> QED
  BY <1>1, <1>2 DEF Msg

LEMMA Appended ==
  ASSUME NEW q \in Seq(Msg), NEW m \in Msg
  PROVE  /\ Append(q, m) \in Seq(Msg) /\ Len(Append(q, m)) = Len(q) + 1
         /\ Elements(Append(q, m)) = Elements(q) \cup {m}
         /\ (Increasing(q) /\ \A o \in Elements(q) : o[1] = m[1] => o[2] < m[2])
              => Increasing(Append(q, m))
<1> DEFINE n == Len(q)
           a == Append(q, m)
<1>1. /\ n \in Nat /\ DOMAIN q = 1 .. n
      /\ a \in Seq(Msg) /\ Len(a) = n + 1 /\ DOMAIN a = 1 .. n + 1
      /\ a[n + 1] = m /\ \A i \in 1 .. n : a[i] = q[i]
  BY AppendProperties, LenProperties
<1> HIDE DEF n, a
<1>2. DOMAIN a = DOMAIN q \cup {n + 1} /\ \A i \in DOMAIN q : i < n + 1
  BY <1>1
<1>3. Elements(a) = Elements(q) \cup {m}
  BY <1>1, <1>2 DEF Elements
<1>4. ASSUME Increasing(q), \A o \in Elements(q) : o[1] = m[1] => o[2] < m[2]
      PROVE  Increasing(a)
  <2> SUFFICES ASSUME NEW i \in DOMAIN a, NEW j \in DOMAIN a, i < j, a[i][1] = a[j][1]
               PROVE  a[i][2] < a[j][2]
    BY DEF Increasing
  <2>1. i \in DOMAIN q /\ a[i] = q[i]
    BY <1>1
  <2>2. CASE j \in DOMAIN q
    BY <1>1, <1>4, <2>1, <2>2 DEF Increasing
  <2>3. CASE j = n + 1
    BY <1>1, <1>4, <2>1, <2>3 DEF Elements
  <2> QED
    BY <1>2, <2>2, <2>3
<1> QED
  BY <1>1, <1>3, <1>4 DEF a, n

LEMMA Removed ==
  ASSUME NEW q \in Seq(Msg), q # <<>>
  PROVE  /\ Head(q) \in Msg /\ Tail(q) \in Seq(Msg)
         /\ Len(q) \in Nat /\ Len(Tail(q)) = Len(q) - 1
         /\ Elements(q) = Elements(Tail(q)) \cup {Head(q)}
         /\ Increasing(q) =>
              /\ Increasing(Tail(q))
              /\ \A o \in Elements(Tail(q)) : o[1] = Head(q)[1] => Head(q)[2] < o[2]
<1> DEFINE n == Len(q)
           h == Head(q)
           b == Tail(q)
<1>1. /\ n \in Nat \ {0} /\ DOMAIN q = 1 .. n
      /\ h \in Msg /\ h = q[1]
      /\ b \in Seq(Msg) /\ Len(b) = n - 1 /\ DOMAIN b = 1 .. n - 1
      /\ \A i \in 1 .. n - 1 : b[i] = q[i + 1]
  BY HeadTailProperties, EmptySeq, LenProperties
<1> HIDE DEF n, h, b
<1>2. \A i \in DOMAIN b : i \in Nat /\ 1 < i + 1 /\ i + 1 \in DOMAIN q /\ b[i] = q[i + 1]
  BY <1>1
<1>3. Elements(q) = Elements(b) \cup {h}
  <2>1. \A i \in DOMAIN q : i = 1 \/ (i - 1 \in DOMAIN b /\ b[i - 1] = q[i])
    BY <1>1
  <2>2. 1 \in DOMAIN q
    BY <1>1
  <2>3. h \in Elements(q)
    BY <1>1, <2>2 DEF Elements
  <2>4. Elements(b) \subseteq Elements(q)
    BY <1>2 DEF Elements
  <2>5. \A i \in DOMAIN q : q[i] = h \/ q[i] \in Elements(b)
    BY <1>1, <2>1 DEF Elements
  <2>6. Elements(q) \subseteq Elements(b) \cup {h}
    BY <2>5 DEF Elements
  <2> QED
    BY <2>3, <2>4, <2>6
<1>4. ASSUME Increasing(q)
      PROVE  Increasing(b) /\ \A o \in Elements(b) : o[1] = h[1] => h[2] < o[2]
  <2>1. ASSUME NEW i \in DOMAIN b, NEW j \in DOMAIN b, i < j, b[i][1] = b[j][1]
        PROVE  b[i][2] < b[j][2]
    <3>1. i + 1 < j + 1
      BY <1>2, <2>1
    <3> QED
      BY <1>2, <1>4, <2>1, <3>1 DEF Increasing
  <2>2. ASSUME NEW i \in DOMAIN b, b[i][1] = h[1] PROVE h[2] < b[i][2]
    <3>1. 1 \in DOMAIN q
      BY <1>1
    <3> QED
      BY <1>1, <1>2, <1>4, <2>2, <3>1 DEF Increasing
  <2> QED
    BY <2>1, <2>2 DEF Increasing, Elements
<1> QED
  BY <1>1, <1>3, <1>4 DEF n, h, b

LEMMA NoElements == Elements(<<>>) = {} /\ Increasing(<<>>) /\ Len(<<>>) = 0 /\ <<>> \in Seq(Msg)
<1>1. DOMAIN <<>> = {}
  OBVIOUS
<1> QED
  BY <1>1 DEF Elements, Increasing

-----------------------------------------------------------------------------
(* Types *)

LEMMA RoutesAre ==
  /\ \A r \in Route : r[1] \in Source /\ r[2] \in Pool /\ r = <<r[1], r[2]>>
  /\ \A s \in Source, p \in Pool : <<s, p>> \in Route /\ <<s, p>>[1] = s /\ <<s, p>>[2] = p
BY DEF Route

(* Sources, dispatchers and pools do not notice the rest.                  *)
LEMMA PlacedFrame ==
  ASSUME Placed, UNCHANGED <<srcVars, dispVars, poolVars>>
  PROVE  Placed'
BY DEF Placed, srcVars, dispVars, poolVars

(* What leaves the maps is replaced.                                       *)
LEMMA PutKeeps ==
  ASSUME registered \subseteq Item, replaced \subseteq Item, NEW x \in Item, Put(x)
  PROVE  /\ registered' \subseteq Item /\ replaced' \subseteq Item
         /\ replaced \subseteq replaced' /\ registered \subseteq registered' \cup replaced'
BY DEF Put

LEMMA ConfigChanges ==
  ASSUME TypeOK, (\E x \in Later : Register(x)) \/ WriterGoes
  PROVE  /\ UNCHANGED <<startVars, srcVars, dispVars, poolVars, stopVars>>
         /\ registered' \subseteq Item /\ replaced' \subseteq Item
         /\ replaced \subseteq replaced' /\ registered \subseteq registered' \cup replaced'
         /\ pending' \subseteq Item /\ Cardinality(pending') <= 1
<1>1. /\ registered \subseteq Item /\ replaced \subseteq Item
      /\ pending \subseteq Item /\ Cardinality(pending) <= 1 /\ Later \subseteq Item
  BY RuntimeAssumption DEF TypeOK
<1>2. CASE \E x \in Later : Register(x)
  <2>1. PICK x \in Later : Register(x)
    BY <1>2
  <2>2. x \in Item /\ Cardinality({x}) = 1
    BY <1>1, FS_Singleton
  <2>3. CASE pending' = {x} /\ UNCHANGED <<registered, replaced>>
    BY <1>1, <2>1, <2>2, <2>3 DEF Register
  <2>4. CASE Put(x) /\ UNCHANGED pending
    BY <1>1, <2>1, <2>2, <2>4, PutKeeps DEF Register
  <2> QED
    BY <2>1, <2>3, <2>4 DEF Register
<1>3. CASE WriterGoes
  <2>1. PICK x \in pending : Put(x)
    BY <1>3 DEF WriterGoes
  <2>2. x \in Item /\ pending' = {} /\ Cardinality({}) = 0
    BY <1>1, <1>3, FS_EmptySet DEF WriterGoes
  <2> QED
    BY <1>1, <1>3, <2>1, <2>2, PutKeeps DEF WriterGoes
<1> QED
  BY <1>2, <1>3

LEMMA ConfigTypes ==
  ASSUME Types, (\E x \in Later : Register(x)) \/ WriterGoes \/ UNCHANGED vars
  PROVE  Types'
<1> USE DEF Types, vars
<1>1. /\ UNCHANGED <<startVars, srcVars, dispVars, poolVars, stopVars>>
      /\ registered' \subseteq Item /\ replaced' \subseteq Item
      /\ pending' \subseteq Item /\ Cardinality(pending') <= 1
  <2>1. CASE (\E x \in Later : Register(x)) \/ WriterGoes
    BY <2>1, ConfigChanges
  <2>2. CASE UNCHANGED vars
    BY <2>2 DEF TypeOK, cfgVars
  <2> QED
    BY <2>1, <2>2
<1>2. TypeOK'
  BY <1>1 DEF TypeOK, startVars, srcVars, dispVars, poolVars, stopVars
<1>3. StartedOnce'
  BY <1>1 DEF StartedOnce, startVars, srcVars
<1> QED
  BY <1>1, <1>2, <1>3, PlacedFrame

LEMMA StartTypes ==
  ASSUME Types, StartCall \/ StartStep \/ CancelStart
  PROVE  Types'
<1> USE DEF Types, cfgVars, startVars, srcVars, dispVars, poolVars, stopVars
<1>1. CASE \E s \in Source : StartSource(s)
  <2>1. PICK s \in Source : StartSource(s)
    BY <1>1
  <2> USE <2>1 DEF StartSource, StartGoto
  <2>2. TypeOK'
    BY DEF TypeOK
  <2>3. StartedOnce'
    BY DEF TypeOK, StartedOnce
  <2>4. Placed'
    BY DEF TypeOK, Placed
  <2> QED
    BY <2>2, <2>3, <2>4
<1>2. CASE StartCall \/ StartLoop \/ StartWait \/ StartReturn \/ CancelStart
  <2> USE <1>2 DEF StartCall, StartLoop, StartWait, StartReturn, CancelStart, StartGoto
  <2>1. TypeOK'
    BY DEF TypeOK
  <2>2. StartedOnce'
    BY DEF StartedOnce
  <2>3. Placed'
    BY PlacedFrame
  <2> QED
    BY <2>1, <2>2, <2>3
<1> QED
  BY <1>1, <1>2 DEF StartStep

LEMMA SourceTypes ==
  ASSUME Types, NEW s \in Source, Recv(s) \/ RecvError(s) \/ Forward(s)
  PROVE  Types'
<1> USE DEF Types, SourceGoto, cfgVars, startVars, srcVars, dispVars, poolVars, stopVars
<1>1. Msgs[s] \in Nat /\ received[s] \in Nat /\ received[s] <= Msgs[s]
  BY RuntimeAssumption, ZenonT(30) DEF TypeOK, Placed
<1>2. CASE Recv(s) \/ RecvError(s) \/ Configure(s) \/ NoRoute(s)
  <2> USE <1>2 DEF Recv, RecvError, Configure, NoRoute
  <2>1. /\ UNCHANGED <<cfgVars, startVars, dispVars, poolVars, stopVars, dest>>
        /\ src[s] # "none"
        /\ \/ /\ received[s] < Msgs[s] /\ src' = [src EXCEPT ![s] = "route"]
              /\ received' = [received EXCEPT ![s] = received[s] + 1]
           \/ received' = received /\ src' = [src EXCEPT ![s] = "recv"]
           \/ received' = received /\ src' = [src EXCEPT ![s] = "exited"]
    OBVIOUS
  <2> HIDE <1>2 DEF Recv, RecvError, Configure, NoRoute
  <2>2. /\ src' \in [Source -> {"none", "config", "recv", "route", "try", "exited"}]
        /\ received' \in [Source -> Nat]
        /\ \A x \in Source : received'[x] <= Msgs[x]
    <3>1. /\ received' \in [Source -> Nat]
          /\ src' \in [Source -> {"none", "config", "recv", "route", "try", "exited"}]
      <4>1. received' \in [Source -> Nat]
        <5>1. received \in [Source -> Nat]
          BY DEF TypeOK
        <5> QED
          BY <1>1, <2>1, <5>1
      <4>2. src' \in [Source -> {"none", "config", "recv", "route", "try", "exited"}]
        BY <2>1 DEF TypeOK
      <4> QED
        BY <4>1, <4>2
    <3>2. \A x \in Source : x # s => received'[x] = received[x]
      BY <2>1 DEF TypeOK
    <3>3. received'[s] <= Msgs[s]
      BY <1>1, <2>1 DEF TypeOK
    <3> QED
      BY <3>1, <3>2, <3>3 DEF Placed
  <2>3. \A x \in Source : /\ src'[x] \in {"route", "try"} => received'[x] # 0
                          /\ src'[x] = "try" => src[x] = "try"
                          /\ src[x] = "none" => src'[x] = "none"
    <3> TAKE x \in Source
    <3>1. CASE x # s
      <4>1. src'[x] = src[x] /\ received'[x] = received[x]
        BY <2>1, <3>1 DEF TypeOK
      <4> QED
        BY <4>1 DEF Placed
    <3>2. CASE x = s
      BY <1>1, <2>1, <3>2 DEF TypeOK
    <3> QED
      BY <3>1, <3>2
  <2>4. TypeOK'
    BY <2>1, <2>2 DEF TypeOK
  <2>5. Placed' /\ StartedOnce'
    BY <2>1, <2>2, <2>3 DEF Placed, StartedOnce
  <2> QED
    BY <2>4, <2>5
<1>3. CASE \E p \in Pool : RouteTo(s, p)
  <2>1. PICK p \in Pool : RouteTo(s, p)
    BY <1>3
  <2> DEFINE r == <<s, p>>
  <2> USE <2>1 DEF RouteTo, Fresh
  <2>2. /\ r \in Route /\ UNCHANGED <<cfgVars, startVars, poolVars, stopVars, received, buffered>>
        /\ src[s] = "route" /\ src' = [src EXCEPT ![s] = "try"]
        /\ dest' = [dest EXCEPT ![s] = p]
        /\ \/ /\ disp[r] = "none" /\ disp' = [disp EXCEPT ![r] = "select"]
              /\ buf' = [buf EXCEPT ![r] = <<>>] /\ held' = [held EXCEPT ![r] = NoMsg]
           \/ disp[r] # "none" /\ UNCHANGED <<disp, buf, held>>
    BY RoutesAre
  <2> HIDE <2>1 DEF RouteTo, r
  <2>3. disp[r] = "none" => buf[r] = <<>> /\ held[r] = NoMsg
    BY <2>2 DEF Placed
  <2>4. buf' = buf /\ held' = held
    BY <2>2, <2>3 DEF TypeOK
  <2>5. /\ src' \in [Source -> {"none", "config", "recv", "route", "try", "exited"}]
        /\ dest' \in [Source -> Pool \cup {NoPool}]
        /\ disp' \in [Route -> {"none", "select", "submit", "exited"}]
    BY <2>2 DEF TypeOK
  <2>6. TypeOK'
    BY <2>2, <2>4, <2>5 DEF TypeOK
  <2>7. \A x \in Route : disp'[x] = disp[x] \/ (x = r /\ disp[x] = "none" /\ disp'[x] = "select")
    BY <2>2 DEF TypeOK
  <2>8. \A x \in Source : src'[x] = "try" => dest'[x] \in Pool /\ disp'[<<x, dest'[x]>>] # "none"
    <3> TAKE x \in Source
    <3>1. CASE x = s
      <4>1. dest'[x] = p /\ disp'[r] # "none"
        BY <2>2, <3>1 DEF TypeOK
      <4> QED
        BY <3>1, <4>1 DEF r
    <3>2. CASE x # s
      <4> HAVE src'[x] = "try"
      <4>1. src[x] = "try" /\ dest'[x] = dest[x]
        BY <2>2, <3>2 DEF TypeOK
      <4>2. dest[x] \in Pool /\ disp[<<x, dest[x]>>] # "none" /\ <<x, dest[x]>> \in Route
        BY <4>1, RoutesAre DEF Placed
      <4> QED
        BY <2>7, <4>1, <4>2
    <3> QED
      BY <3>1, <3>2
  <2>9. Placed'
    <3>1. \A x \in Source : src'[x] \in {"route", "try"} => received[x] # 0
      BY <2>2 DEF TypeOK, Placed
    <3>2. \A x \in Route : disp'[x] = "submit" <=> disp[x] = "submit"
      BY <2>7
    <3>3. \A x \in Route : disp'[x] = "none" => disp[x] = "none"
      BY <2>7
    <3> QED
      BY <2>2, <2>4, <2>8, <3>1, <3>2, <3>3 DEF Placed
  <2>10. StartedOnce'
    BY <2>2 DEF TypeOK, StartedOnce
  <2> QED
    BY <2>6, <2>9, <2>10
<1>4. CASE TrySubmit(s)
  <2> DEFINE r == <<s, dest[s]>>
             m == Current(s)
  <2> USE <1>4 DEF TrySubmit
  <2>1. /\ src[s] = "try" /\ r \in Route /\ disp[r] # "none"
        /\ m \in Msg /\ m[1] = s
    <3>1. src[s] = "try" /\ dest[s] \in Pool /\ disp[r] # "none" /\ received[s] # 0
      BY DEF Placed
    <3> QED
      BY <1>1, <3>1, RoutesAre, Messages DEF Current
  <2>2. /\ UNCHANGED <<cfgVars, startVars, poolVars, stopVars, received, disp, held>>
        /\ src' = [src EXCEPT ![s] = "recv"] /\ dest' = [dest EXCEPT ![s] = NoPool]
        /\ \/ /\ Len(buf[r]) < Buffer
              /\ buf' = [buf EXCEPT ![r] = Append(buf[r], m)]
              /\ buffered' = buffered \cup {m}
           \/ UNCHANGED <<buf, buffered>>
    BY DEF Room
  <2> HIDE <1>4 DEF TrySubmit, r, m
  <2>3. /\ buf[r] \in Seq(Msg) /\ Append(buf[r], m) \in Seq(Msg)
        /\ Len(buf[r]) \in Nat /\ Len(Append(buf[r], m)) = Len(buf[r]) + 1
        /\ Elements(Append(buf[r], m)) = Elements(buf[r]) \cup {m}
    BY <2>1, Appended, LenProperties DEF TypeOK
  <2>4. /\ src' \in [Source -> {"none", "config", "recv", "route", "try", "exited"}]
        /\ dest' \in [Source -> Pool \cup {NoPool}]
        /\ buf' \in [Route -> Seq(Msg)] /\ buffered' \subseteq Msg
    <3>1. /\ src \in [Source -> {"none", "config", "recv", "route", "try", "exited"}]
          /\ dest \in [Source -> Pool \cup {NoPool}]
          /\ buf \in [Route -> Seq(Msg)] /\ buffered \subseteq Msg
      BY DEF TypeOK
    <3>2. buf' \in [Route -> Seq(Msg)] /\ buffered' \subseteq Msg
      BY <2>1, <2>2, <2>3, <3>1
    <3> QED
      BY <2>2, <3>1, <3>2
  <2>5. ASSUME NEW x \in Route PROVE Len(buf'[x]) <= Buffer
    <3>1. CASE x = r
      <4>1. buf'[r] = buf[r] \/ (Len(buf[r]) < Buffer /\ buf'[r] = Append(buf[r], m))
        BY <2>1, <2>2 DEF TypeOK
      <4> QED
        BY <2>3, <3>1, <4>1, RuntimeAssumption DEF TypeOK
    <3>2. CASE x # r
      BY <2>2, <3>2 DEF TypeOK
    <3> QED
      BY <3>1, <3>2
  <2>6. TypeOK'
    BY <2>2, <2>4, <2>5 DEF TypeOK
  <2>7. \A x \in Source : src'[x] = "try" => src[x] = "try" /\ dest'[x] = dest[x]
    BY <2>2 DEF TypeOK
  <2>8. \A x \in Source : src'[x] \in {"none", "route", "try"} => src[x] = src'[x]
    BY <2>2 DEF TypeOK
  <2>9. \A x \in Route : \A i \in DOMAIN buf'[x] : buf'[x][i][1] = x[1]
    <3> TAKE x \in Route
    <3>1. \A o \in Elements(buf[x]) : o[1] = x[1]
      BY DEF Placed, Elements
    <3>2. \A o \in Elements(buf'[x]) : o[1] = x[1]
      <4>1. CASE x = r
        <5>1. x[1] = s
          BY <4>1 DEF r
        <5> QED
          BY <2>1, <2>2, <2>3, <3>1, <4>1, <5>1 DEF TypeOK
      <4>2. CASE x # r
        BY <2>2, <3>1, <4>2 DEF TypeOK
      <4> QED
        BY <4>1, <4>2
    <3> QED
      BY <3>2 DEF Elements
  <2>10. \A x \in Route : disp[x] = "none" => buf'[x] = <<>>
    BY <2>1, <2>2 DEF TypeOK, Placed
  <2>11. Placed'
    <3>1. \A x \in Source :
            /\ received'[x] <= Msgs[x]
            /\ src'[x] \in {"route", "try"} => received'[x] # 0
            /\ src'[x] = "try" => dest'[x] \in Pool /\ disp'[<<x, dest'[x]>>] # "none"
      <4> TAKE x \in Source
      <4>1. disp' = disp /\ received' = received
        BY <2>2
      <4>2. received[x] <= Msgs[x] /\ (src'[x] \in {"route", "try"} => received[x] # 0)
        BY <2>8 DEF Placed
      <4>3. src'[x] = "try" => dest'[x] \in Pool /\ disp[<<x, dest'[x]>>] # "none"
        BY <2>7 DEF Placed
      <4> QED
        BY <4>1, <4>2, <4>3
    <3>2. UNCHANGED <<busy, disp, held>>
      BY <2>2
    <3> QED
      BY <2>9, <2>10, <3>1, <3>2 DEF Placed
  <2>12. StartedOnce'
    BY <2>1, <2>2 DEF TypeOK, StartedOnce
  <2> QED
    BY <2>6, <2>11, <2>12
<1> QED
  BY <1>2, <1>3, <1>4 DEF Forward

(* A pool takes a message when one of its goroutines is free.              *)
LEMMA FetchTypes ==
  ASSUME Types, NEW p \in Pool, NEW m \in Msg, Cardinality(busy[p]) < Size[p],
         busy' = [busy EXCEPT ![p] = @ \cup {m}],
         fetched' = [fetched EXCEPT ![p] = Append(@, m)]
  PROVE  /\ busy' \in [Pool -> SUBSET Msg] /\ fetched' \in [Pool -> Seq(Msg)]
         /\ \A x \in Pool : IsFiniteSet(busy'[x]) /\ Cardinality(busy'[x]) <= Size[x]
         /\ \A x \in Pool : busy'[x] = IF x = p THEN busy[x] \cup {m} ELSE busy[x]
         /\ \A x \in Pool \ {p} : fetched'[x] = fetched[x]
         /\ Elements(fetched'[p]) = Elements(fetched[p]) \cup {m}
<1> USE DEF Types
<1>1. /\ Append(fetched[p], m) \in Seq(Msg)
      /\ Elements(Append(fetched[p], m)) = Elements(fetched[p]) \cup {m}
  BY Appended DEF TypeOK
<1>2. /\ busy' \in [Pool -> SUBSET Msg]
      /\ \A x \in Pool : busy'[x] = IF x = p THEN busy[x] \cup {m} ELSE busy[x]
  BY DEF TypeOK
<1>3. /\ fetched' \in [Pool -> Seq(Msg)] /\ \A x \in Pool \ {p} : fetched'[x] = fetched[x]
      /\ fetched'[p] = Append(fetched[p], m)
  BY <1>1 DEF TypeOK
<1>4. ASSUME NEW x \in Pool
      PROVE  IsFiniteSet(busy'[x]) /\ Cardinality(busy'[x]) <= Size[x]
  <2>1. IsFiniteSet(busy[x]) /\ Cardinality(busy[x]) <= Size[x] /\ Size[x] \in Nat
    BY RuntimeAssumption DEF TypeOK, Placed
  <2>2. CASE x = p
    <3>1. /\ IsFiniteSet(busy'[x])
          /\ Cardinality(busy'[x]) \in {Cardinality(busy[x]), Cardinality(busy[x]) + 1}
      BY <1>2, <2>1, <2>2, FS_AddElement
    <3>2. Cardinality(busy[x]) \in Nat
      BY <2>1, FS_CardinalityType
    <3> QED
      BY <2>1, <2>2, <3>1, <3>2
  <2>3. CASE x # p
    BY <1>2, <2>1, <2>3
  <2> QED
    BY <2>2, <2>3
<1> QED
  BY <1>1, <1>2, <1>3, <1>4

LEMMA SendTypes ==
  ASSUME Types, NEW r \in Route, SubmitSend(r)
  PROVE  Types'
<1> DEFINE p == r[2]
           m == held[r]
<1> USE DEF Types, cfgVars, startVars, srcVars, stopVars
<1>1. /\ p \in Pool /\ disp[r] = "submit"
      /\ disp' = [disp EXCEPT ![r] = "select"] /\ held' = [held EXCEPT ![r] = NoMsg]
      /\ UNCHANGED <<cfgVars, startVars, srcVars, stopVars, buf, buffered, handled>>
      /\ accepted' = accepted \cup {m}
      /\ \/ /\ Len(queue[p]) < Queue
            /\ queue' = [queue EXCEPT ![p] = Append(@, m)]
            /\ UNCHANGED <<busy, fetched>>
         \/ /\ Cardinality(busy[p]) < Size[p]
            /\ busy' = [busy EXCEPT ![p] = @ \cup {m}]
            /\ fetched' = [fetched EXCEPT ![p] = Append(@, m)]
            /\ UNCHANGED queue
  BY RoutesAre DEF SubmitSend, Open, DispatcherGoto
<1>2. m \in Msg
  BY <1>1 DEF TypeOK, Placed
<1> HIDE DEF p, m
<1>3. /\ disp' \in [Route -> {"none", "select", "submit", "exited"}]
      /\ held' \in [Route -> Msg \cup {NoMsg}] /\ accepted' \subseteq Msg
      /\ \A x \in Route : x # r => disp'[x] = disp[x] /\ held'[x] = held[x]
      /\ disp'[r] = "select" /\ held'[r] = NoMsg
  BY <1>1, <1>2 DEF TypeOK
<1>4. /\ queue' \in [Pool -> Seq(Msg)] /\ busy' \in [Pool -> SUBSET Msg]
      /\ fetched' \in [Pool -> Seq(Msg)]
      /\ \A x \in Pool : /\ Len(queue'[x]) <= Queue
                         /\ IsFiniteSet(busy'[x]) /\ Cardinality(busy'[x]) <= Size[x]
  <2>1. CASE UNCHANGED <<busy, fetched>> /\ Len(queue[p]) < Queue
             /\ queue' = [queue EXCEPT ![p] = Append(@, m)]
    <3>1. /\ Append(queue[p], m) \in Seq(Msg) /\ Len(Append(queue[p], m)) = Len(queue[p]) + 1
          /\ Len(queue[p]) \in Nat
      BY <1>1, <1>2, Appended, LenProperties DEF TypeOK
    <3>2. Len(Append(queue[p], m)) <= Queue
      BY <2>1, <3>1, RuntimeAssumption
    <3>3. /\ queue' \in [Pool -> Seq(Msg)]
          /\ \A x \in Pool : queue'[x] = IF x = p THEN Append(queue[p], m) ELSE queue[x]
      BY <1>1, <2>1, <3>1 DEF TypeOK
    <3> QED
      BY <2>1, <3>2, <3>3 DEF TypeOK, Placed
  <2>2. CASE UNCHANGED queue /\ Cardinality(busy[p]) < Size[p]
             /\ busy' = [busy EXCEPT ![p] = @ \cup {m}]
             /\ fetched' = [fetched EXCEPT ![p] = Append(@, m)]
    <3>1. /\ busy' \in [Pool -> SUBSET Msg] /\ fetched' \in [Pool -> Seq(Msg)]
          /\ \A x \in Pool : IsFiniteSet(busy'[x]) /\ Cardinality(busy'[x]) <= Size[x]
      BY <1>1, <1>2, <2>2, FetchTypes
    <3> QED
      BY <2>2, <3>1 DEF TypeOK
  <2> QED
    BY <1>1, <2>1, <2>2
<1>5. TypeOK'
  BY <1>1, <1>3, <1>4 DEF TypeOK
<1>6. Placed'
  <2>1. \A x \in Route : disp[x] # "none" => disp'[x] # "none"
    BY <1>1, <1>3
  <2>2. \A x \in Source : src[x] = "try" => <<x, dest[x]>> \in Route
    BY RoutesAre DEF Placed
  <2>3. \A x \in Source : src[x] = "try" => dest[x] \in Pool /\ disp'[<<x, dest[x]>>] # "none"
    BY <2>1, <2>2 DEF Placed
  <2>4. \A x \in Route :
           /\ disp'[x] = "submit" <=> held'[x] # NoMsg
           /\ disp'[x] = "none" => buf[x] = <<>>
           /\ held'[x] # NoMsg => held'[x][1] = x[1]
    BY <1>3 DEF Placed
  <2> QED
    BY <1>1, <1>4, <2>3, <2>4 DEF Placed
<1>7. StartedOnce'
  BY <1>1 DEF StartedOnce
<1> QED
  BY <1>5, <1>6, <1>7

LEMMA DispatcherTypes ==
  ASSUME Types, NEW r \in Route, DispatcherStep(r)
  PROVE  Types'
<1> USE DEF Types, DispatcherGoto, cfgVars, startVars, srcVars, dispVars, poolVars, stopVars
<1>1. CASE SubmitSend(r)
  BY <1>1, SendTypes
<1>2. CASE DispatcherTake(r) \/ DispatcherExit(r) \/ SubmitError(r)
  <2> USE <1>2 DEF DispatcherTake, DispatcherExit, SubmitError, BufferAfterError
  <2>1. /\ UNCHANGED <<cfgVars, startVars, srcVars, poolVars, stopVars, buffered>>
        /\ disp[r] # "none"
        /\ \/ /\ buf[r] # <<>> /\ disp' = [disp EXCEPT ![r] = "submit"]
              /\ held' = [held EXCEPT ![r] = Head(buf[r])]
              /\ buf' = [buf EXCEPT ![r] = Tail(@)]
           \/ /\ disp' = [disp EXCEPT ![r] = "exited"] \/ disp' = [disp EXCEPT ![r] = "select"]
              /\ held' = [held EXCEPT ![r] = NoMsg] /\ UNCHANGED buf
    OBVIOUS
  <2> HIDE <1>2 DEF DispatcherTake, DispatcherExit, SubmitError, DispatcherGoto
  <2>2. buf[r] # <<>> =>
          /\ Head(buf[r]) \in Msg /\ Tail(buf[r]) \in Seq(Msg) /\ Len(buf[r]) \in Nat
          /\ Len(Tail(buf[r])) = Len(buf[r]) - 1
          /\ Elements(buf[r]) = Elements(Tail(buf[r])) \cup {Head(buf[r])}
    BY Removed DEF TypeOK
  <2>3. \A x \in Route : x # r => disp'[x] = disp[x] /\ held'[x] = held[x] /\ buf'[x] = buf[x]
    BY <2>1 DEF TypeOK
  <2>4. \/ /\ buf[r] # <<>> /\ disp'[r] = "submit"
           /\ held'[r] = Head(buf[r]) /\ buf'[r] = Tail(buf[r])
        \/ disp'[r] \in {"exited", "select"} /\ held'[r] = NoMsg /\ buf'[r] = buf[r]
    BY <2>1 DEF TypeOK
  <2>5. /\ disp' \in [Route -> {"none", "select", "submit", "exited"}]
        /\ held' \in [Route -> Msg \cup {NoMsg}] /\ buf' \in [Route -> Seq(Msg)]
    <3>1. disp' \in [Route -> {"none", "select", "submit", "exited"}]
      BY <2>1 DEF TypeOK
    <3>2. held' \in [Route -> Msg \cup {NoMsg}]
      BY <2>1, <2>2 DEF TypeOK
    <3>3. buf' \in [Route -> Seq(Msg)]
      BY <2>1, <2>2, ZenonT(30) DEF TypeOK
    <3> QED
      BY <3>1, <3>2, <3>3
  <2>6. Len(buf'[r]) <= Buffer
    BY <2>2, <2>4, RuntimeAssumption DEF TypeOK
  <2>7. TypeOK'
    BY <2>1, <2>3, <2>5, <2>6 DEF TypeOK
  <2>8. \A x \in Route : disp[x] # "none" <=> disp'[x] # "none"
    BY <2>1, <2>3, <2>4
  <2>9. \A x \in Source : src[x] = "try" => dest[x] \in Pool /\ disp'[<<x, dest[x]>>] # "none"
    BY <2>8, RoutesAre DEF Placed
  <2>10. /\ disp'[r] = "submit" <=> held'[r] # NoMsg
         /\ held'[r] # NoMsg => held'[r][1] = r[1]
         /\ \A o \in Elements(buf'[r]) : o[1] = r[1]
    <3>1. \A o \in Elements(buf[r]) : o[1] = r[1]
      BY DEF Placed, Elements
    <3> QED
      BY <2>2, <2>4, <3>1, Messages
  <2>11. Placed'
    <3>1. \A x \in Route :
            /\ disp'[x] = "submit" <=> held'[x] # NoMsg
            /\ disp'[x] = "none" => buf'[x] = <<>>
            /\ held'[x] # NoMsg => held'[x][1] = x[1]
            /\ \A i \in DOMAIN buf'[x] : buf'[x][i][1] = x[1]
      <4> TAKE x \in Route
      <4>1. CASE x = r
        BY <2>1, <2>8, <2>10, <4>1 DEF Elements
      <4>2. CASE x # r
        BY <2>3, <4>2 DEF Placed
      <4> QED
        BY <4>1, <4>2
    <3> QED
      BY <2>1, <2>9, <3>1 DEF Placed
  <2>12. StartedOnce'
    BY <2>1 DEF StartedOnce
  <2> QED
    BY <2>7, <2>11, <2>12
<1> QED
  BY <1>1, <1>2 DEF DispatcherStep

LEMMA PoolTypes ==
  ASSUME Types, NEW p \in Pool, Fetch(p) \/ \E m \in Msg : Finish(p, m)
  PROVE  Types'
<1> USE DEF Types, cfgVars, startVars, srcVars, dispVars, stopVars
<1>1. CASE Fetch(p)
  <2> DEFINE m == Head(queue[p])
  <2>1. /\ queue[p] # <<>> /\ Cardinality(busy[p]) < Size[p]
        /\ busy' = [busy EXCEPT ![p] = @ \cup {m}]
        /\ fetched' = [fetched EXCEPT ![p] = Append(@, m)]
        /\ queue' = [queue EXCEPT ![p] = Tail(@)]
        /\ UNCHANGED <<accepted, handled, cfgVars, startVars, srcVars, dispVars, stopVars>>
    BY <1>1 DEF Fetch
  <2>2. m \in Msg /\ Tail(queue[p]) \in Seq(Msg) /\ Len(queue[p]) \in Nat
        /\ Len(Tail(queue[p])) = Len(queue[p]) - 1
    BY <2>1, Removed DEF TypeOK
  <2> HIDE DEF m
  <2>3. /\ busy' \in [Pool -> SUBSET Msg] /\ fetched' \in [Pool -> Seq(Msg)]
        /\ \A x \in Pool : IsFiniteSet(busy'[x]) /\ Cardinality(busy'[x]) <= Size[x]
    BY <2>1, <2>2, FetchTypes
  <2>4. queue' \in [Pool -> Seq(Msg)] /\ \A x \in Pool : Len(queue'[x]) <= Queue
    <3>1. /\ queue' \in [Pool -> Seq(Msg)]
          /\ \A x \in Pool : queue'[x] = IF x = p THEN Tail(queue[p]) ELSE queue[x]
      BY <2>1, <2>2 DEF TypeOK
    <3>2. Len(Tail(queue[p])) <= Queue
      BY <2>2, RuntimeAssumption DEF TypeOK
    <3> QED
      BY <3>1, <3>2 DEF TypeOK
  <2>5. TypeOK'
    BY <2>1, <2>3, <2>4 DEF TypeOK
  <2>6. Placed' /\ StartedOnce'
    BY <2>1, <2>3, ZenonT(30) DEF Placed, StartedOnce
  <2> QED
    BY <2>5, <2>6
<1>2. ASSUME NEW m \in Msg, Finish(p, m) PROVE Types'
  <2>1. /\ m \in busy[p] /\ busy' = [busy EXCEPT ![p] = @ \ {m}]
        /\ handled' = handled \cup {m}
        /\ UNCHANGED <<queue, fetched, accepted, cfgVars, startVars, srcVars, dispVars, stopVars>>
    BY <1>2 DEF Finish
  <2>2. /\ busy' \in [Pool -> SUBSET Msg]
        /\ \A x \in Pool : busy'[x] = IF x = p THEN busy[x] \ {m} ELSE busy[x]
    BY <2>1 DEF TypeOK
  <2>3. ASSUME NEW x \in Pool
        PROVE  IsFiniteSet(busy'[x]) /\ Cardinality(busy'[x]) <= Size[x]
    <3>1. IsFiniteSet(busy[x]) /\ Cardinality(busy[x]) <= Size[x] /\ Size[x] \in Nat
      BY RuntimeAssumption DEF TypeOK, Placed
    <3>2. CASE x = p
      <4>1. /\ IsFiniteSet(busy'[x]) /\ Cardinality(busy'[x]) = Cardinality(busy[x]) - 1
        BY <2>1, <2>2, <3>1, <3>2, FS_RemoveElement
      <4>2. Cardinality(busy[x]) \in Nat
        BY <3>1, FS_CardinalityType
      <4> QED
        BY <3>1, <4>1, <4>2
    <3>3. CASE x # p
      BY <2>2, <3>1, <3>3
    <3> QED
      BY <3>2, <3>3
  <2>4. TypeOK'
    BY <2>1, <2>2, <2>3 DEF TypeOK
  <2>5. Placed' /\ StartedOnce'
    BY <2>1, <2>3 DEF Placed, StartedOnce
  <2> QED
    BY <2>4, <2>5
<1> QED
  BY <1>1, <1>2

LEMMA StopTypes ==
  ASSUME Types, NEW c \in Stopper, StopCall(c) \/ StopStep(c)
  PROVE  Types'
<1> USE DEF Types, StopGoto, cfgVars, srcVars, dispVars, poolVars
<1>1. /\ UNCHANGED <<start, spawning, cfgVars, srcVars, dispVars, poolVars>>
      /\ \E to \in {"sources", "snapshot", "dispatchers", "pools"} \cup StopReturns :
           stop' = [stop EXCEPT ![c] = to]
  BY DEF StopCall, StopStep, StopSources, StopSnapshot, StopDispatchers, StopPool, StopDrained,
     StopTimeout, StopReturn, StopReturns
<1>2. stop' \in [Stopper -> {"idle", "sources", "snapshot", "dispatchers", "pools"}
                            \cup StopReturns]
  BY <1>1 DEF TypeOK
<1>3. ASSUME /\ ctxDone' \in BOOLEAN /\ poolClosed' \subseteq Pool /\ early' \subseteq Stopper
             /\ todo' \in [Stopper -> SUBSET (Route \cup Pool)]
             /\ at' \in [Stopper -> Pool \cup {NoPool}]
      PROVE  TypeOK'
  BY <1>1, <1>2, <1>3 DEF TypeOK
<1>4. Placed' /\ StartedOnce'
  BY <1>1, PlacedFrame DEF StartedOnce
<1>5. /\ ctxDone' \in BOOLEAN /\ poolClosed' \subseteq Pool /\ early' \subseteq Stopper
      /\ todo' \in [Stopper -> SUBSET (Route \cup Pool)]
      /\ at' \in [Stopper -> Pool \cup {NoPool}]
  <2>1. CASE StopCall(c) \/ StopSources(c) \/ StopReturn(c)
    <3>1. /\ ctxDone \in BOOLEAN /\ poolClosed \subseteq Pool /\ early \subseteq Stopper
          /\ todo \in [Stopper -> SUBSET (Route \cup Pool)]
          /\ at \in [Stopper -> Pool \cup {NoPool}]
      BY DEF TypeOK
    <3>2. CASE StopCall(c)
      BY <3>1, <3>2 DEF StopCall
    <3>3. CASE StopSources(c)
      BY <3>1, <3>3 DEF StopSources
    <3>4. CASE StopReturn(c)
      BY <3>1, <3>4 DEF StopReturn
    <3> QED
      BY <2>1, <3>2, <3>3, <3>4
  <2>2. CASE StopSnapshot(c)
    BY <2>2 DEF TypeOK, StopSnapshot
  <2>3. CASE StopDispatchers(c)
    BY <2>3 DEF TypeOK, StopDispatchers
  <2>4. CASE \E p \in Pool : StopPool(c, p)
    BY <2>4 DEF TypeOK, StopPool
  <2>5. CASE StopDrained(c) \/ StopTimeout(c)
    <3>1. /\ UNCHANGED <<ctxDone, poolClosed, early>> /\ at' = [at EXCEPT ![c] = NoPool]
          /\ \E T \in SUBSET todo[c] : todo' = [todo EXCEPT ![c] = T]
      BY <2>5 DEF StopDrained, StopTimeout
    <3>2. todo' \in [Stopper -> SUBSET (Route \cup Pool)]
      BY <3>1 DEF TypeOK
    <3>3. at' \in [Stopper -> Pool \cup {NoPool}]
      BY <3>1 DEF TypeOK
    <3> QED
      BY <3>1, <3>2, <3>3 DEF TypeOK
  <2> QED
    BY <2>1, <2>2, <2>3, <2>4, <2>5 DEF StopStep
<1> QED
  BY <1>3, <1>4, <1>5

LEMMA InitTypes == Init => Types
<1> SUFFICES ASSUME Init PROVE Types
  OBVIOUS
<1> USE DEF Init
<1>1. /\ <<>> \in Seq(Msg) /\ Len(<<>>) = 0 /\ DOMAIN <<>> = {}
      /\ IsFiniteSet({}) /\ Cardinality({}) = 0
  BY EmptySeq, FS_EmptySet
<1>2. TypeOK
  <2>1. /\ \A r \in Route : Len(buf[r]) <= Buffer
        /\ \A p \in Pool : Len(queue[p]) <= Queue /\ Cardinality(busy[p]) <= Size[p]
    BY <1>1, RuntimeAssumption
  <2>2. /\ registered \subseteq Item /\ replaced \subseteq Item
        /\ pending \subseteq Item /\ Cardinality(pending) <= 1
    BY <1>1, RuntimeAssumption
  <2>3. /\ src \in [Source -> {"none", "config", "recv", "route", "try", "exited"}]
        /\ received \in [Source -> Nat] /\ dest \in [Source -> Pool \cup {NoPool}]
    OBVIOUS
  <2>4. /\ disp \in [Route -> {"none", "select", "submit", "exited"}]
        /\ buf \in [Route -> Seq(Msg)] /\ held \in [Route -> Msg \cup {NoMsg}]
    BY <1>1
  <2>5. /\ queue \in [Pool -> Seq(Msg)] /\ busy \in [Pool -> SUBSET Msg]
        /\ fetched \in [Pool -> Seq(Msg)]
    BY <1>1
  <2>6. /\ stop \in [Stopper -> {"idle", "sources", "snapshot", "dispatchers", "pools"}
                                \cup StopReturns]
        /\ todo \in [Stopper -> SUBSET (Route \cup Pool)]
        /\ at \in [Stopper -> Pool \cup {NoPool}]
    OBVIOUS
  <2> QED
    BY <2>1, <2>2, <2>3, <2>4, <2>5, <2>6 DEF TypeOK
<1>3. Placed
  <2>1. \A s \in Source : received[s] <= Msgs[s] /\ src[s] = "none"
    BY RuntimeAssumption
  <2>2. \A p \in Pool : busy[p] = {}
    OBVIOUS
  <2>3. \A r \in Route : disp[r] = "none" /\ held[r] = NoMsg /\ buf[r] = <<>>
    OBVIOUS
  <2> QED
    BY <1>1, <2>1, <2>2, <2>3 DEF Placed
<1> QED
  BY <1>2, <1>3 DEF Types, StartedOnce

LEMMA TypesKept == Types /\ [Next]_vars => Types'
<1> SUFFICES ASSUME Types, [Next]_vars PROVE Types'
  OBVIOUS
<1>1. CASE (\E x \in Later : Register(x)) \/ WriterGoes \/ UNCHANGED vars
  BY <1>1, ConfigTypes
<1>2. CASE StartCall \/ StartStep \/ CancelStart
  BY <1>2, StartTypes
<1>3. CASE \E s \in Source : Recv(s) \/ RecvError(s) \/ Forward(s)
  BY <1>3, SourceTypes
<1>4. CASE \E r \in Route : DispatcherStep(r)
  BY <1>4, DispatcherTypes
<1>5. CASE \E p \in Pool : Fetch(p) \/ \E m \in Msg : Finish(p, m)
  BY <1>5, PoolTypes
<1>6. CASE \E c \in Stopper : StopCall(c) \/ StopStep(c)
  BY <1>6, StopTypes
<1> QED
  BY <1>1, <1>2, <1>3, <1>4, <1>5, <1>6 DEF Next

-----------------------------------------------------------------------------
(* Stop *)

(* Stop's calls do not move, and what leaves the maps is replaced.         *)
LEMMA StoppingFrame ==
  ASSUME Stopping, UNCHANGED stopVars, ctxDone => ctxDone',
         replaced \subseteq replaced', registered \subseteq registered' \cup replaced',
         early = {} => StopWaits'
  PROVE  Stopping'
BY DEF Stopping, Lasting, StopEnds, Called, PastDisps, stopVars

LEMMA OthersStop ==
  ASSUME Types, Stopping,
         \/ (\E x \in Later : Register(x)) \/ WriterGoes \/ UNCHANGED vars
         \/ StartCall \/ StartStep \/ CancelStart
  PROVE  Stopping'
<1> USE DEF cfgVars, startVars, srcVars, dispVars, poolVars, stopVars
<1>1. /\ UNCHANGED <<dispVars, poolVars, stopVars>>
      /\ replaced \subseteq replaced' /\ registered \subseteq registered' \cup replaced'
      /\ ctxDone => ctxDone'
      /\ start \in {"wait", "returned"} => start' \in {"wait", "returned"} /\ UNCHANGED src
  <2>1. CASE (\E x \in Later : Register(x)) \/ WriterGoes
    BY <2>1, ConfigChanges DEF Types
  <2>2. CASE UNCHANGED vars
    BY <2>2 DEF vars
  <2>3. CASE StartCall \/ StartStep \/ CancelStart
    BY <2>3 DEF StartCall, StartStep, CancelStart, StartLoop, StartSource, StartWait, StartReturn,
       StartGoto
  <2> QED
    BY <2>1, <2>2, <2>3
<1>2. ASSUME early = {} PROVE StopWaits'
  <2> SUFFICES ASSUME NEW c \in Stopper
               PROVE  /\ Called(c) => start' \in {"wait", "returned"}
                      /\ PastSources(c) => SourcesGone'
                      /\ stop[c] = "dispatchers" => todo[c] = {r \in Route : disp[r] # "none"}
                      /\ PastDisps(c) => Quiet'
                      /\ stop[c] \in {"pools", "ok"} =>
                           \A p \in Lasting' : p \in todo[c] \/ Drained(p)
                      /\ stop[c] = "ok" => todo[c] = {}
    BY <1>1 DEF StopWaits, Called, PastSources, PastDisps, Drained
  <2>1. CASE ~Called(c)
    BY <2>1 DEF Called, PastSources, PastDisps
  <2>2. CASE Called(c)
    <3>1. start \in {"wait", "returned"}
      BY <1>2, <2>2 DEF Stopping, StopWaits
    <3>2. start' \in {"wait", "returned"} /\ UNCHANGED <<src, disp>>
      BY <1>1, <3>1
    <3>3. (SourcesGone' <=> SourcesGone) /\ (Quiet' <=> Quiet)
      BY <3>2 DEF SourcesGone, Quiet
    <3>4. Lasting' \subseteq Lasting
      BY <1>1 DEF Lasting
    <3> QED
      BY <1>2, <3>2, <3>3, <3>4 DEF Stopping, StopWaits
  <2> QED
    BY <2>1, <2>2
<1> QED
  BY <1>1, <1>2, StoppingFrame

LEMMA SourcesStop ==
  ASSUME Types, Stopping, NEW s \in Source, Recv(s) \/ RecvError(s) \/ Forward(s)
  PROVE  Stopping'
<1> USE DEF cfgVars, startVars, stopVars
<1>1. UNCHANGED <<cfgVars, startVars, poolVars, stopVars>> /\ src[s] \notin {"none", "exited"}
  BY DEF Recv, RecvError, Forward, Configure, NoRoute, RouteTo, TrySubmit, SourceGoto
<1>2. ASSUME early = {} PROVE StopWaits'
  <2>1. ~SourcesGone
    BY <1>1 DEF SourcesGone
  <2>2. \A c \in Stopper : ~PastSources(c) /\ (Called(c) => start \in {"wait", "returned"})
    BY <1>2, <2>1 DEF Stopping, StopWaits
  <2> QED
    BY <1>1, <2>2 DEF StopWaits, PastSources, PastDisps, Called
<1>3. UNCHANGED <<stopVars, ctxDone, registered, replaced>>
  BY <1>1
<1> QED
  BY <1>2, <1>3, StoppingFrame

LEMMA DispatchersStop ==
  ASSUME Types, Stopping, NEW r \in Route, DispatcherStep(r)
  PROVE  Stopping'
<1> USE DEF cfgVars, startVars, srcVars, stopVars
<1>1. /\ UNCHANGED <<cfgVars, startVars, srcVars, stopVars>>
      /\ disp[r] \in {"select", "submit"}
      /\ \E to \in {"select", "submit", "exited"} : disp' = [disp EXCEPT ![r] = to]
  BY DEF DispatcherStep, DispatcherTake, DispatcherExit, SubmitSend, SubmitError, DispatcherGoto
<1>2. \A x \in Route : disp'[x] # "none" <=> disp[x] # "none"
  BY <1>1 DEF Types, TypeOK
<1>3. ASSUME early = {} PROVE StopWaits'
  <2>1. ~Quiet
    BY <1>1 DEF Quiet
  <2>2. \A c \in Stopper : ~PastDisps(c)
    BY <1>3, <2>1 DEF Stopping, StopWaits
  <2>3. {x \in Route : disp'[x] # "none"} = {x \in Route : disp[x] # "none"}
    BY <1>2
  <2> SUFFICES ASSUME NEW c \in Stopper
               PROVE  /\ Called(c) => start \in {"wait", "returned"}
                      /\ PastSources(c) => SourcesGone'
                      /\ stop[c] = "dispatchers" => todo[c] = {x \in Route : disp'[x] # "none"}
    BY <1>1, <2>2 DEF StopWaits, Called, PastSources, PastDisps
  <2>4. SourcesGone' <=> SourcesGone
    BY <1>1 DEF SourcesGone
  <2> QED
    BY <1>3, <2>3, <2>4 DEF Stopping, StopWaits
<1> QED
  BY <1>1, <1>3, StoppingFrame

LEMMA PoolsStop ==
  ASSUME Types, Stopping, NEW p \in Pool, Fetch(p) \/ \E m \in Msg : Finish(p, m)
  PROVE  Stopping'
<1> USE DEF cfgVars, startVars, srcVars, dispVars, stopVars
<1>1. /\ UNCHANGED <<cfgVars, startVars, srcVars, dispVars, stopVars>>
      /\ ~Drained(p)
      /\ \A x \in Pool \ {p} : queue'[x] = queue[x] /\ busy'[x] = busy[x]
  BY DEF Fetch, Finish, Drained, Types, TypeOK
<1>2. \A x \in Pool : Drained(x) => Drained(x)'
  BY <1>1 DEF Drained
<1>3. ASSUME early = {} PROVE StopWaits'
  <2>1. (SourcesGone' <=> SourcesGone) /\ (Quiet' <=> Quiet)
    BY <1>1 DEF SourcesGone, Quiet
  <2> SUFFICES ASSUME NEW c \in Stopper
               PROVE  /\ Called(c) => start \in {"wait", "returned"}
                      /\ PastSources(c) => SourcesGone
                      /\ stop[c] = "dispatchers" => todo[c] = {r \in Route : disp[r] # "none"}
                      /\ PastDisps(c) => Quiet
                      /\ stop[c] \in {"pools", "ok"} =>
                           \A x \in Lasting : x \in todo[c] \/ Drained(x)'
                      /\ stop[c] = "ok" => todo[c] = {}
    BY <1>1, <2>1 DEF StopWaits, Called, PastSources, PastDisps, Lasting
  <2> QED
    BY <1>2, <1>3 DEF Stopping, StopWaits, Lasting
<1> QED
  BY <1>1, <1>3, StoppingFrame

(* A call ends the runtime's context; one made while Start is starting the *)
(* sources is early.                                                       *)
LEMMA CallStops ==
  ASSUME Types, Stopping, NEW c \in Stopper, StopCall(c)
  PROVE  Stopping'
<1> USE DEF cfgVars, srcVars, dispVars, poolVars
<1>1. /\ UNCHANGED <<start, cfgVars, srcVars, dispVars, poolVars, todo, at, poolClosed>>
      /\ stop[c] = "idle"
      /\ \/ start = "idle" /\ stop' = [stop EXCEPT ![c] = "notStarted"] /\ UNCHANGED <<ctxDone, early>>
         \/ /\ start # "idle" /\ stop' = [stop EXCEPT ![c] = "sources"] /\ ctxDone'
            /\ early' = IF start \in {"unlocked", "spawn"} THEN early \cup {c} ELSE early
  BY DEF StopCall, StopGoto
<1>2. /\ \A d \in Stopper \ {c} : stop'[d] = stop[d]
      /\ stop'[c] \in {"notStarted", "sources"}
      /\ stop'[c] = "sources" => ctxDone' /\ (early' = {} => start \in {"wait", "returned"})
      /\ ctxDone => ctxDone'
      /\ early' = {} => early = {}
  BY <1>1 DEF Types, TypeOK
<1>3. \A d \in Stopper : PastDisps(d)' <=> PastDisps(d)
  BY <1>1, <1>2 DEF PastDisps
<1>4. StopEnds'
  BY <1>1, <1>2 DEF Stopping, StopEnds, Called
<1>5. ASSUME early' = {} PROVE StopWaits'
  <2>1. StopWaits
    BY <1>2, <1>5 DEF Stopping
  <2>2. (SourcesGone' <=> SourcesGone) /\ (Quiet' <=> Quiet)
        /\ \A p \in Pool : Drained(p)' <=> Drained(p)
    BY <1>1 DEF SourcesGone, Quiet, Drained
  <2> SUFFICES ASSUME NEW d \in Stopper
               PROVE  /\ Called(d)' => start \in {"wait", "returned"}
                      /\ PastSources(d)' => SourcesGone
                      /\ stop'[d] = "dispatchers" => todo[d] = {r \in Route : disp[r] # "none"}
                      /\ PastDisps(d)' => Quiet
                      /\ stop'[d] \in {"pools", "ok"} =>
                           \A p \in Lasting : p \in todo[d] \/ Drained(p)
                      /\ stop'[d] = "ok" => todo[d] = {}
    BY <1>1, <2>2 DEF StopWaits, Lasting
  <2>3. CASE d = c
    BY <1>2, <1>5, <2>3 DEF Called, PastSources, PastDisps
  <2>4. CASE d # c
    BY <1>2, <2>1, <2>4 DEF StopWaits, Called, PastSources, PastDisps
  <2> QED
    BY <2>3, <2>4
<1> QED
  BY <1>1, <1>3, <1>4, <1>5 DEF Stopping, Lasting

(* Each step of Stop finds what it waits for.                              *)
LEMMA StepStops ==
  ASSUME Types, Stopping, NEW c \in Stopper, StopStep(c)
  PROVE  Stopping'
<1> USE DEF cfgVars, srcVars, dispVars, poolVars
<1>1. /\ UNCHANGED <<start, cfgVars, srcVars, dispVars, poolVars, ctxDone, early>>
      /\ Called(c)
      /\ \A d \in Stopper \ {c} : stop'[d] = stop[d] /\ todo'[d] = todo[d]
      /\ stop'[c] \in {"snapshot", "dispatchers", "pools", "ok", "err"}
  BY DEF StopStep, StopSources, StopSnapshot, StopDispatchers, StopPool, StopDrained,
     StopTimeout, StopReturn, StopGoto, Called, Types, TypeOK
<1>2. (SourcesGone' <=> SourcesGone) /\ (Quiet' <=> Quiet)
      /\ \A p \in Pool : Drained(p)' <=> Drained(p)
  BY <1>1 DEF SourcesGone, Quiet, Drained
<1>3. /\ PastDisps(c) => PastDisps(c)'
      /\ poolClosed' # poolClosed => PastDisps(c)'
  BY DEF StopStep, StopSources, StopSnapshot, StopDispatchers, StopPool, StopDrained,
     StopTimeout, StopReturn, StopGoto, PastDisps, Types, TypeOK
<1>4. poolClosed' # {} => \E d \in Stopper : PastDisps(d)'
  BY <1>1, <1>3 DEF Stopping, PastDisps
<1>5. StopEnds'
  BY <1>1 DEF Stopping, StopEnds, Called
<1>6. ASSUME early = {} PROVE StopWaits'
  <2>1. StopWaits
    BY <1>6 DEF Stopping
  <2>2. start \in {"wait", "returned"} /\ (stop[c] # "sources" => SourcesGone)
    BY <1>1, <2>1 DEF StopWaits, Called, PastSources
  <2> SUFFICES /\ SourcesGone
               /\ stop'[c] = "dispatchers" => todo'[c] = {r \in Route : disp[r] # "none"}
               /\ PastDisps(c)' => Quiet
               /\ stop'[c] \in {"pools", "ok"} =>
                    \A p \in Lasting : p \in todo'[c] \/ Drained(p)
               /\ stop'[c] = "ok" => todo'[c] = {}
    <3>1. ASSUME NEW d \in Stopper, d # c
          PROVE  /\ PastSources(d)' => SourcesGone
                 /\ stop'[d] = "dispatchers" => todo'[d] = {r \in Route : disp[r] # "none"}
                 /\ PastDisps(d)' => Quiet
                 /\ stop'[d] \in {"pools", "ok"} =>
                      \A p \in Lasting : p \in todo'[d] \/ Drained(p)
                 /\ stop'[d] = "ok" => todo'[d] = {}
      BY <1>1, <2>1, <3>1 DEF StopWaits, Called, PastSources, PastDisps
    <3> QED
      BY <1>1, <1>2, <2>2, <3>1 DEF StopWaits, Lasting
  <2>3. CASE StopSources(c)
    BY <2>3 DEF StopSources, StopGoto, PastDisps, Types, TypeOK
  <2>4. CASE StopSnapshot(c)
    BY <2>2, <2>4 DEF StopSnapshot, StopGoto, PastDisps, Types, TypeOK
  <2>5. CASE StopDispatchers(c)
    <3>1. /\ stop[c] = "dispatchers" /\ stop'[c] = "pools" /\ todo'[c] = registered \cap Pool
          /\ \A r \in todo[c] : disp[r] = "exited"
      BY <2>5 DEF StopDispatchers, StopGoto, Types, TypeOK
    <3>2. Quiet
      BY <2>1, <2>2, <3>1 DEF StopWaits, Quiet, SourcesGone
    <3> QED
      BY <2>2, <3>1, <3>2 DEF Stopping, Lasting
  <2>6. CASE \E p \in Pool : StopPool(c, p)
    <3>1. stop[c] = "pools" /\ stop'[c] = "pools" /\ todo' = todo
      BY <2>6 DEF StopPool, StopGoto, Types, TypeOK
    <3> QED
      BY <2>1, <2>2, <3>1 DEF StopWaits, PastDisps
  <2>7. CASE StopDrained(c)
    <3>1. /\ stop[c] = "pools" /\ stop'[c] = "pools" /\ todo'[c] = todo[c] \ {at[c]}
          /\ Drained(at[c])
      BY <2>7 DEF StopDrained, StopGoto, Types, TypeOK
    <3> QED
      BY <2>1, <2>2, <3>1 DEF StopWaits, PastDisps
  <2>8. CASE StopTimeout(c)
    <3>1. stop[c] = "pools" /\ stop'[c] = "err"
      BY <2>8 DEF StopTimeout, StopGoto, Types, TypeOK
    <3> QED
      BY <2>1, <2>2, <3>1 DEF StopWaits, PastDisps
  <2>9. CASE StopReturn(c)
    <3>1. stop[c] = "pools" /\ stop'[c] = "ok" /\ todo[c] = {} /\ todo' = todo
      BY <2>9 DEF StopReturn, StopGoto, Types, TypeOK
    <3> QED
      BY <2>1, <2>2, <3>1 DEF StopWaits, PastDisps
  <2> QED
    BY <2>3, <2>4, <2>5, <2>6, <2>7, <2>8, <2>9 DEF StopStep
<1> QED
  BY <1>1, <1>4, <1>5, <1>6 DEF Stopping, Lasting

LEMMA StoppingKept == Types /\ Stopping /\ [Next]_vars => Stopping'
<1> SUFFICES ASSUME Types, Stopping, [Next]_vars PROVE Stopping'
  OBVIOUS
<1>1. CASE \/ (\E x \in Later : Register(x)) \/ WriterGoes \/ UNCHANGED vars
           \/ StartCall \/ StartStep \/ CancelStart
  BY <1>1, OthersStop
<1>2. CASE \E s \in Source : Recv(s) \/ RecvError(s) \/ Forward(s)
  BY <1>2, SourcesStop
<1>3. CASE \E r \in Route : DispatcherStep(r)
  BY <1>3, DispatchersStop
<1>4. CASE \E p \in Pool : Fetch(p) \/ \E m \in Msg : Finish(p, m)
  BY <1>4, PoolsStop
<1>5. CASE \E c \in Stopper : StopCall(c) \/ StopStep(c)
  BY <1>5, CallStops, StepStops
<1> QED
  BY <1>1, <1>2, <1>3, <1>4, <1>5 DEF Next

LEMMA InitStops == Init => Stopping
BY DEF Init, Stopping, StopEnds, StopWaits, Called, PastSources, PastDisps, Lasting

-----------------------------------------------------------------------------
(* The order of the messages *)

LEMMA Numbers ==
  /\ \A k \in Station : k \in Nat /\ (k = 1 \/ k = 2 \/ k = 3 \/ k = 4)
  /\ 1 \in Station /\ 2 \in Station /\ 3 \in Station /\ 4 \in Station
BY DEF Station

LEMMA StationFetched ==
  ASSUME NEW m, NEW p
  PROVE  /\ Here(m, 1, p) <=> m \in Elements(fetched[p])
         /\ Here(m, 1, p)' <=> m \in Elements(fetched'[p])
BY DEF Here

LEMMA StationQueue ==
  ASSUME NEW m, NEW p
  PROVE  /\ Here(m, 2, p) <=> m \in Elements(queue[p])
         /\ Here(m, 2, p)' <=> m \in Elements(queue'[p])
BY DEF Here

LEMMA StationHand ==
  ASSUME NEW m, NEW p
  PROVE  /\ Here(m, 3, p) <=> held[<<m[1], p>>] = m
         /\ Here(m, 3, p)' <=> held'[<<m[1], p>>] = m
BY DEF Here

LEMMA StationBuffer ==
  ASSUME NEW m, NEW p
  PROVE  /\ Here(m, 4, p) <=> m \in Elements(buf[<<m[1], p>>])
         /\ Here(m, 4, p)' <=> m \in Elements(buf'[<<m[1], p>>])
BY DEF Here

LEMMA Stations ==
  ASSUME NEW m, NEW p
  PROVE  /\ Here(m, 1, p) <=> m \in Elements(fetched[p])
         /\ Here(m, 2, p) <=> m \in Elements(queue[p])
         /\ Here(m, 3, p) <=> held[<<m[1], p>>] = m
         /\ Here(m, 4, p) <=> m \in Elements(buf[<<m[1], p>>])
         /\ Here(m, 1, p)' <=> m \in Elements(fetched'[p])
         /\ Here(m, 2, p)' <=> m \in Elements(queue'[p])
         /\ Here(m, 3, p)' <=> held'[<<m[1], p>>] = m
         /\ Here(m, 4, p)' <=> m \in Elements(buf'[<<m[1], p>>])
BY DEF Here

LEMMA BehindIs ==
  ASSUME Types, NEW s \in Source
  PROVE  Behind(s) \in Nat /\ Behind(s) <= received[s] /\ received[s] \in Nat
<1>1. received[s] \in Nat /\ (src[s] \in {"route", "try"} => received[s] # 0)
  BY DEF Types, TypeOK, Placed
<1> QED
  BY <1>1 DEF Behind

LEMMA BehindNext ==
  ASSUME Types', NEW s \in Source
  PROVE  Behind(s)' \in Nat
<1>1. received'[s] \in Nat /\ (src'[s] \in {"route", "try"} => received'[s] # 0)
  BY DEF Types, TypeOK, Placed
<1> QED
  BY <1>1 DEF Behind

(* A message does not advance; that a dispatcher takes it out of its own   *)
(* buffer is no advance.                                                   *)
Stays(m) ==
  \A p \in Pool :
    /\ Here(m, 1, p)' <=> Here(m, 1, p)
    /\ Here(m, 2, p)' <=> Here(m, 2, p)
    /\ (Here(m, 3, p) \/ Here(m, 4, p))' <=> (Here(m, 3, p) \/ Here(m, 4, p))

(* A message that moves to a station of a pool, behind those that are      *)
(* further and before those that are not so far, breaks no order.          *)
LEMMA Enters ==
  ASSUME Types, Types', Line, \A s \in Source : Behind(s) <= Behind(s)',
         NEW p0 \in Pool, NEW m0 \in Msg, NEW k0 \in Station,
         \A p \in Pool, m \in Msg, k \in Station :
           Here(m, k, p)' => Here(m, k, p) \/ (p = p0 /\ m = m0 /\ k = k0),
         \A p \in Pool, k \in Station : Here(m0, k, p) => p = p0,
         m0[2] <= Behind(m0[1])',
         \A m \in Msg, k \in Station : Here(m, k, p0)' /\ m[1] = m0[1] =>
           (k < k0 => m[2] < m0[2]) /\ (k0 < k => m0[2] < m[2])
  PROVE  Line'
<1>1. Staged'
  BY DEF Line, Staged
<1>2. OnePool'
  BY DEF Line, OnePool
<1>3. Seen'
  <2> SUFFICES ASSUME NEW p \in Pool, NEW m \in Msg, NEW k \in Station, Here(m, k, p)'
               PROVE  m[2] <= Behind(m[1])'
    BY DEF Seen
  <2>1. CASE m = m0
    BY <2>1
  <2>2. CASE m # m0
    <3>1. m[2] <= Behind(m[1]) /\ m[1] \in Source /\ m[2] \in Nat
      BY <2>2, Messages DEF Line, Seen
    <3>2. Behind(m[1]) \in Nat /\ Behind(m[1]) <= Behind(m[1])'
      BY <3>1, BehindIs
    <3>3. Behind(m[1])' \in Nat
      BY <3>1, BehindNext
    <3> QED
      BY <3>1, <3>2, <3>3
  <2> QED
    BY <2>1, <2>2
<1> QED
  BY <1>1, <1>2, <1>3 DEF Line

(* Nor does one that is lost.                                              *)
LEMMA Leaves ==
  ASSUME Types, Types', Line, \A s \in Source : Behind(s) <= Behind(s)',
         \A p \in Pool, m \in Msg, k \in Station : Here(m, k, p)' => Here(m, k, p)
  PROVE  Line'
<1>1. Staged' /\ OnePool'
  BY DEF Line, Staged, OnePool
<1>2. Seen'
  <2> SUFFICES ASSUME NEW p \in Pool, NEW m \in Msg, NEW k \in Station, Here(m, k, p)'
               PROVE  m[2] <= Behind(m[1])'
    BY DEF Seen
  <2>1. m[2] <= Behind(m[1]) /\ m[1] \in Source /\ m[2] \in Nat
    BY Messages DEF Line, Seen
  <2>2. Behind(m[1]) \in Nat /\ Behind(m[1]) <= Behind(m[1])'
    BY <2>1, BehindIs
  <2>3. Behind(m[1])' \in Nat
    BY <2>1, BehindNext
  <2> QED
    BY <2>1, <2>2, <2>3
<1> QED
  BY <1>1, <1>2 DEF Line

(* Nothing else moves a message.                                           *)
LEMMA OrderFrame ==
  ASSUME Types, Types', Order, UNCHANGED <<buf, held, buffered, poolVars>>,
         ctxDone => ctxDone', \A s \in Source : Behind(s) <= Behind(s)'
  PROVE  Order' /\ \A m \in Msg : Stays(m)
<1> USE DEF poolVars
<1>1. \A m, k, p : Here(m, k, p)' <=> Here(m, k, p)
  BY DEF Here, Elements
<1>2. Line'
  BY <1>1, Leaves DEF Order
<1>3. Rows'
  BY DEF Order, Rows, Increasing
<1>4. Work' /\ Kept'
  BY <1>1 DEF Order, Work, Kept
<1>5. \A m \in Msg : Stays(m)
  BY <1>1 DEF Stays
<1> QED
  BY <1>2, <1>3, <1>4, <1>5 DEF Order

LEMMA OthersOrder ==
  ASSUME Types, Types', Order,
         \/ (\E x \in Later : Register(x)) \/ WriterGoes \/ UNCHANGED vars
         \/ StartCall \/ StartStep \/ CancelStart
         \/ \E c \in Stopper : StopCall(c) \/ StopStep(c)
  PROVE  Order' /\ \A m \in Msg : Stays(m)
<1> USE DEF cfgVars, startVars, srcVars, dispVars, poolVars, stopVars
<1>1. /\ UNCHANGED <<dispVars, poolVars, received>>
      /\ ctxDone => ctxDone'
      /\ \/ UNCHANGED src
         \/ \E s \in Source : src' = [src EXCEPT ![s] = "config"]
  <2>1. CASE (\E x \in Later : Register(x)) \/ WriterGoes \/ UNCHANGED vars
    BY <2>1 DEF Register, WriterGoes, vars
  <2>2. CASE StartCall \/ StartStep \/ CancelStart
    BY <2>2 DEF StartCall, StartStep, CancelStart, StartLoop, StartSource, StartWait, StartReturn,
       StartGoto
  <2>3. CASE \E c \in Stopper : StopCall(c) \/ StopStep(c)
    BY <2>3 DEF StopCall, StopStep, StopSources, StopSnapshot, StopDispatchers, StopPool,
       StopDrained, StopTimeout, StopReturn, StopGoto
  <2> QED
    BY <2>1, <2>2, <2>3
<1>2. \A x \in Source : src'[x] \in {"route", "try"} => src[x] \in {"route", "try"}
  BY <1>1 DEF Types, TypeOK
<1>3. \A x \in Source : Behind(x) <= Behind(x)'
  BY <1>1, <1>2, BehindIs DEF Behind
<1> QED
  BY <1>1, <1>3, OrderFrame

LEMMA SourcesOrder ==
  ASSUME Types, Types', Order, NEW s \in Source, Recv(s) \/ RecvError(s) \/ Forward(s)
  PROVE  /\ Order'
         /\ \/ \A m \in Msg : Stays(m)
            \/ /\ TrySubmit(s)
               /\ \E m0 \in Msg, p0 \in Pool :
                    m0 = Current(s) /\ Here(m0, 4, p0)' /\ \A m \in Msg \ {m0} : Stays(m)
<1> USE DEF SourceGoto, cfgVars, startVars, srcVars, dispVars, poolVars, stopVars
<1>1. CASE Recv(s) \/ RecvError(s) \/ Configure(s) \/ NoRoute(s)
  <2>1. /\ UNCHANGED <<dispVars, poolVars, ctxDone>>
        /\ \/ /\ src[s] = "recv" /\ src' = [src EXCEPT ![s] = "route"]
              /\ received' = [received EXCEPT ![s] = received[s] + 1]
           \/ /\ UNCHANGED received
              /\ src' = [src EXCEPT ![s] = "recv"] \/ src' = [src EXCEPT ![s] = "exited"]
    BY <1>1 DEF Recv, RecvError, Configure, NoRoute
  <2>2. \A x \in Source \ {s} : src'[x] = src[x] /\ received'[x] = received[x]
    BY <2>1 DEF Types, TypeOK
  <2>3. Behind(s) <= Behind(s)'
    <3>1. \/ src[s] = "recv" /\ src'[s] = "route" /\ received'[s] = received[s] + 1
          \/ src'[s] \in {"recv", "exited"} /\ received'[s] = received[s]
      BY <2>1 DEF Types, TypeOK
    <3> QED
      BY <3>1, BehindIs DEF Behind
  <2>4. \A x \in Source : Behind(x) <= Behind(x)'
    BY <2>2, <2>3, BehindIs DEF Behind
  <2> QED
    BY <2>1, <2>4, OrderFrame
<1>2. CASE \E p \in Pool : RouteTo(s, p)
  <2>1. PICK p \in Pool : RouteTo(s, p)
    BY <1>2
  <2> DEFINE r == <<s, p>>
  <2>2. /\ r \in Route /\ src[s] = "route" /\ src' = [src EXCEPT ![s] = "try"]
        /\ UNCHANGED <<received, buffered, poolVars, ctxDone>>
        /\ \/ /\ disp[r] = "none"
              /\ buf' = [buf EXCEPT ![r] = <<>>] /\ held' = [held EXCEPT ![r] = NoMsg]
           \/ UNCHANGED <<buf, held>>
    BY <2>1, RoutesAre DEF RouteTo, Fresh
  <2>3. disp[r] = "none" => buf[r] = <<>> /\ held[r] = NoMsg
    BY <2>2 DEF Types, Placed
  <2> HIDE DEF r
  <2>4. UNCHANGED <<buf, held>>
    <3>1. buf' = buf
      BY <2>2, <2>3 DEF Types, TypeOK
    <3>2. held' = held
      BY <2>2, <2>3 DEF Types, TypeOK
    <3> QED
      BY <3>1, <3>2
  <2>5. \A x \in Source : src'[x] \in {"route", "try"} => src[x] \in {"route", "try"}
    BY <2>2 DEF Types, TypeOK
  <2>6. \A x \in Source : Behind(x) <= Behind(x)'
    BY <2>2, <2>5, BehindIs DEF Behind
  <2> QED
    BY <2>2, <2>4, <2>6, OrderFrame
<1>3. CASE TrySubmit(s)
  <2>0. PICK p0 \in Pool, m \in Msg : p0 = dest[s] /\ m = Current(s)
    <3>1. src[s] = "try" /\ dest[s] \in Pool /\ received[s] # 0 /\ received[s] <= Msgs[s]
          /\ received[s] \in Nat
      BY <1>3 DEF TrySubmit, Types, TypeOK, Placed
    <3>2. Current(s) \in Msg
      BY <3>1, Messages DEF Current
    <3> QED
      BY <3>1, <3>2
  <2> DEFINE r == <<s, p0>>
  <2>1. /\ src[s] = "try" /\ r \in Route
        /\ m[1] = s /\ m[2] = received[s] /\ Behind(s) < m[2]
    <3>1. src[s] = "try" /\ dest[s] \in Pool /\ received[s] # 0 /\ received[s] <= Msgs[s]
          /\ received[s] \in Nat
      BY <1>3 DEF TrySubmit, Types, TypeOK, Placed
    <3>2. Behind(s) < received[s]
      BY <3>1 DEF Behind
    <3> QED
      BY <2>0, <3>1, <3>2, RoutesAre DEF Current
  <2>2. /\ UNCHANGED <<poolVars, received, held, ctxDone>>
        /\ src' = [src EXCEPT ![s] = "recv"]
        /\ \/ buf' = [buf EXCEPT ![r] = Append(buf[r], m)] /\ buffered' = buffered \cup {m}
           \/ UNCHANGED <<buf, buffered>>
    BY <1>3, <2>0 DEF TrySubmit, Room
  <2>3. /\ src'[s] = "recv" /\ Behind(s)' = m[2]
        /\ \A x \in Source : Behind(x) <= Behind(x)'
    <3>1. src'[s] = "recv" /\ \A x \in Source \ {s} : src'[x] = src[x]
      BY <2>2 DEF Types, TypeOK
    <3>2. Behind(s)' = m[2]
      BY <2>1, <2>2, <3>1 DEF Behind
    <3>3. \A x \in Source \ {s} : Behind(x)' = Behind(x)
      BY <2>2, <3>1 DEF Behind
    <3> QED
      BY <2>1, <3>1, <3>2, <3>3, BehindIs
  <2>4. CASE UNCHANGED <<buf, buffered>>
    BY <2>2, <2>3, <2>4, OrderFrame
  <2>5. CASE buf' = [buf EXCEPT ![r] = Append(buf[r], m)] /\ buffered' = buffered \cup {m}
    <3> HIDE DEF r
    <3>1. /\ buf[r] \in Seq(Msg)
          /\ Elements(buf'[r]) = Elements(buf[r]) \cup {m}
          /\ \A x \in Route \ {r} : buf'[x] = buf[x]
          /\ buf'[r] = Append(buf[r], m)
      BY <2>1, <2>5, Appended DEF Types, TypeOK
    <3>2. \A p \in Pool, o \in Msg : <<o[1], p>> \in Route /\ (<<o[1], p>> = r <=> o[1] = s /\ p = p0)
      BY RoutesAre, Messages DEF r
    <3>3. ASSUME NEW p \in Pool, NEW o \in Msg, NEW k \in Station
          PROVE  Here(o, k, p)' <=> Here(o, k, p) \/ (p = p0 /\ o = m /\ k = 4)
      <4>1. k # 4 => (Here(o, k, p)' <=> Here(o, k, p))
        <5>1. Here(o, 1, p)' <=> Here(o, 1, p)
          BY <2>2, Stations
        <5>2. Here(o, 2, p)' <=> Here(o, 2, p)
          BY <2>2, Stations
        <5>3. Here(o, 3, p)' <=> Here(o, 3, p)
          BY <2>2, Stations
        <5> QED
          BY <5>1, <5>2, <5>3, Numbers
      <4>2. Here(o, 4, p)' <=> Here(o, 4, p) \/ (p = p0 /\ o = m)
        <5>1. CASE <<o[1], p>> = r
          <6>1. p = p0
            BY <3>2, <5>1
          <6>2. Here(o, 4, p)' <=> o \in Elements(buf[r]) \cup {m}
            BY <3>1, <5>1, StationBuffer
          <6> QED
            BY <5>1, <6>1, <6>2, StationBuffer
        <5>2. CASE <<o[1], p>> # r
          <6>1. ~(p = p0 /\ o = m)
            BY <2>1, <3>2, <5>2
          <6>2. buf'[<<o[1], p>>] = buf[<<o[1], p>>]
            BY <3>1, <3>2, <5>2
          <6> QED
            BY <6>1, <6>2, StationBuffer
        <5> QED
          BY <5>1, <5>2
      <4> QED
        BY <4>1, <4>2
    <3>4. \A p \in Pool, k \in Station : ~Here(m, k, p)
      BY <2>1, BehindIs, Messages DEF Order, Line, Seen
    <3>5. \A o \in Msg, k \in Station : Here(o, k, p0) /\ o[1] = s => o[2] < m[2]
      BY <2>1, BehindIs, Messages DEF Order, Line, Seen
    <3>6. Line'
      <4>1. \A o \in Msg, k \in Station : Here(o, k, p0)' /\ o[1] = m[1] =>
              (k < 4 => o[2] < m[2]) /\ (4 < k => m[2] < o[2])
        BY <2>1, <3>3, <3>5, Numbers
      <4>2. m[2] <= Behind(m[1])' /\ 4 \in Station
        BY <2>1, <2>3, Numbers, Messages
      <4> QED
        BY <2>1, <2>3, <3>3, <3>4, <4>1, <4>2, Enters DEF Order
    <3>7. Rows'
      <4>1. \A o \in Elements(buf[r]) : o \in Msg /\ Here(o, 4, p0) /\ o[1] = s
        <5>1. \A i \in DOMAIN buf[r] : buf[r][i][1] = r[1]
          BY <2>1 DEF Types, Placed
        <5>2. \A i \in DOMAIN buf[r] : buf[r][i] \in Msg
          BY <3>1, ElementOfSeq, LenProperties
        <5>3. r[1] = s
          BY DEF r
        <5>4. \A o \in Elements(buf[r]) : o \in Msg /\ o[1] = s
          BY <5>1, <5>2, <5>3 DEF Elements
        <5>5. \A o \in Msg : o[1] = s => <<o[1], p0>> = r
          BY DEF r
        <5> QED
          BY <5>4, <5>5, StationBuffer
      <4>2. Increasing(buf[r]) /\ 4 \in Station
        BY <2>1, Numbers DEF Order, Rows
      <4>3. Increasing(buf'[r])
        BY <2>1, <3>1, <3>5, <4>1, <4>2, Appended
      <4> QED
        BY <2>2, <3>1, <4>3 DEF Order, Rows
    <3>8. Work'
      <4>1. \A o \in Msg, p \in Pool : Here(o, 1, p)' <=> Here(o, 1, p)
        BY <2>2, Stations
      <4> QED
        BY <2>2, <4>1 DEF Order, Work, Types, TypeOK
    <3>9. Kept'
      <4>1. \A p \in Pool, o \in Msg, k \in Station : Here(o, k, p) => Here(o, k, p)'
        BY <3>3
      <4>2. Here(m, 4, p0)'
        BY <2>1, <3>3, Numbers
      <4> QED
        BY <2>1, <2>2, <2>5, <4>1, <4>2, Numbers DEF Order, Kept, Types, TypeOK
    <3>10. ASSUME NEW o \in Msg, o # m PROVE Stays(o)
      <4>1. \A p \in Pool, k \in Station : Here(o, k, p)' <=> Here(o, k, p)
        BY <3>3, <3>10
      <4> QED
        BY <4>1, Numbers DEF Stays
    <3>11. Here(m, 4, p0)'
      BY <3>3, Numbers
    <3> QED
      BY <1>3, <2>0, <3>6, <3>7, <3>8, <3>9, <3>10, <3>11 DEF Order
  <2> QED
    BY <2>2, <2>4, <2>5
<1> QED
  BY <1>1, <1>2, <1>3 DEF Forward

(* A message advances in its pool: from station k1 to k0, ahead of what is *)
(* left between the two.                                                   *)
LEMMA Advances ==
  ASSUME Types, Types', Line, UNCHANGED srcVars,
         NEW p0 \in Pool, NEW m0 \in Msg, NEW k0 \in Station, NEW k1 \in Station, k0 < k1,
         Here(m0, k1, p0),
         \A p \in Pool, m \in Msg, k \in Station :
           Here(m, k, p)' => Here(m, k, p) \/ (p = p0 /\ m = m0 /\ k = k0),
         \A m \in Msg, k \in Station :
           (Here(m, k, p0)' /\ m[1] = m0[1] /\ k0 < k /\ k <= k1) => m0[2] < m[2]
  PROVE  /\ Line'
         /\ \A m \in Msg : Here(m, k0, p0) /\ m[1] = m0[1] => m[2] < m0[2]
<1>1. \A s \in Source : Behind(s)' = Behind(s)
  BY DEF srcVars, Behind
<1>2. /\ m0[1] \in Source /\ m0[2] <= Behind(m0[1])
      /\ \A p \in Pool, k \in Station : Here(m0, k, p) => p = p0
  BY Messages DEF Line, Seen, OnePool
<1>3. \A s \in Source : Behind(s) <= Behind(s)'
  BY <1>1, BehindIs
<1>4. ASSUME NEW m \in Msg, NEW k \in Station, Here(m, k, p0)', m[1] = m0[1]
      PROVE  (k < k0 => m[2] < m0[2]) /\ (k0 < k => m0[2] < m[2])
  <2>1. k \in Nat /\ k0 \in Nat /\ k1 \in Nat
    BY Numbers
  <2>2. k # k0 => Here(m, k, p0)
    BY <1>4
  <2>3. CASE k < k0
    <3>1. Here(m, k, p0) /\ k < k1 /\ ~(k0 < k)
      BY <2>1, <2>2, <2>3
    <3> QED
      BY <1>4, <3>1 DEF Line, Staged
  <2>4. CASE k0 < k
    <3>1. CASE k <= k1
      BY <1>4, <2>1, <2>4, <3>1
    <3>2. CASE k1 < k
      <4>1. Here(m, k, p0)
        BY <2>1, <2>2, <2>4
      <4> QED
        BY <1>4, <2>1, <2>4, <3>2, <4>1 DEF Line, Staged
    <3> QED
      BY <2>1, <3>1, <3>2
  <2> QED
    BY <2>1, <2>3, <2>4
<1>5. Line'
  BY <1>1, <1>2, <1>3, <1>4, Enters
<1> QED
  BY <1>5 DEF Line, Staged

LEMMA TakeOrder ==
  ASSUME Types, Types', Order, NEW r \in Route, DispatcherTake(r)
  PROVE  Order' /\ \A m \in Msg : Stays(m)
<1> USE DEF cfgVars, startVars, srcVars, poolVars, stopVars
<1>1. /\ disp[r] = "select" /\ buf[r] # <<>>
      /\ held' = [held EXCEPT ![r] = Head(buf[r])] /\ buf' = [buf EXCEPT ![r] = Tail(@)]
      /\ UNCHANGED <<buffered, ctxDone, srcVars, poolVars>>
  BY DEF DispatcherTake, DispatcherGoto
<1>2. PICK m \in Msg, p0 \in Pool :
        /\ m = Head(buf[r]) /\ p0 = r[2] /\ m[1] = r[1] /\ r = <<m[1], p0>>
        /\ Elements(buf[r]) = Elements(Tail(buf[r])) \cup {m}
        /\ Increasing(Tail(buf[r]))
        /\ \A o \in Elements(Tail(buf[r])) : o[1] = m[1] => m[2] < o[2]
  <2>1. buf[r] \in Seq(Msg) /\ Increasing(buf[r])
    BY DEF Types, TypeOK, Order, Rows
  <2>2. /\ Head(buf[r]) \in Msg /\ Increasing(Tail(buf[r]))
        /\ Elements(buf[r]) = Elements(Tail(buf[r])) \cup {Head(buf[r])}
        /\ \A o \in Elements(Tail(buf[r])) : o[1] = Head(buf[r])[1] => Head(buf[r])[2] < o[2]
    BY <1>1, <2>1, Removed, SMTT(30)
  <2>3. Head(buf[r])[1] = r[1]
    <3>1. \A o \in Elements(buf[r]) : o[1] = r[1]
      BY SMTT(30) DEF Types, Placed, Elements
    <3> QED
      BY <2>2, <3>1, SMTT(30)
  <2> QED
    BY <2>2, <2>3, RoutesAre
<1>3. /\ held[r] = NoMsg /\ held'[r] = m /\ buf'[r] = Tail(buf[r])
      /\ \A x \in Route \ {r} : held'[x] = held[x] /\ buf'[x] = buf[x]
  BY <1>1, <1>2 DEF Types, TypeOK, Placed
<1>4. \A p \in Pool, o \in Msg : <<o[1], p>> \in Route /\ (<<o[1], p>> = r <=> o[1] = m[1] /\ p = p0)
  BY <1>2, RoutesAre, Messages
<1>5. Here(m, 4, p0) /\ Here(m, 3, p0)'
  BY <1>2, <1>3, Stations
<1>6. ASSUME NEW p \in Pool, NEW o \in Msg
      PROVE  /\ Here(o, 1, p)' <=> Here(o, 1, p)
             /\ Here(o, 2, p)' <=> Here(o, 2, p)
             /\ Here(o, 3, p)' => Here(o, 3, p) \/ (p = p0 /\ o = m)
             /\ Here(o, 4, p)' => Here(o, 4, p)
             /\ Here(o, 3, p) => Here(o, 3, p)'
             /\ Here(o, 4, p) => Here(o, 4, p)' \/ (p = p0 /\ o = m)
  <2>1. (Here(o, 1, p)' <=> Here(o, 1, p)) /\ (Here(o, 2, p)' <=> Here(o, 2, p))
    BY <1>1, Stations
  <2>2. CASE <<o[1], p>> = r
    BY <1>2, <1>3, <1>4, <2>1, <2>2, Stations, Messages
  <2>3. CASE <<o[1], p>> # r
    <3>1. held'[<<o[1], p>>] = held[<<o[1], p>>] /\ buf'[<<o[1], p>>] = buf[<<o[1], p>>]
      BY <1>3, <1>4, <2>3
    <3> QED
      BY <2>1, <3>1, Stations
  <2> QED
    BY <2>2, <2>3
<1>7. Line'
  <2>1. \A p \in Pool, o \in Msg, k \in Station :
          Here(o, k, p)' => Here(o, k, p) \/ (p = p0 /\ o = m /\ k = 3)
    BY <1>6, Numbers
  <2>2. \A o \in Msg, k \in Station :
          (Here(o, k, p0)' /\ o[1] = m[1] /\ 3 < k /\ k <= 4) => m[2] < o[2]
    <3> SUFFICES ASSUME NEW o \in Msg, Here(o, 4, p0)', o[1] = m[1] PROVE m[2] < o[2]
      BY Numbers
    <3>1. o \in Elements(Tail(buf[r]))
      BY <1>2, <1>3, Stations
    <3> QED
      BY <1>2, <3>1
  <2>3. UNCHANGED srcVars
    BY <1>1
  <2> HIDE DEF srcVars
  <2> QED
    BY <1>5, <2>1, <2>2, <2>3, Numbers, Advances DEF Order
<1>8. Rows'
  BY <1>1, <1>2, <1>3 DEF Order, Rows
<1>9. Work'
  BY <1>1, <1>6 DEF Order, Work, Types, TypeOK
<1>10. Kept'
  BY <1>1, <1>5, <1>6 DEF Order, Kept, Types, TypeOK
<1>11. ASSUME NEW o \in Msg PROVE Stays(o)
  BY <1>5, <1>6 DEF Stays
<1> QED
  BY <1>7, <1>8, <1>9, <1>10, <1>11 DEF Order

(* A message on its way is with no goroutine of a pool yet.                *)
LEMMA Unfetched ==
  ASSUME Types, Order, NEW p \in Pool, NEW m \in Msg, NEW k \in Station, k # 1, Here(m, k, p)
  PROVE  m \notin handled /\ \A q \in Pool : ~Here(m, 1, q) /\ m \notin busy[q]
<1>1. ASSUME NEW q \in Pool, Here(m, 1, q) PROVE FALSE
  <2>1. q = p /\ 1 \in Station /\ 1 < k
    BY <1>1, Numbers DEF Order, Line, OnePool, Station
  <2>2. m[2] < m[2] /\ m[2] \in Nat
    BY <1>1, <2>1, Messages DEF Order, Line, Staged
  <2> QED
    BY <2>2
<1> QED
  BY <1>1 DEF Order, Work

LEMMA SendOrder ==
  ASSUME Types, Types', Order, NEW r \in Route, SubmitSend(r)
  PROVE  /\ Order'
         /\ \E m0 \in Msg, p0 \in Pool :
              /\ Here(m0, 3, p0)
              /\ Here(m0, 2, p0)' \/ (Here(m0, 1, p0)' /\ \A m \in Msg : ~Here(m, 2, p0))
              /\ \A m \in Msg \ {m0} : Stays(m)
<1> USE DEF cfgVars, startVars, srcVars, stopVars
<1>1. PICK m \in Msg, p0 \in Pool :
        m = held[r] /\ p0 = r[2] /\ m[1] = r[1] /\ r = <<m[1], p0>>
  <2>1. held[r] \in Msg /\ held[r][1] = r[1]
    BY DEF SubmitSend, Open, DispatcherGoto, Types, TypeOK, Placed
  <2> QED
    BY <2>1, RoutesAre
<1>2. /\ held' = [held EXCEPT ![r] = NoMsg] /\ accepted' = accepted \cup {m}
      /\ UNCHANGED <<buf, buffered, handled, ctxDone, srcVars>>
      /\ \/ /\ queue' = [queue EXCEPT ![p0] = Append(@, m)]
            /\ UNCHANGED <<busy, fetched>>
         \/ /\ queue[p0] = <<>> /\ Cardinality(busy[p0]) < Size[p0]
            /\ busy' = [busy EXCEPT ![p0] = @ \cup {m}]
            /\ fetched' = [fetched EXCEPT ![p0] = Append(@, m)]
            /\ UNCHANGED queue
  BY <1>1 DEF SubmitSend, Open, DispatcherGoto
<1>3. held'[r] = NoMsg /\ \A x \in Route \ {r} : held'[x] = held[x]
  BY <1>2 DEF Types, TypeOK
<1>4. \A p \in Pool, o \in Msg : <<o[1], p>> \in Route /\ (<<o[1], p>> = r <=> o[1] = m[1] /\ p = p0)
  BY <1>1, RoutesAre, Messages
<1>5. Here(m, 3, p0)
  BY <1>1, Stations
<1>6. ASSUME NEW p \in Pool, NEW o \in Msg
      PROVE  /\ Here(o, 3, p)' => Here(o, 3, p) /\ ~(p = p0 /\ o[1] = m[1])
             /\ Here(o, 3, p) => Here(o, 3, p)' \/ (p = p0 /\ o = m)
             /\ Here(o, 4, p)' <=> Here(o, 4, p)
  <2>1. Here(o, 4, p)' <=> Here(o, 4, p)
    BY <1>2, Stations
  <2>2. CASE <<o[1], p>> = r
    BY <1>1, <1>3, <1>4, <2>1, <2>2, Stations, Messages
  <2>3. CASE <<o[1], p>> # r
    <3>1. held'[<<o[1], p>>] = held[<<o[1], p>>]
      BY <1>3, <1>4, <2>3
    <3> QED
      BY <1>4, <2>1, <2>3, <3>1, Stations
  <2> QED
    BY <2>2, <2>3
<1>7. m \notin handled /\ \A p \in Pool : m \notin busy[p]
  BY <1>5, Numbers, Unfetched
<1>8. CASE queue' = [queue EXCEPT ![p0] = Append(@, m)] /\ UNCHANGED <<busy, fetched>>
  <2>1. /\ queue[p0] \in Seq(Msg) /\ queue'[p0] = Append(queue[p0], m)
        /\ Elements(queue'[p0]) = Elements(queue[p0]) \cup {m}
        /\ \A p \in Pool \ {p0} : queue'[p] = queue[p]
    BY <1>8, Appended DEF Types, TypeOK
  <2>2. ASSUME NEW p \in Pool, NEW o \in Msg
        PROVE  /\ Here(o, 1, p)' <=> Here(o, 1, p)
               /\ Here(o, 2, p)' <=> Here(o, 2, p) \/ (p = p0 /\ o = m)
    <3>1. Here(o, 1, p)' <=> Here(o, 1, p)
      BY <1>8, StationFetched
    <3>2. Here(o, 2, p)' <=> Here(o, 2, p) \/ (p = p0 /\ o = m)
      <4>1. CASE p = p0
        BY <2>1, <4>1, StationQueue
      <4>2. CASE p # p0
        BY <2>1, <4>2, StationQueue
      <4> QED
        BY <4>1, <4>2
    <3> QED
      BY <3>1, <3>2
  <2>3. \A p \in Pool, o \in Msg, k \in Station :
          Here(o, k, p)' => Here(o, k, p) \/ (p = p0 /\ o = m /\ k = 2)
    BY <1>6, <2>2, Numbers
  <2>4. \A o \in Msg, k \in Station :
          (Here(o, k, p0)' /\ o[1] = m[1] /\ 2 < k /\ k <= 3) => m[2] < o[2]
    BY <1>6, Numbers
  <2>5. UNCHANGED srcVars
    BY <1>2
  <2>6. Line' /\ \A o \in Msg : Here(o, 2, p0) /\ o[1] = m[1] => o[2] < m[2]
    <3> HIDE DEF srcVars
    <3> QED
      BY <1>5, <2>3, <2>4, <2>5, Numbers, Advances DEF Order
  <2>7. Rows'
    <3>1. \A o \in Elements(queue[p0]) : o \in Msg
      BY <2>1, ElementOfSeq, LenProperties DEF Elements
    <3>2. \A o \in Elements(queue[p0]) : o[1] = m[1] => o[2] < m[2]
      BY <2>6, <3>1, Stations
    <3>3. Increasing(queue'[p0])
      BY <2>1, <3>2, Appended DEF Order, Rows
    <3> QED
      BY <1>2, <1>8, <2>1, <3>3 DEF Order, Rows
  <2>8. Work'
    BY <1>2, <1>8, <2>2 DEF Order, Work, Types, TypeOK
  <2>9. Kept'
    BY <1>2, <1>6, <1>8, <2>2 DEF Order, Kept, Types, TypeOK
  <2>10. ASSUME NEW o \in Msg, o # m PROVE Stays(o)
    BY <1>6, <2>2, <2>10 DEF Stays
  <2>11. Here(m, 2, p0)'
    BY <2>2
  <2> QED
    BY <1>5, <2>6, <2>7, <2>8, <2>9, <2>10, <2>11 DEF Order
<1>9. CASE /\ queue[p0] = <<>> /\ Cardinality(busy[p0]) < Size[p0]
           /\ busy' = [busy EXCEPT ![p0] = @ \cup {m}]
           /\ fetched' = [fetched EXCEPT ![p0] = Append(@, m)]
           /\ UNCHANGED queue
  <2>1. /\ Elements(fetched'[p0]) = Elements(fetched[p0]) \cup {m}
        /\ \A p \in Pool \ {p0} : fetched'[p] = fetched[p]
        /\ \A p \in Pool : busy'[p] = IF p = p0 THEN busy[p] \cup {m} ELSE busy[p]
    BY <1>9, FetchTypes
  <2>2. ASSUME NEW p \in Pool, NEW o \in Msg
        PROVE  /\ Here(o, 1, p)' <=> Here(o, 1, p) \/ (p = p0 /\ o = m)
               /\ Here(o, 2, p)' <=> Here(o, 2, p)
    <3>1. Here(o, 1, p)' <=> Here(o, 1, p) \/ (p = p0 /\ o = m)
      <4>1. CASE p = p0
        BY <2>1, <4>1, StationFetched
      <4>2. CASE p # p0
        BY <2>1, <4>2, StationFetched
      <4> QED
        BY <4>1, <4>2
    <3>2. Here(o, 2, p)' <=> Here(o, 2, p)
      BY <1>9, StationQueue
    <3> QED
      BY <3>1, <3>2
  <2>3. \A p \in Pool, o \in Msg, k \in Station :
          Here(o, k, p)' => Here(o, k, p) \/ (p = p0 /\ o = m /\ k = 1)
    BY <1>6, <2>2, Numbers
  <2>4. \A o \in Msg, k \in Station :
          (Here(o, k, p0)' /\ o[1] = m[1] /\ 1 < k /\ k <= 3) => m[2] < o[2]
    <3>1. \A o \in Msg : ~Here(o, 2, p0)'
      BY <1>9, NoElements, StationQueue
    <3> QED
      BY <1>6, <3>1, Numbers
  <2>5. UNCHANGED srcVars
    BY <1>2
  <2>6. Line' /\ \A o \in Msg : Here(o, 1, p0) /\ o[1] = m[1] => o[2] < m[2]
    <3> HIDE DEF srcVars
    <3> QED
      BY <1>5, <2>3, <2>4, <2>5, Numbers, Advances DEF Order
  <2>7. Rows'
    <3>1. fetched[p0] \in Seq(Msg) /\ fetched'[p0] = Append(fetched[p0], m)
      BY <1>9 DEF Types, TypeOK
    <3>2. \A o \in Elements(fetched[p0]) : o \in Msg
      BY <3>1, ElementOfSeq, LenProperties DEF Elements
    <3>3. \A o \in Elements(fetched[p0]) : o[1] = m[1] => o[2] < m[2]
      BY <2>6, <3>2, Stations
    <3>4. Increasing(fetched'[p0])
      BY <3>1, <3>3, Appended DEF Order, Rows
    <3> QED
      BY <1>2, <1>9, <2>1, <3>4 DEF Order, Rows
  <2>8. Work'
    <3>1. handled \subseteq Msg /\ \A p \in Pool : busy[p] \subseteq Msg
      BY DEF Types, TypeOK
    <3>2. \A p \in Pool : \A o \in busy'[p] : Here(o, 1, p)' /\ o \notin handled
      <4> SUFFICES ASSUME NEW p \in Pool, NEW o \in busy'[p]
                   PROVE  Here(o, 1, p)' /\ o \notin handled
        OBVIOUS
      <4>1. CASE o \in busy[p]
        BY <2>2, <3>1, <4>1 DEF Order, Work
      <4>2. CASE p = p0 /\ o = m
        BY <1>7, <2>2, <4>2
      <4> QED
        BY <2>1, <4>1, <4>2
    <3>3. \A o \in handled : \E p \in Pool : Here(o, 1, p)'
      BY <2>2, <3>1 DEF Order, Work
    <3> QED
      BY <1>2, <3>2, <3>3 DEF Work
  <2>9. Kept'
    <3>1. \A o \in buffered : ctxDone \/ o \in accepted'
                             \/ \E p \in Pool : Here(o, 3, p)' \/ Here(o, 4, p)'
      BY <1>2, <1>6 DEF Order, Kept, Types, TypeOK
    <3>2. \A o \in accepted' : o \in handled \/ \E p \in Pool : Here(o, 2, p)' \/ o \in busy'[p]
      <4>1. \A o \in accepted : o \in Msg
        BY DEF Types, TypeOK
      <4>2. m \in busy'[p0]
        BY <2>1
      <4> QED
        BY <1>2, <2>1, <2>2, <4>1, <4>2 DEF Order, Kept
    <3> QED
      BY <1>2, <3>1, <3>2 DEF Kept
  <2>10. ASSUME NEW o \in Msg, o # m PROVE Stays(o)
    BY <1>6, <2>2, <2>10 DEF Stays
  <2>11. Here(m, 1, p0)'
    BY <2>2
  <2>12. \A o \in Msg : ~Here(o, 2, p0)
    BY <1>9, NoElements, StationQueue
  <2> QED
    BY <1>5, <2>6, <2>7, <2>8, <2>9, <2>10, <2>11, <2>12 DEF Order
<1> QED
  BY <1>2, <1>8, <1>9

(* A message is forgotten by its dispatcher only after the runtime's       *)
(* context has ended: no pool is closed before that.                       *)
LEMMA ErrorOrder ==
  ASSUME Types, Types', Order, Stopping, NEW r \in Route, SubmitError(r) \/ DispatcherExit(r)
  PROVE  /\ Order' /\ ctxDone
         /\ \/ \A m \in Msg : Stays(m)
            \/ \E m0 \in Msg, p0 \in Pool :
                 /\ Here(m0, 3, p0) /\ \A p \in Pool, k \in Station : ~Here(m0, k, p)'
                 /\ \A m \in Msg \ {m0} : Stays(m)
<1> USE DEF cfgVars, startVars, srcVars, poolVars, stopVars
<1>1. /\ held' = [held EXCEPT ![r] = NoMsg]
      /\ UNCHANGED <<buf, buffered, ctxDone, srcVars, poolVars>>
  BY DEF SubmitError, DispatcherExit, DispatcherGoto, BufferAfterError
<1>2. ctxDone
  BY DEF SubmitError, DispatcherExit, Fails, Stopping, StopEnds, PastDisps, Called
<1>3. \A x \in Route : held'[x] = held[x] \/ held'[x] = NoMsg
  BY <1>1 DEF Types, TypeOK
<1>4. ASSUME NEW p \in Pool, NEW o \in Msg
      PROVE  /\ Here(o, 1, p)' <=> Here(o, 1, p)
             /\ Here(o, 2, p)' <=> Here(o, 2, p)
             /\ Here(o, 3, p)' => Here(o, 3, p)
             /\ Here(o, 4, p)' <=> Here(o, 4, p)
  <2>1. <<o[1], p>> \in Route
    BY RoutesAre, Messages
  <2>2. Here(o, 3, p)' => Here(o, 3, p)
    BY <1>3, <2>1, Messages, Stations
  <2> QED
    BY <1>1, <2>2, Stations
<1>5. Line'
  <2>1. \A s \in Source : Behind(s) <= Behind(s)'
    BY <1>1, BehindIs DEF Behind
  <2>2. \A p \in Pool, m \in Msg, k \in Station : Here(m, k, p)' => Here(m, k, p)
    BY <1>4, Numbers
  <2> QED
    BY <2>1, <2>2, Leaves DEF Order
<1>6. Rows' /\ Work' /\ Kept'
  BY <1>1, <1>2, <1>4 DEF Order, Rows, Work, Kept, Types, TypeOK
<1>7. CASE held[r] = NoMsg
  <2>1. held' = held
    BY <1>1, <1>7 DEF Types, TypeOK
  <2>2. \A o, k, p : Here(o, k, p)' <=> Here(o, k, p)
    BY <1>1, <2>1 DEF Here, Elements
  <2>3. \A o \in Msg : Stays(o)
    BY <2>2 DEF Stays
  <2> QED
    BY <1>2, <1>5, <1>6, <2>3 DEF Order
<1>8. CASE held[r] # NoMsg
  <2>1. PICK m \in Msg, p0 \in Pool : m = held[r] /\ p0 = r[2] /\ r = <<m[1], p0>>
    BY <1>8, RoutesAre DEF Types, TypeOK, Placed
  <2>2. held'[r] = NoMsg /\ \A x \in Route \ {r} : held'[x] = held[x]
    BY <1>1 DEF Types, TypeOK
  <2>3. Here(m, 3, p0)
    BY <2>1, Stations
  <2>4. ASSUME NEW o \in Msg, o # m PROVE Stays(o)
    <3> SUFFICES ASSUME NEW p \in Pool PROVE Here(o, 3, p)' <=> Here(o, 3, p)
      BY <1>4 DEF Stays
    <3>1. CASE <<o[1], p>> = r
      BY <2>1, <2>2, <2>4, <3>1, StationHand, Messages
    <3>2. CASE <<o[1], p>> # r
      <4>1. held'[<<o[1], p>>] = held[<<o[1], p>>]
        BY <2>2, <3>2, RoutesAre, Messages
      <4> QED
        BY <4>1, StationHand
    <3> QED
      BY <3>1, <3>2
  <2>5. ASSUME NEW p \in Pool, NEW k \in Station, Here(m, k, p)' PROVE FALSE
    <3>1. Here(m, k, p)
      BY <1>4, <2>5, Numbers
    <3>2. p = p0 /\ k \in Nat /\ 3 \in Station
      BY <2>3, <3>1, Numbers DEF Order, Line, OnePool
    <3>3. ~(k < 3) /\ ~(3 < k)
      <4>1. ~(m[2] < m[2])
        BY Messages
      <4> QED
        BY <2>3, <3>1, <3>2, <4>1 DEF Order, Line, Staged
    <3>4. Here(m, 3, p0)'
      BY <2>5, <3>2, <3>3
    <3> QED
      BY <2>1, <2>2, <3>4, Stations, Messages
  <2> QED
    BY <1>2, <1>5, <1>6, <2>3, <2>4, <2>5 DEF Order
<1> QED
  BY <1>7, <1>8

LEMMA FetchKeepsOrder ==
  ASSUME Types, Types', Order, NEW p0 \in Pool, Fetch(p0)
  PROVE  /\ Order'
         /\ \E m0 \in Msg :
              /\ Here(m0, 2, p0) /\ Here(m0, 1, p0)'
              /\ \A m \in Msg \ {m0} :
                   Stays(m) /\ (Here(m, 2, p0) /\ m[1] = m0[1] => m0[2] < m[2])
<1> USE DEF cfgVars, startVars, srcVars, dispVars, stopVars
<1>1. PICK m \in Msg :
        /\ m = Head(queue[p0]) /\ queue[p0] # <<>>
        /\ Elements(queue[p0]) = Elements(Tail(queue[p0])) \cup {m}
        /\ Increasing(Tail(queue[p0]))
        /\ \A o \in Elements(Tail(queue[p0])) : o[1] = m[1] => m[2] < o[2]
  <2>1. queue[p0] \in Seq(Msg) /\ Increasing(queue[p0]) /\ queue[p0] # <<>>
    BY DEF Fetch, Types, TypeOK, Order, Rows
  <2> QED
    BY <2>1, Removed
<1>2. /\ Cardinality(busy[p0]) < Size[p0]
      /\ busy' = [busy EXCEPT ![p0] = @ \cup {m}]
      /\ fetched' = [fetched EXCEPT ![p0] = Append(@, m)]
      /\ queue' = [queue EXCEPT ![p0] = Tail(@)]
      /\ UNCHANGED <<accepted, handled, buf, held, buffered, ctxDone, srcVars>>
  BY <1>1 DEF Fetch
<1>3. /\ Elements(fetched'[p0]) = Elements(fetched[p0]) \cup {m}
      /\ \A p \in Pool \ {p0} : fetched'[p] = fetched[p] /\ queue'[p] = queue[p]
      /\ \A p \in Pool : busy'[p] = IF p = p0 THEN busy[p] \cup {m} ELSE busy[p]
      /\ queue'[p0] = Tail(queue[p0])
  <2>1. /\ \A p \in Pool \ {p0} : queue'[p] = queue[p]
        /\ queue'[p0] = Tail(queue[p0])
    BY <1>2 DEF Types, TypeOK
  <2> QED
    BY <1>2, <2>1, FetchTypes
<1>4. Here(m, 2, p0)
  BY <1>1, Stations
<1>5. ASSUME NEW p \in Pool, NEW o \in Msg
      PROVE  /\ Here(o, 1, p)' <=> Here(o, 1, p) \/ (p = p0 /\ o = m)
             /\ Here(o, 2, p)' => Here(o, 2, p)
             /\ Here(o, 2, p) => Here(o, 2, p)' \/ (p = p0 /\ o = m)
             /\ Here(o, 3, p)' <=> Here(o, 3, p)
             /\ Here(o, 4, p)' <=> Here(o, 4, p)
  <2>1. (Here(o, 3, p)' <=> Here(o, 3, p)) /\ (Here(o, 4, p)' <=> Here(o, 4, p))
    BY <1>2, Stations
  <2>2. CASE p = p0
    <3>1. Here(o, 1, p)' <=> Here(o, 1, p) \/ o = m
      BY <1>3, <2>2, StationFetched
    <3>2. /\ Here(o, 2, p)' => Here(o, 2, p)
          /\ Here(o, 2, p) => Here(o, 2, p)' \/ o = m
      BY <1>1, <1>3, <2>2, StationQueue
    <3> QED
      BY <2>1, <2>2, <3>1, <3>2
  <2>3. CASE p # p0
    <3>1. Here(o, 1, p)' <=> Here(o, 1, p)
      BY <1>3, <2>3, StationFetched
    <3>2. Here(o, 2, p)' <=> Here(o, 2, p)
      BY <1>3, <2>3, StationQueue
    <3> QED
      BY <2>1, <2>3, <3>1, <3>2
  <2> QED
    BY <2>2, <2>3
<1>6. Line' /\ \A o \in Msg : Here(o, 1, p0) /\ o[1] = m[1] => o[2] < m[2]
  <2>1. \A p \in Pool, o \in Msg, k \in Station :
          Here(o, k, p)' => Here(o, k, p) \/ (p = p0 /\ o = m /\ k = 1)
    BY <1>5, Numbers
  <2>2. \A o \in Msg, k \in Station :
          (Here(o, k, p0)' /\ o[1] = m[1] /\ 1 < k /\ k <= 2) => m[2] < o[2]
    <3> SUFFICES ASSUME NEW o \in Msg, Here(o, 2, p0)', o[1] = m[1] PROVE m[2] < o[2]
      BY Numbers
    <3>1. o \in Elements(Tail(queue[p0]))
      BY <1>3, Stations
    <3> QED
      BY <1>1, <3>1
  <2>3. UNCHANGED srcVars
    BY <1>2
  <2> HIDE DEF srcVars
  <2> QED
    BY <1>4, <2>1, <2>2, <2>3, Numbers, Advances DEF Order
<1>7. Rows'
  <2>1. fetched[p0] \in Seq(Msg) /\ fetched'[p0] = Append(fetched[p0], m)
    BY <1>2 DEF Types, TypeOK
  <2>2. \A o \in Elements(fetched[p0]) : o \in Msg
    BY <2>1, ElementOfSeq, LenProperties DEF Elements
  <2>3. \A o \in Elements(fetched[p0]) : o[1] = m[1] => o[2] < m[2]
    BY <1>6, <2>2, Stations
  <2>4. Increasing(fetched'[p0])
    BY <2>1, <2>3, Appended DEF Order, Rows
  <2> QED
    BY <1>1, <1>2, <1>3, <2>4 DEF Order, Rows
<1>8. m \notin handled
  BY <1>4, Numbers, Unfetched
<1>9. Work'
  BY <1>2, <1>3, <1>5, <1>8 DEF Order, Work, Types, TypeOK
<1>10. Kept'
  BY <1>2, <1>3, <1>5 DEF Order, Kept, Types, TypeOK
<1>11. ASSUME NEW o \in Msg, o # m
       PROVE  Stays(o) /\ (Here(o, 2, p0) /\ o[1] = m[1] => m[2] < o[2])
  <2>1. Stays(o)
    BY <1>5, <1>11 DEF Stays
  <2>2. ASSUME Here(o, 2, p0), o[1] = m[1] PROVE m[2] < o[2]
    <3>1. o \in Elements(Tail(queue[p0]))
      BY <1>1, <1>11, <2>2, Stations
    <3> QED
      BY <1>1, <2>2, <3>1
  <2> QED
    BY <2>1, <2>2
<1>12. Here(m, 1, p0)'
  BY <1>5
<1> QED
  BY <1>4, <1>6, <1>7, <1>9, <1>10, <1>11, <1>12 DEF Order

(* Two pools do not execute the same message.                              *)
LEMMA FinishKeepsOrder ==
  ASSUME Types, Types', Order, NEW p0 \in Pool, NEW m \in Msg, Finish(p0, m)
  PROVE  /\ Order' /\ \A o \in Msg : Stays(o)
         /\ m \notin handled /\ Here(m, 1, p0)
<1> USE DEF cfgVars, startVars, srcVars, dispVars, stopVars
<1>1. /\ m \in busy[p0] /\ busy' = [busy EXCEPT ![p0] = @ \ {m}] /\ handled' = handled \cup {m}
      /\ UNCHANGED <<queue, fetched, accepted, buf, held, buffered, ctxDone, srcVars>>
  BY DEF Finish
<1>2. \A p \in Pool : busy'[p] = IF p = p0 THEN busy[p] \ {m} ELSE busy[p]
  BY <1>1 DEF Types, TypeOK
<1>3. \A o, k, p : Here(o, k, p)' <=> Here(o, k, p)
  BY <1>1 DEF Here, Elements
<1>4. Line'
  <2>1. \A s \in Source : Behind(s) <= Behind(s)'
    BY <1>1, BehindIs DEF Behind
  <2> QED
    BY <1>3, <2>1, Leaves DEF Order
<1>5. Here(m, 1, p0)
  BY <1>1 DEF Order, Work
<1>6. \A p \in Pool \ {p0} : m \notin busy[p]
  BY <1>5, Numbers DEF Order, Work, Line, OnePool
<1>7. Work'
  BY <1>1, <1>2, <1>3, <1>5, <1>6 DEF Order, Work, Types, TypeOK
<1>8. Kept'
  BY <1>1, <1>2, <1>3 DEF Order, Kept, Types, TypeOK
<1>9. Rows'
  BY <1>1 DEF Order, Rows
<1>10. \A o \in Msg : Stays(o)
  BY <1>3 DEF Stays
<1>11. m \notin handled
  BY <1>1 DEF Order, Work
<1> QED
  BY <1>4, <1>5, <1>7, <1>8, <1>9, <1>10, <1>11 DEF Order

LEMMA OrderKept == Types /\ Types' /\ Order /\ Stopping /\ [Next]_vars => Order'
<1> SUFFICES ASSUME Types, Types', Order, Stopping, [Next]_vars PROVE Order'
  OBVIOUS
<1>1. CASE \/ (\E x \in Later : Register(x)) \/ WriterGoes \/ UNCHANGED vars
           \/ StartCall \/ StartStep \/ CancelStart
           \/ \E c \in Stopper : StopCall(c) \/ StopStep(c)
  BY <1>1, OthersOrder
<1>2. CASE \E s \in Source : Recv(s) \/ RecvError(s) \/ Forward(s)
  BY <1>2, SourcesOrder
<1>3. CASE \E r \in Route : DispatcherStep(r)
  BY <1>3, TakeOrder, SendOrder, ErrorOrder DEF DispatcherStep
<1>4. CASE \E p \in Pool : Fetch(p) \/ \E m \in Msg : Finish(p, m)
  BY <1>4, FetchKeepsOrder, FinishKeepsOrder
<1> QED
  BY <1>1, <1>2, <1>3, <1>4 DEF Next

LEMMA InitOrders == Init => Order
<1> SUFFICES ASSUME Init PROVE Order
  OBVIOUS
<1>1. \A m \in Msg, p \in Pool, k \in Station : ~Here(m, k, p)
  <2> SUFFICES ASSUME NEW m \in Msg, NEW p \in Pool
               PROVE  ~Here(m, 1, p) /\ ~Here(m, 2, p) /\ ~Here(m, 3, p) /\ ~Here(m, 4, p)
    BY Numbers
  <2>1. <<m[1], p>> \in Route /\ m # NoMsg
    BY Messages, RoutesAre
  <2>2. /\ fetched[p] = <<>> /\ queue[p] = <<>> /\ held[<<m[1], p>>] = NoMsg
        /\ buf[<<m[1], p>>] = <<>>
    BY <2>1 DEF Init
  <2> QED
    BY <2>1, <2>2, NoElements, Stations
<1>2. Line
  BY <1>1 DEF Line, Staged, Seen, OnePool
<1>3. Rows
  BY NoElements DEF Init, Rows
<1>4. Work /\ Kept
  BY DEF Init, Work, Kept
<1> QED
  BY <1>2, <1>3, <1>4 DEF Order

-----------------------------------------------------------------------------
(* One goroutine *)

(* When it takes a message, it has handled those before.                   *)
LEMMA TakesOne ==
  ASSUME Types, OneByOne, NEW p \in Pool, NEW m \in Msg,
         Cardinality(busy[p]) < Size[p],
         busy' = [busy EXCEPT ![p] = @ \cup {m}],
         fetched' = [fetched EXCEPT ![p] = Append(@, m)],
         UNCHANGED handled
  PROVE  OneByOne'
<1> SUFFICES ASSUME NEW x \in Pool, Size[x] = 1, NEW i \in DOMAIN fetched'[x]
             PROVE  \/ fetched'[x][i] \in handled
                    \/ i = Len(fetched'[x]) /\ busy'[x] = {fetched'[x][i]}
  BY DEF OneByOne
<1>1. CASE x # p
  <2>1. fetched'[x] = fetched[x] /\ busy'[x] = busy[x]
    BY <1>1 DEF Types, TypeOK
  <2> QED
    BY <2>1 DEF OneByOne
<1>2. CASE x = p
  <2>1. busy[p] = {}
    BY <1>2, FS_EmptySet, FS_CardinalityType DEF Types, Placed
  <2>2. \A j \in DOMAIN fetched[p] : fetched[p][j] \in handled
    BY <1>2, <2>1 DEF OneByOne
  <2>3. fetched[p] \in Seq(Msg) /\ fetched'[p] = Append(fetched[p], m) /\ busy'[p] = {m}
    BY <2>1 DEF Types, TypeOK
  <2>4. /\ Len(fetched[p]) \in Nat /\ DOMAIN fetched[p] = 1 .. Len(fetched[p])
        /\ Len(fetched'[p]) = Len(fetched[p]) + 1
        /\ DOMAIN fetched'[p] = 1 .. Len(fetched[p]) + 1
        /\ fetched'[p][Len(fetched[p]) + 1] = m
        /\ \A j \in 1 .. Len(fetched[p]) : fetched'[p][j] = fetched[p][j]
    BY <2>3, AppendProperties, LenProperties
  <2>5. CASE i \in DOMAIN fetched[p]
    BY <1>2, <2>2, <2>4, <2>5
  <2>6. CASE i = Len(fetched[p]) + 1
    BY <1>2, <2>3, <2>4, <2>6
  <2> QED
    BY <1>2, <2>4, <2>5, <2>6
<1> QED
  BY <1>1, <1>2

(* What it is busy with is handled when it finishes.                       *)
LEMMA FinishesOne ==
  ASSUME Types, Order, OneByOne, NEW p \in Pool, NEW m \in Msg, Finish(p, m)
  PROVE  OneByOne'
<1>1. /\ m \in busy[p] /\ handled' = handled \cup {m} /\ fetched' = fetched
      /\ \A x \in Pool \ {p} : busy'[x] = busy[x]
  BY DEF Finish, Types, TypeOK
<1> SUFFICES ASSUME NEW x \in Pool, Size[x] = 1, NEW i \in DOMAIN fetched[x],
                    fetched[x][i] \notin handled'
             PROVE  i = Len(fetched[x]) /\ busy'[x] = {fetched[x][i]}
  BY <1>1 DEF OneByOne
<1>2. i = Len(fetched[x]) /\ busy[x] = {fetched[x][i]}
  BY <1>1 DEF OneByOne
<1>3. x # p
  BY <1>1, <1>2
<1> QED
  BY <1>1, <1>2, <1>3

LEMMA OneByOneKept == Types /\ Order /\ OneByOne /\ [Next]_vars => OneByOne'
<1> SUFFICES ASSUME Types, Order, OneByOne, [Next]_vars PROVE OneByOne'
  OBVIOUS
<1>1. CASE \E r \in Route : SubmitSend(r)
  <2>1. PICK r \in Route : SubmitSend(r)
    BY <1>1
  <2>2. r[2] \in Pool /\ UNCHANGED handled /\ held[r] # NoMsg /\ held[r] \in Msg \cup {NoMsg}
    BY <2>1, RoutesAre DEF SubmitSend, DispatcherGoto, Types, TypeOK, Placed
  <2>3. CASE UNCHANGED <<busy, fetched>>
    BY <2>2, <2>3 DEF OneByOne
  <2> QED
    BY <2>1, <2>2, <2>3, TakesOne DEF SubmitSend
<1>2. CASE \E p \in Pool : Fetch(p)
  <2>1. PICK p \in Pool : Fetch(p)
    BY <1>2
  <2>2. Head(queue[p]) \in Msg
    BY <2>1, Removed DEF Fetch, Types, TypeOK
  <2> QED
    BY <2>1, <2>2, TakesOne DEF Fetch
<1>3. CASE \E p \in Pool, m \in Msg : Finish(p, m)
  BY <1>3, FinishesOne
<1>4. CASE UNCHANGED <<busy, fetched, handled>>
  BY <1>4 DEF OneByOne
<1>5. CASE \/ (\E x \in Later : Register(x)) \/ WriterGoes \/ UNCHANGED vars
           \/ StartCall \/ StartStep \/ CancelStart
           \/ \E c \in Stopper : StopCall(c) \/ StopStep(c)
  BY <1>4, <1>5 DEF Register, WriterGoes, StartCall, StartStep, StartLoop, StartSource, StartWait,
     StartReturn, StartGoto, CancelStart, StopCall, StopStep, StopSources, StopSnapshot,
     StopDispatchers, StopPool, StopDrained, StopTimeout, StopReturn, StopGoto, poolVars, vars
<1>6. CASE \/ \E s \in Source : Recv(s) \/ RecvError(s) \/ Forward(s)
           \/ \E r \in Route : DispatcherTake(r) \/ DispatcherExit(r) \/ SubmitError(r)
  BY <1>4, <1>6 DEF Recv, RecvError, Forward, Configure, NoRoute, RouteTo, TrySubmit, SourceGoto,
     DispatcherTake, DispatcherExit, SubmitError, poolVars
<1> QED
  BY <1>1, <1>2, <1>3, <1>5, <1>6 DEF Next, DispatcherStep

-----------------------------------------------------------------------------
(* The invariant *)

LEMMA InitEstablishes == Init => IInv
<1>1. Init => OneByOne
  BY NoElements DEF Init, OneByOne, Elements
<1> QED
  BY <1>1, InitTypes, InitOrders, InitStops DEF IInv

LEMMA NextKeeps == IInv /\ [Next]_vars => IInv'
BY TypesKept, OrderKept, OneByOneKept, StoppingKept DEF IInv

(* What the proofs of the properties below rest on, in every reachable     *)
(* state.                                                                  *)
THEOREM Invariance == Spec => []IInv
<1> QED
  BY InitEstablishes, NextKeeps, PTL DEF Spec

(* Every variable has its type: no buffer, queue or pool holds more than   *)
(* it has room for, and one writer waits for rtMu at most.                 *)
THEOREM TypeCorrect == Spec => []TypeOK
<1>1. IInv => TypeOK
  BY DEF IInv, Types
<1> QED
  BY <1>1, Invariance, PTL

(* The messages of a source are taken off the channel of a pool in the     *)
(* order in which they were received, each once, for any number of pools,  *)
(* goroutines, dispatchers, drops and Stop calls; and a pool with one      *)
(* goroutine has handled each before it takes the next.                    *)
THEOREM HandledInOrder == Spec => []HandlerOrder
<1>1. IInv => HandlerOrder
  <2> SUFFICES ASSUME IInv, NEW p \in Pool, NEW i \in DOMAIN fetched[p], NEW j \in DOMAIN fetched[p],
                      i < j
               PROVE  /\ fetched[p][i][1] = fetched[p][j][1] => fetched[p][i][2] < fetched[p][j][2]
                      /\ Size[p] = 1 => fetched[p][i] \in handled
    BY DEF HandlerOrder
  <2>1. Len(fetched[p]) \in Nat /\ DOMAIN fetched[p] = 1 .. Len(fetched[p])
    BY LenProperties DEF IInv, Types, TypeOK
  <2>2. i # Len(fetched[p])
    BY <2>1
  <2> QED
    BY <2>2 DEF IInv, Order, Rows, Increasing, OneByOne
<1> QED
  BY <1>1, Invariance, PTL

(* No message that a dispatcher took is forgotten before the runtime's     *)
(* context ends, and none that a pool took at all.                         *)
THEOREM NoneForgotten == Spec => []NothingForgotten
<1>1. IInv => NothingForgotten
  <2> SUFFICES ASSUME IInv PROVE NothingForgotten
    OBVIOUS
  <2>1. Kept /\ buffered \subseteq Msg /\ accepted \subseteq Msg
    BY DEF IInv, Order, Types, TypeOK
  <2> DEFINE waiting == UNION {Elements(buf[r]) : r \in Route}
             handed  == {held[r] : r \in Route}
             inPools == UNION {Elements(queue[p]) \cup busy[p] : p \in Pool}
  <2>2. \A r \in Route : Elements(buf[r]) \subseteq waiting /\ held[r] \in handed
    OBVIOUS
  <2>3. \A p \in Pool : Elements(queue[p]) \subseteq inPools /\ busy[p] \subseteq inPools
    OBVIOUS
  <2> HIDE DEF waiting, handed, inPools
  <2>4. ASSUME ~ctxDone, NEW m \in buffered
        PROVE  m \in waiting \cup handed \cup accepted
    <3>1. CASE m \in accepted
      BY <3>1
    <3>2. CASE \E p \in Pool : Here(m, 3, p) \/ Here(m, 4, p)
      <4>1. PICK p \in Pool : Here(m, 3, p) \/ Here(m, 4, p)
        BY <3>2
      <4>2. <<m[1], p>> \in Route
        BY <2>1, Messages, RoutesAre
      <4> QED
        BY <2>2, <4>1, <4>2, Stations
    <3> QED
      BY <2>1, <2>4, <3>1, <3>2 DEF Kept
  <2>5. ASSUME NEW m \in accepted
        PROVE  m \in inPools \cup handled
    BY <2>1, <2>3, Stations DEF Kept
  <2>6. ctxDone \/ buffered \subseteq waiting \cup handed \cup accepted
    BY <2>4
  <2>7. accepted \subseteq inPools \cup handled
    BY <2>5
  <2> QED
    BY <2>6, <2>7 DEF NothingForgotten, waiting, handed, inPools
<1> QED
  BY <1>1, Invariance, PTL

(* No pool is closed while a source or a dispatcher could submit to it, if *)
(* Start had started all sources before the Stop calls.                    *)
THEOREM PoolsAreClosedLast == Spec => []PoolsCloseLast
<1>1. IInv => PoolsCloseLast
  BY DEF IInv, Stopping, StopWaits, PoolsCloseLast
<1> QED
  BY <1>1, Invariance, PTL

(* A writer that waits for rtMu keeps out nobody whom the Stop calls have  *)
(* to wait for but handlers that call DumpMetrics: Start is past its loop  *)
(* and no source or dispatcher is left, when a Stop holds the lock.        *)
THEOREM WritersKeepOutHandlersOnly == Spec => []LockWaits
<1>1. IInv => LockWaits
  <2> SUFFICES ASSUME IInv, early = {}, NEW c \in Stopper, stop[c] = "pools"
               PROVE  start \in {"wait", "returned"} /\ Quiet
    BY DEF LockWaits, ReadLocked, StopHolds
  <2> QED
    BY DEF IInv, Stopping, StopWaits, Called, PastDisps
<1> QED
  BY <1>1, Invariance, PTL

(* A Stop that returned nil left nothing in the pools that were registered *)
(* all the time, and nothing came later.                                   *)
THEOREM QuietAfterStop == Spec => []StopQuiesces
<1>1. IInv => StopQuiesces
  BY DEF IInv, Stopping, StopWaits, StopQuiesces, Lasting, Drained
<1> QED
  BY <1>1, Invariance, PTL

-----------------------------------------------------------------------------
(* The pools are TaskQueues.  Q counts as Runtime does.                    *)
LEMMA SameCount == \A p, S : Q(p)!Cardinality(S) = Cardinality(S)
BY DEF Q!Cardinality, Cardinality

LEMMA FreeIs ==
  ASSUME NEW p \in Pool
  PROVE  Q(p)!Free <=> Cardinality(busy[p]) < Size[p]
<1>1. Q(p)!Cardinality(busy[p]) = Cardinality(busy[p])
  BY SameCount
<1> QED
  BY <1>1 DEF Q!Free

(* What a dispatcher submits is nowhere in the pool yet.                   *)
LEMMA HeldIsNew ==
  ASSUME IInv, NEW r \in Route, disp[r] = "submit"
  PROVE  held[r] \in Msg /\ r[2] \in Pool /\ Q(r[2])!New(held[r])
<1> DEFINE m == held[r]
           p == r[2]
<1>1. m \in Msg /\ m[1] = r[1] /\ p \in Pool /\ m[1] \in Source /\ m[2] \in Nat
  BY RoutesAre, Messages DEF IInv, Types, TypeOK, Placed
<1>2. r = <<m[1], p>>
  BY <1>1, RoutesAre
<1> HIDE DEF m, p
<1>3. Here(m, 3, p)
  BY <1>2, Stations DEF m
<1>4. ~Here(m, 1, p) /\ ~Here(m, 2, p)
  BY <1>1, <1>3, Numbers DEF IInv, Order, Line, Staged
<1>5. m \notin Elements(queue[p]) /\ m \notin busy[p]
  BY <1>1, <1>4, Stations DEF IInv, Order, Work
<1> QED
  BY <1>1, <1>5 DEF Elements, Q!New, m, p

(* The steps of everybody else, and what Stop does, may close a pool.      *)
LEMMA QueueFrame ==
  ASSUME UNCHANGED <<queue, busy>>, poolClosed \subseteq poolClosed', NEW p \in Pool
  PROVE  [Q(p)!Next]_(Q(p)!vars)
<1>1. CASE p \notin poolClosed'
  <2>1. p \notin poolClosed
    BY <1>1
  <2> QED
    BY <1>1, <2>1 DEF Q!vars
<1>2. CASE p \in poolClosed'
  BY <1>2 DEF Q!Next, Q!Close
<1> QED
  BY <1>1, <1>2

LEMMA SendQueue ==
  ASSUME IInv, NEW r \in Route, SubmitSend(r), NEW p \in Pool
  PROVE  [Q(p)!Next]_(Q(p)!vars)
<1> DEFINE m == held[r]
<1>1. m \in Msg /\ r[2] \in Pool /\ Q(r[2])!New(m)
  BY HeldIsNew DEF SubmitSend, DispatcherGoto
<1>2. UNCHANGED poolClosed /\ r[2] \notin poolClosed
  BY DEF SubmitSend, Open, DispatcherGoto, stopVars
<1>3. CASE p # r[2]
  <2>1. queue'[p] = queue[p] /\ busy'[p] = busy[p]
    BY <1>1, <1>3 DEF SubmitSend, IInv, Types, TypeOK
  <2> QED
    BY <1>2, <2>1 DEF Q!vars
<1>4. CASE p = r[2]
  <2> HIDE DEF m
  <2>1. \/ /\ Len(queue[p]) < Queue
           /\ queue'[p] = Append(queue[p], m) /\ busy'[p] = busy[p]
        \/ /\ queue[p] = <<>> /\ Cardinality(busy[p]) < Size[p]
           /\ busy'[p] = busy[p] \cup {m} /\ queue'[p] = queue[p]
    BY <1>1, <1>4 DEF SubmitSend, IInv, Types, TypeOK, m
  <2>2. Q(p)!New(m) /\ p \notin poolClosed
    BY <1>1, <1>2, <1>4
  <2>3. Q(p)!Enqueue(m) \/ Q(p)!Handoff(m)
    BY <1>2, <2>1, <2>2, FreeIs DEF Q!Enqueue, Q!Handoff
  <2> QED
    BY <1>1, <2>3 DEF Q!Next
<1> QED
  BY <1>3, <1>4

LEMMA WorkQueue ==
  ASSUME IInv, NEW q \in Pool, Fetch(q) \/ \E m \in Msg : Finish(q, m), NEW p \in Pool
  PROVE  [Q(p)!Next]_(Q(p)!vars)
<1>1. UNCHANGED poolClosed
  BY DEF Fetch, Finish, stopVars
<1>2. CASE p # q
  <2>1. queue'[p] = queue[p] /\ busy'[p] = busy[p]
    BY <1>2 DEF Fetch, Finish, IInv, Types, TypeOK
  <2> QED
    BY <1>1, <2>1 DEF Q!vars
<1>3. CASE p = q /\ Fetch(q)
  <2>1. Q(p)!Fetch
    BY <1>1, <1>3, FreeIs DEF Fetch, IInv, Types, TypeOK, Q!Fetch
  <2> QED
    BY <2>1 DEF Q!Next
<1>4. CASE p = q /\ \E m \in Msg : Finish(q, m)
  <2>1. PICK m \in Msg : Finish(p, m)
    BY <1>4
  <2>2. Q(p)!Finish(m)
    BY <1>1, <2>1 DEF Finish, IInv, Types, TypeOK, Q!Finish
  <2> QED
    BY <2>2 DEF Q!Next
<1> QED
  BY <1>2, <1>3, <1>4

LEMMA StepsQueues ==
  ASSUME IInv, [Next]_vars, NEW p \in Pool
  PROVE  [Q(p)!Next]_(Q(p)!vars)
<1>1. CASE \E r \in Route : SubmitSend(r)
  BY <1>1, SendQueue
<1>2. CASE \E q \in Pool : Fetch(q) \/ \E m \in Msg : Finish(q, m)
  BY <1>2, WorkQueue
<1>3. CASE UNCHANGED <<queue, busy>> /\ poolClosed \subseteq poolClosed'
  BY <1>3, QueueFrame
<1>4. ASSUME UNCHANGED <<poolVars, stopVars>> PROVE UNCHANGED <<queue, busy, poolClosed>>
  BY <1>4 DEF poolVars, stopVars
<1>5. CASE \/ (\E x \in Later : Register(x)) \/ WriterGoes \/ StartCall \/ StartStep
           \/ CancelStart \/ UNCHANGED vars
  BY <1>3, <1>4, <1>5 DEF Register, WriterGoes, StartCall, StartStep, StartLoop, StartSource,
     StartWait, StartReturn, StartGoto, CancelStart, vars
<1>6. CASE \E s \in Source : Recv(s) \/ RecvError(s) \/ Forward(s)
  BY <1>3, <1>4, <1>6 DEF Recv, RecvError, Forward, Configure, NoRoute, RouteTo, TrySubmit,
     SourceGoto
<1>7. CASE \E r \in Route : DispatcherTake(r) \/ DispatcherExit(r) \/ SubmitError(r)
  BY <1>3, <1>4, <1>7 DEF DispatcherTake, DispatcherExit, SubmitError, DispatcherGoto
<1>8. CASE \E c \in Stopper : StopCall(c) \/ StopStep(c)
  <2>1. PICK c \in Stopper : StopCall(c) \/ StopStep(c)
    BY <1>8
  <2>2. UNCHANGED <<queue, busy>>
    BY <2>1 DEF StopCall, StopStep, StopSources, StopSnapshot, StopDispatchers, StopPool,
       StopDrained, StopTimeout, StopReturn, StopGoto, poolVars
  <2>3. poolClosed \subseteq poolClosed'
    BY <2>1 DEF StopCall, StopStep, StopSources, StopSnapshot, StopDispatchers, StopPool,
       StopDrained, StopTimeout, StopReturn
  <2> QED
    BY <1>3, <2>2, <2>3
<1> QED
  BY <1>1, <1>2, <1>5, <1>6, <1>7, <1>8 DEF Next, DispatcherStep

(* Whatever dispatchers and Stop calls do at the same time, each pool is   *)
(* used as the TaskQueue that FixedPool implements: every message is       *)
(* submitted to it once, and none after it was closed.                     *)
THEOREM PoolsWorkAsQueues == Spec => PoolsAreQueues
<1>1. Init => \A p \in Pool : Q(p)!Init
  BY DEF Init, Q!Init
<1>2. IInv /\ [Next]_vars => \A p \in Pool : [Q(p)!Next]_(Q(p)!vars)
  BY StepsQueues
<1> QED
  BY <1>1, <1>2, Invariance, PTL DEF Spec, PoolsAreQueues

(* Conversely a pool of Runtime is free to do whatever a TaskQueue may: of *)
(* the behaviours of FixedPool none is left out.  Only when a handler      *)
(* returns is up to the handler.                                           *)
THEOREM PoolsAreFree ==
  ASSUME TypeOK, NEW p \in Pool,
         queue' = [queue EXCEPT ![p] = queue'[p]],
         busy' = [busy EXCEPT ![p] = busy'[p]],
         UNCHANGED <<cfgVars, startVars, srcVars, stopVars>>
  PROVE  /\ /\ Q(p)!Fetch /\ UNCHANGED <<dispVars, accepted, handled>>
            /\ fetched' = [fetched EXCEPT ![p] = Append(@, Head(queue[p]))]
            => Fetch(p)
         /\ \A m \in Msg \ Stuck :
              /\ Q(p)!Finish(m) /\ (m \in Callback => Readable)
              /\ UNCHANGED <<dispVars, accepted, fetched>>
              /\ handled' = handled \cup {m}
              => Finish(p, m)
         /\ \A s \in Source :
              LET r == <<s, p>> IN
              /\ DispatcherGoto(r, "submit", "select", NoMsg) /\ UNCHANGED <<buf, handled>>
              /\ accepted' = accepted \cup {held[r]}
              /\ \/ Q(p)!Enqueue(held[r]) /\ UNCHANGED fetched
                 \/ /\ Q(p)!Handoff(held[r])
                    /\ fetched' = [fetched EXCEPT ![p] = Append(@, held[r])]
              => SubmitSend(r)
<1>1. ASSUME Q(p)!Fetch, UNCHANGED <<dispVars, accepted, handled>>,
             fetched' = [fetched EXCEPT ![p] = Append(@, Head(queue[p]))]
      PROVE  Fetch(p)
  BY <1>1, FreeIs DEF Fetch, Q!Fetch
<1>2. ASSUME NEW m \in Msg \ Stuck, Q(p)!Finish(m), m \in Callback => Readable,
             UNCHANGED <<dispVars, accepted, fetched>>, handled' = handled \cup {m}
      PROVE  Finish(p, m)
  <2>1. queue' = queue
    BY <1>2 DEF Q!Finish, TypeOK
  <2> QED
    BY <1>2, <2>1 DEF Finish, Q!Finish
<1>3. ASSUME NEW s \in Source,
             DispatcherGoto(<<s, p>>, "submit", "select", NoMsg), UNCHANGED <<buf, handled>>,
             accepted' = accepted \cup {held[<<s, p>>]},
             \/ Q(p)!Enqueue(held[<<s, p>>]) /\ UNCHANGED fetched
             \/ /\ Q(p)!Handoff(held[<<s, p>>])
                /\ fetched' = [fetched EXCEPT ![p] = Append(@, held[<<s, p>>])]
      PROVE  SubmitSend(<<s, p>>)
  <2>1. CASE Q(p)!Enqueue(held[<<s, p>>]) /\ UNCHANGED fetched
    <3>1. busy' = busy
      BY <2>1 DEF Q!Enqueue, TypeOK
    <3> QED
      BY <1>3, <2>1, <3>1 DEF SubmitSend, Open, Q!Enqueue
  <2>2. CASE /\ Q(p)!Handoff(held[<<s, p>>])
             /\ fetched' = [fetched EXCEPT ![p] = Append(@, held[<<s, p>>])]
    <3>1. queue' = queue
      <4>1. queue'[p] = queue[p]
        BY <2>2 DEF Q!Handoff
      <4> QED
        BY <4>1 DEF TypeOK
    <3> QED
      BY <1>3, <2>2, <3>1, FreeIs DEF SubmitSend, Open, Q!Handoff
  <2> QED
    BY <1>3, <2>1, <2>2
<1> QED
  BY <1>1, <1>2, <1>3
=============================================================================
