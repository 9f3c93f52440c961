------------------------------- MODULE Runtime -------------------------------
(***************************************************************************)
(* The runtime (pkg/runtime/runtime.go) with its dispatchers               *)
(* (dispatcher.go): a goroutine per source receives messages, routes each  *)
(* to a pool and hands it to the dispatcher of the pair (source, pool),    *)
(* created on first use, whose own goroutine submits it to the pool.  Stop *)
(* cancels the runtime's context, waits for the sources, then for the      *)
(* dispatchers, then drains the pools one after the other.                 *)
(*                                                                         *)
(* A pool is a TaskQueue, which FixedPool implements: a FIFO queue with    *)
(* room for Queue tasks, at most Size[p] of them with its goroutines,      *)
(* refusing what comes once it is closed. Which pool the router picks is   *)
(* left open: for every message it may answer any pool of a set, or none.  *)
(*                                                                         *)
(* rtMu is a sync.RWMutex: a writer that waits for the readers keeps new   *)
(* readers out.  A section that neither waits nor calls out is one step.   *)
(***************************************************************************)
EXTENDS Naturals, Sequences, FiniteSets

CONSTANTS
  Source,      \* the sources (streams)
  Pool,        \* the pools
  Router,      \* the router
  Setting,     \* what else is set: the codec, the key function, the buffer size
  Slot,        \* Slot[x]: where the runtime keeps x: under its name in the
               \* srcs or the pools map, or in a field of its own
  Initially,   \* what of these is registered before anything else
  Later,       \* what is registered later, at any moment and any number of times
  Routes,      \* Routes[m]: what the router may answer for message m
  Msgs,        \* Msgs[s]: how many messages arrive, a bound for TLC
  Buffer,      \* capacity of a dispatcher's buffer, SetDispatcherBufferSize
  Queue,       \* capacity of a pool's queue
  Size,        \* Size[p]: goroutines of pool p
  NoPool,      \* no pool
  Stuck,       \* the messages whose handler never returns
  Callback,    \* the messages whose handler calls DumpMetrics
  Stopper,     \* the Stop calls
  Deadline     \* those of them whose context has a deadline

Item == Source \cup Pool \cup {Router} \cup Setting

Route == Source \X Pool       \* the keys of the dispatchers map
Msg   == UNION {{s} \X (1 .. Msgs[s]) : s \in Source}
NoMsg == <<>>

(* Buffer is at least 1: sizes up to 0 are replaced by 100. *)
ASSUME RuntimeAssumption ==
  /\ Source \cap Pool = {}
  /\ Router \notin Source \cup Pool /\ Setting \cap (Source \cup Pool \cup {Router}) = {}
  /\ \A x, y \in Item :
       Slot[x] = Slot[y] => x = y \/ \E kind \in {Source, Pool, Setting} : {x, y} \subseteq kind
  /\ Initially \subseteq Item /\ Later \subseteq Item
  /\ \A x, y \in Initially : Slot[x] = Slot[y] => x = y
  /\ Msgs \in [Source -> Nat]
  /\ \A m \in Msg : Routes[m] # {} /\ Routes[m] \subseteq Pool \cup {NoPool}
  /\ Buffer \in Nat \ {0}
  /\ Queue \in Nat
  /\ Size \in [Pool -> Nat \ {0}]
  /\ NoPool \notin Pool
  /\ Stuck \subseteq Msg /\ Callback \subseteq Msg
  /\ Deadline \subseteq Stopper

VARIABLES
  registered,  \* what is in the srcs and pools maps and in router
  replaced,    \* history: what another of its name has replaced there
  pending,     \* what a writer that waits for rtMu is about to register
  start,       \* where the Start call is
  spawning,    \* the sources its loop has still to start
  ctxDone,     \* the runtime's context has ended
  src,         \* src[s]: where the goroutine of source s is
  received,    \* received[s]: messages it has received
  dest,        \* dest[s]: the pool its current message goes to
  disp,        \* disp[r]: where the goroutine of dispatcher r is
  buf,         \* buf[r]: its buffer
  held,        \* held[r]: the message it is submitting
  queue,       \* queue[p]: the tasks waiting in pool p
  busy,        \* busy[p]: the tasks its goroutines have taken and not finished
  poolClosed,  \* the pools whose DrainAndStop was called
  stop,        \* stop[c]: where a Stop call is, or its outcome
  todo,        \* todo[c]: the dispatchers, then the pools, it has to stop
  at,          \* at[c]: the pool it is draining
  buffered,    \* history: the messages a dispatcher has accepted
  accepted,    \* history: the messages a pool has accepted
  fetched,     \* history: fetched[p]: what the goroutines of pool p have taken
               \* off its channel, in order
  handled,     \* history: the messages whose handler has returned
  early        \* history: the Stop calls made before Start had started all

cfgVars   == <<registered, replaced, pending>>
startVars == <<start, spawning, ctxDone>>
srcVars   == <<src, received, dest>>
dispVars  == <<disp, buf, held, buffered>>
poolVars  == <<queue, busy, accepted, fetched, handled>>
stopVars  == <<stop, todo, at, poolClosed, early>>
vars == <<cfgVars, startVars, srcVars, dispVars, poolVars, stopVars>>

StopReturns == {"ok", "err", "notStarted"}

TypeOK ==
  /\ registered \subseteq Item /\ replaced \subseteq Item
  /\ pending \subseteq Item /\ Cardinality(pending) <= 1
  /\ start \in {"idle", "unlocked", "spawn", "wait", "returned"}
  /\ spawning \subseteq Source
  /\ ctxDone \in BOOLEAN
  /\ src \in [Source -> {"none", "config", "recv", "route", "try", "exited"}]
  /\ received \in [Source -> Nat]
  /\ dest \in [Source -> Pool \cup {NoPool}]
  /\ disp \in [Route -> {"none", "select", "submit", "exited"}]
  /\ buf \in [Route -> Seq(Msg)]
  /\ held \in [Route -> Msg \cup {NoMsg}]
  /\ \A r \in Route : Len(buf[r]) <= Buffer
  /\ queue \in [Pool -> Seq(Msg)]
  /\ busy \in [Pool -> SUBSET Msg]
  /\ \A p \in Pool : Len(queue[p]) <= Queue /\ Cardinality(busy[p]) <= Size[p]
  /\ poolClosed \subseteq Pool
  /\ stop \in [Stopper -> {"idle", "sources", "snapshot", "dispatchers", "pools"}
                          \cup StopReturns]
  /\ todo \in [Stopper -> SUBSET (Route \cup Pool)]
  /\ at \in [Stopper -> Pool \cup {NoPool}]
  /\ buffered \subseteq Msg /\ accepted \subseteq Msg /\ handled \subseteq Msg
  /\ fetched \in [Pool -> Seq(Msg)]
  /\ early \subseteq Stopper

Init ==
  /\ registered = Initially /\ replaced = {} /\ pending = {}
  /\ start = "idle" /\ spawning = {}
  /\ ctxDone = FALSE
  /\ src = [s \in Source |-> "none"]
  /\ received = [s \in Source |-> 0]
  /\ dest = [s \in Source |-> NoPool]
  /\ disp = [r \in Route |-> "none"]
  /\ buf = [r \in Route |-> <<>>]
  /\ held = [r \in Route |-> NoMsg]
  /\ queue = [p \in Pool |-> <<>>]
  /\ busy = [p \in Pool |-> {}]
  /\ poolClosed = {}
  /\ stop = [c \in Stopper |-> "idle"]
  /\ todo = [c \in Stopper |-> {}]
  /\ at = [c \in Stopper |-> NoPool]
  /\ buffered = {} /\ accepted = {} /\ handled = {}
  /\ fetched = [p \in Pool |-> <<>>]
  /\ early = {}

-----------------------------------------------------------------------------
(* rtMu, and the calls that write: RegisterSource, RegisterPool, UseRouter,*)
(* UseMessageCodec, UseKeyFunc, SetDispatcherBufferSize                    *)

(* A mutant: an error of a pool makes Stop return without unlocking. *)
StopHoldsAfterError == {"pools", "err"}

(* A mutant: Stop keeps the read lock from its beginning to its end. *)
StopHoldsThroughout == {"sources", "snapshot", "dispatchers", "pools"}

(* Where Stop holds rtMu for reading. *)
StopHolds == {"pools"}

(* Start's loop, or a Stop, holds rtMu for reading. *)
ReadLocked == start = "spawn" \/ \E c \in Stopper : stop[c] \in StopHolds

(* A reader may lock rtMu. *)
Readable == pending = {}

(* The maps and the fields are overwritten: what was kept in the same slot *)
(* is no longer registered, whether somebody uses it or not.               *)
Put(x) ==
  /\ registered' = {y \in registered : Slot[y] # Slot[x]} \cup {x}
  /\ replaced' = replaced \cup (registered \ registered')

(* A writer that has to wait has announced itself; others queue behind it. *)
Register(x) ==
  /\ Readable
  /\ IF ReadLocked THEN pending' = {x} /\ UNCHANGED <<registered, replaced>>
                   ELSE Put(x) /\ UNCHANGED pending
  /\ UNCHANGED <<startVars, srcVars, dispVars, poolVars, stopVars>>

WriterGoes ==
  /\ ~ReadLocked
  /\ \E x \in pending : Put(x)
  /\ pending' = {}
  /\ UNCHANGED <<startVars, srcVars, dispVars, poolVars, stopVars>>

-----------------------------------------------------------------------------
(* Start.  Without a router it returns, and may be called again; once it   *)
(* has run, calling it again changes nothing.                              *)

StartGoto(from, to) ==
  /\ start = from /\ start' = to
  /\ UNCHANGED <<ctxDone, cfgVars, dispVars, poolVars, stopVars>>

StartCall ==
  /\ Router \in registered
  /\ StartGoto("idle", "unlocked")
  /\ UNCHANGED <<spawning, srcVars>>

(* Sources that were registered in between are started too. *)
StartLoop ==
  /\ Readable
  /\ StartGoto("unlocked", "spawn")
  /\ spawning' = registered \cap Source
  /\ UNCHANGED srcVars

(* wgSrc.Add(1) and the go statement for one source. *)
StartSource(s) ==
  /\ s \in spawning
  /\ StartGoto("spawn", "spawn")
  /\ spawning' = spawning \ {s}
  /\ src' = [src EXCEPT ![s] = "config"]
  /\ UNCHANGED <<received, dest>>

StartWait ==
  /\ spawning = {}
  /\ StartGoto("spawn", "wait")
  /\ UNCHANGED <<spawning, srcVars>>

StartReturn ==
  /\ ctxDone
  /\ StartGoto("wait", "returned")
  /\ UNCHANGED <<spawning, srcVars>>

StartStep == StartLoop \/ (\E s \in Source : StartSource(s)) \/ StartWait \/ StartReturn

(* The context given to Start ends. *)
CancelStart ==
  /\ start # "idle" /\ ~ctxDone
  /\ ctxDone' = TRUE
  /\ UNCHANGED <<start, spawning, cfgVars, srcVars, dispVars, poolVars, stopVars>>

-----------------------------------------------------------------------------
(* The goroutine of a source *)

Current(s) == <<s, received[s]>>

SourceGoto(s, from, to) ==
  /\ src[s] = from
  /\ src' = [src EXCEPT ![s] = to]
  /\ UNCHANGED <<cfgVars, startVars, poolVars, stopVars>>

(* Under rtMu it copies the codec, the router and the handler. *)
Configure(s) ==
  /\ Readable
  /\ SourceGoto(s, "config", "recv")
  /\ UNCHANGED <<received, dest, dispVars>>

Recv(s) ==
  /\ received[s] < Msgs[s]
  /\ received' = [received EXCEPT ![s] = @ + 1]
  /\ SourceGoto(s, "recv", "route")
  /\ UNCHANGED <<dest, dispVars>>

(* Recv fails: its context has ended or, at any time, the channel of the   *)
(* source was closed.                                                      *)
RecvError(s) ==
  /\ SourceGoto(s, "recv", "exited")
  /\ UNCHANGED <<received, dest, dispVars>>

(* The router has no entry for the source, or none yet: the message is     *)
(* dropped.                                                                *)
NoRoute(s) ==
  /\ SourceGoto(s, "route", "recv")
  /\ NoPool \in Routes[Current(s)]
  /\ UNCHANGED <<received, dest, dispVars>>

(* Dispatchers are kept by the names of source and pool, and each goes on  *)
(* submitting to the pool it was created for: a message for another pool   *)
(* of that name is handed to it too.                                       *)
Via(s, q) ==
  LET known == {p \in Pool : Slot[p] = Slot[q] /\ disp[<<s, p>>] # "none"} IN
  IF known = {} THEN {q} ELSE known

(* A mutant: the dispatcher is created without looking for one. *)
FreshAlways(r) == TRUE

(* getOrCreateDispatcher looks twice, the second time under a write lock.  *)
Fresh(r) == disp[r] = "none"

(* Route or RouteWithKey, then getOrCreateDispatcher; p is the pool of the *)
(* dispatcher.                                                             *)
RouteTo(s, p) ==
  LET r == <<s, p>> IN
  /\ SourceGoto(s, "route", "try")
  /\ \E q \in Routes[Current(s)] \ {NoPool} : p \in Via(s, q)
  /\ dest' = [dest EXCEPT ![s] = p]
  /\ IF Fresh(r) THEN /\ disp' = [disp EXCEPT ![r] = "select"]
                      /\ buf' = [buf EXCEPT ![r] = <<>>]
                      /\ held' = [held EXCEPT ![r] = NoMsg]
                 ELSE UNCHANGED <<disp, buf, held>>
  /\ UNCHANGED <<received, buffered>>

(* A mutant: the buffer has no bound. *)
RoomAlways(r) == TRUE

Room(r) == Len(buf[r]) < Buffer

(* TrySubmit never waits: a message that finds the buffer full is dropped. *)
TrySubmit(s) ==
  LET r == <<s, dest[s]>> IN
  /\ SourceGoto(s, "try", "recv")
  /\ dest' = [dest EXCEPT ![s] = NoPool]
  /\ IF Room(r) THEN /\ buf' = [buf EXCEPT ![r] = Append(@, Current(s))]
                     /\ buffered' = buffered \cup {Current(s)}
                ELSE UNCHANGED <<buf, buffered>>
  /\ UNCHANGED <<received, disp, held>>

Forward(s) ==
  Configure(s) \/ NoRoute(s) \/ (\E p \in Pool : RouteTo(s, p)) \/ TrySubmit(s)

-----------------------------------------------------------------------------
(* The goroutine of a dispatcher.  Its context is a child of the runtime's *)
(* and is cancelled by Stop only after that one.                           *)

DispatcherGoto(r, from, to, msg) ==
  /\ disp[r] = from
  /\ disp' = [disp EXCEPT ![r] = to]
  /\ held' = [held EXCEPT ![r] = msg]
  /\ UNCHANGED <<buffered, cfgVars, startVars, srcVars, stopVars>>

DispatcherTake(r) ==
  /\ buf[r] # <<>>
  /\ DispatcherGoto(r, "select", "submit", Head(buf[r]))
  /\ buf' = [buf EXCEPT ![r] = Tail(@)]
  /\ UNCHANGED poolVars

(* What is still buffered is left there. *)
DispatcherExit(r) ==
  /\ ctxDone
  /\ DispatcherGoto(r, "select", "exited", NoMsg)
  /\ UNCHANGED <<buf, poolVars>>

(* A mutant: a pool that is being drained still takes tasks. *)
OpenAlways(p) == TRUE

Open(p) == p \notin poolClosed

(* The task goes to the queue of the pool or, when a goroutine of the pool *)
(* waits at the empty queue, to it.                                        *)
SubmitSend(r) ==
  LET p == r[2] IN
  /\ DispatcherGoto(r, "submit", "select", NoMsg)
  /\ Open(p)
  /\ \/ /\ Len(queue[p]) < Queue
        /\ queue' = [queue EXCEPT ![p] = Append(@, held[r])]
        /\ UNCHANGED <<busy, fetched>>
     \/ /\ queue[p] = <<>> /\ Cardinality(busy[p]) < Size[p]
        /\ busy' = [busy EXCEPT ![p] = @ \cup {held[r]}]
        /\ fetched' = [fetched EXCEPT ![p] = Append(@, held[r])]
        /\ UNCHANGED queue
  /\ accepted' = accepted \cup {held[r]}
  /\ UNCHANGED <<buf, handled>>

(* A mutant: the context is not passed on to Submit. *)
FailsWhenClosed(r) == r[2] \in poolClosed

(* The pool's Submit fails: its context has ended or the pool is closed. *)
Fails(r) == ctxDone \/ r[2] \in poolClosed

(* A mutant: the message is put back, to be tried again. *)
BufferedAgain(r) == [buf EXCEPT ![r] = Append(@, held[r])]

(* The message is logged and forgotten. *)
BufferAfterError(r) == buf

SubmitError(r) ==
  /\ Fails(r)
  /\ DispatcherGoto(r, "submit", "select", NoMsg)
  /\ buf' = BufferAfterError(r)
  /\ UNCHANGED poolVars

DispatcherStep(r) ==
  DispatcherTake(r) \/ DispatcherExit(r) \/ SubmitSend(r) \/ SubmitError(r)

-----------------------------------------------------------------------------
(* The goroutines of a pool.  One of them takes a task off the channel;    *)
(* some time later it calls the handler, and finishes when that returns.   *)

Fetch(p) ==
  /\ Cardinality(busy[p]) < Size[p]
  /\ queue[p] # <<>>
  /\ busy' = [busy EXCEPT ![p] = @ \cup {Head(queue[p])}]
  /\ fetched' = [fetched EXCEPT ![p] = Append(@, Head(queue[p]))]
  /\ queue' = [queue EXCEPT ![p] = Tail(@)]
  /\ UNCHANGED <<accepted, handled, cfgVars, startVars, srcVars, dispVars, stopVars>>

Finish(p, m) ==
  /\ m \in busy[p] \ Stuck
  /\ m \in Callback => Readable
  /\ busy' = [busy EXCEPT ![p] = @ \ {m}]
  /\ handled' = handled \cup {m}
  /\ UNCHANGED <<queue, fetched, accepted, cfgVars, startVars, srcVars, dispVars, stopVars>>

-----------------------------------------------------------------------------
(* Stop *)

StopGoto(c, from, to) ==
  /\ stop[c] = from
  /\ stop' = [stop EXCEPT ![c] = to]
  /\ UNCHANGED <<start, spawning, cfgVars, srcVars, dispVars, poolVars>>

StopCall(c) ==
  /\ Readable
  /\ IF start = "idle"
       THEN StopGoto(c, "idle", "notStarted") /\ UNCHANGED <<ctxDone, early>>
       ELSE /\ StopGoto(c, "idle", "sources")
            /\ ctxDone' = TRUE
            /\ early' = IF start \in {"unlocked", "spawn"} THEN early \cup {c} ELSE early
  /\ UNCHANGED <<todo, at, poolClosed>>

(* A mutant: the sources are not waited for. *)
SourcesGoneAtOnce == TRUE

(* wgSrc is at zero: only the sources that were started count. *)
SourcesGone == \A s \in Source : src[s] \in {"none", "exited"}

StopSources(c) ==
  /\ SourcesGone
  /\ StopGoto(c, "sources", "snapshot")
  /\ UNCHANGED <<ctxDone, todo, at, poolClosed, early>>

StopSnapshot(c) ==
  /\ StopGoto(c, "snapshot", "dispatchers")
  /\ todo' = [todo EXCEPT ![c] = {r \in Route : disp[r] # "none"}]
  /\ UNCHANGED <<ctxDone, at, poolClosed, early>>

StopDispatchers(c) ==
  /\ StopGoto(c, "dispatchers", "pools")
  /\ Readable
  /\ \A r \in todo[c] : disp[r] = "exited"
  /\ todo' = [todo EXCEPT ![c] = registered \cap Pool]
  /\ UNCHANGED <<ctxDone, at, poolClosed, early>>

(* The pools map is iterated in any order. *)
StopPool(c, p) ==
  /\ at[c] = NoPool /\ p \in todo[c]
  /\ StopGoto(c, "pools", "pools")
  /\ poolClosed' = poolClosed \cup {p}
  /\ at' = [at EXCEPT ![c] = p]
  /\ UNCHANGED <<ctxDone, todo, early>>

(* A mutant: the pool is drained when its queue is empty. *)
DrainedWhenEmpty(p) == queue[p] = <<>>

Drained(p) == queue[p] = <<>> /\ busy[p] = {}

StopDrained(c) ==
  /\ at[c] # NoPool /\ Drained(at[c])
  /\ StopGoto(c, "pools", "pools")
  /\ todo' = [todo EXCEPT ![c] = @ \ {at[c]}]
  /\ at' = [at EXCEPT ![c] = NoPool]
  /\ UNCHANGED <<ctxDone, poolClosed, early>>

(* The context of Stop, which nothing else looks at, has ended first: the  *)
(* other pools are not drained.                                            *)
StopTimeout(c) ==
  /\ c \in Deadline /\ at[c] # NoPool
  /\ StopGoto(c, "pools", "err")
  /\ todo' = [todo EXCEPT ![c] = {}]
  /\ at' = [at EXCEPT ![c] = NoPool]
  /\ UNCHANGED <<ctxDone, poolClosed, early>>

StopReturn(c) ==
  /\ todo[c] = {}
  /\ StopGoto(c, "pools", "ok")
  /\ UNCHANGED <<ctxDone, todo, at, poolClosed, early>>

StopStep(c) ==
  \/ StopSources(c) \/ StopSnapshot(c) \/ StopDispatchers(c)
  \/ (\E p \in Pool : StopPool(c, p))
  \/ StopDrained(c) \/ StopTimeout(c) \/ StopReturn(c)

-----------------------------------------------------------------------------
Next ==
  \/ (\E x \in Later : Register(x)) \/ WriterGoes
  \/ StartCall \/ StartStep
  \/ CancelStart
  \/ \E s \in Source : Recv(s) \/ RecvError(s) \/ Forward(s)
  \/ \E r \in Route : DispatcherStep(r)
  \/ \E p \in Pool : Fetch(p) \/ \E m \in Msg : Finish(p, m)
  \/ \E c \in Stopper : StopCall(c) \/ StopStep(c)

Spec == Init /\ [][Next]_vars

(* Every goroutine that can go on does.  Handlers return, but for those of *)
(* the messages in Stuck, and the deadline of a Stop comes.  A source or a *)
(* dispatcher whose context has ended leaves its select, which is random,  *)
(* so that messages cannot win for ever.  Nobody has to start or stop the  *)
(* runtime or to register anything, and no message has to arrive.          *)
Fairness ==
  /\ WF_vars(StartStep) /\ WF_vars(WriterGoes)
  /\ \A s \in Source : WF_vars(Forward(s)) /\ SF_vars(ctxDone /\ RecvError(s))
  /\ \A r \in Route : WF_vars(DispatcherStep(r)) /\ SF_vars(DispatcherExit(r))
  /\ \A p \in Pool : WF_vars(Fetch(p)) /\ WF_vars(\E m \in Msg : Finish(p, m))
  /\ \A c \in Stopper : WF_vars(StopStep(c))

FairSpec == Spec /\ Fairness

-----------------------------------------------------------------------------
(* Properties *)

Elements(seq) == {seq[i] : i \in DOMAIN seq}

(* The messages of one source are taken off the channel of a pool in the   *)
(* order in which they were received, each at most once, whatever is       *)
(* dropped or refused in between and however Stop interferes.  A pool with *)
(* one goroutine has handled one before it takes the next, so that its     *)
(* handlers run in that order and one by one; where there are several      *)
(* goroutines, the handlers may start in another order.                    *)
HandlerOrder ==
  \A p \in Pool : \A i, j \in DOMAIN fetched[p] : i < j =>
    /\ fetched[p][i][1] = fetched[p][j][1] => fetched[p][i][2] < fetched[p][j][2]
    /\ Size[p] = 1 => fetched[p][i] \in handled

(* Until the runtime's context ends, a message that a dispatcher took is   *)
(* in its buffer, in its hands or with a pool; and what a pool accepted    *)
(* stays there until it is handled, also after that.                       *)
NothingForgotten ==
  /\ ctxDone \/ buffered \subseteq
       (UNION {Elements(buf[r]) : r \in Route}) \cup {held[r] : r \in Route} \cup accepted
  /\ accepted \subseteq
       (UNION {Elements(queue[p]) \cup busy[p] : p \in Pool}) \cup handled

(* How far a message has come, and to which pool. *)
At(m)     == {p \in Pool : m \in Elements(buf[<<m[1], p>>]) \/ held[<<m[1], p>>] = m}
Within(m) == {p \in Pool : m \in Elements(queue[p])}
Ran(m)    == {p \in Pool : m \in Elements(fetched[p])}

MsgStatus(m) ==
  CASE m[2] > received[m[1]] -> "new"
    [] m = Current(m[1]) /\ src[m[1]] \in {"route", "try"} -> "received"
    [] m \in handled -> "handled"
    [] m \notin handled /\ Ran(m) # {} -> "fetched"
    [] At(m) # {} -> "taken"
    [] Within(m) # {} -> "accepted"
    [] OTHER -> "lost"

MsgPool(m) ==
  LET where == At(m) \cup Within(m) \cup Ran(m) IN
  IF where = {} THEN NoPool ELSE CHOOSE p \in where : TRUE

D == INSTANCE Delivery WITH
       status   <- [m \in Msg |-> MsgStatus(m)],
       to       <- [m \in Msg |-> MsgPool(m)],
       stopping <- ctxDone

(* The runtime keeps the promise of Delivery, however many dispatchers are *)
(* created, buffers are full and Stops come in between: no message is      *)
(* forgotten while it runs, none is handled twice, and none overtakes      *)
(* another of its source on the way into a pool.                           *)
Delivers == D!Spec

Q(p) == INSTANCE TaskQueue WITH
          Task   <- Msg,
          Size   <- Size[p],
          queue  <- queue[p],
          busy   <- busy[p],
          closed <- p \in poolClosed

(* The dispatchers of a pool and the Stop calls, all at once, use it as    *)
(* the TaskQueue it is: every message is submitted to it once, none enters *)
(* it after it was closed, and what it has leaves its channel in order.    *)
PoolsAreQueues ==
  /\ \A p \in Pool : Q(p)!Init
  /\ [][\A p \in Pool : [Q(p)!Next]_(Q(p)!vars)]_vars

Quiet ==
  /\ \A s \in Source : src[s] \in {"none", "exited"}
  /\ \A r \in Route : disp[r] \in {"none", "exited"}

(* Stop closes a pool only when no source and no dispatcher is left that   *)
(* could submit to it, those created while it was stopping included, so    *)
(* that no Submit meets a closed pool.  This needs Start to have started   *)
(* every source before Stop is called.                                     *)
PoolsCloseLast == (early = {} /\ poolClosed # {}) => Quiet

(* When Stop has returned nil, all is quiet for good: everything a pool    *)
(* accepted has been handled and no handler is running, for every pool     *)
(* that was registered from the beginning and that no other pool of its    *)
(* name has replaced.                                                      *)
StopQuiesces ==
  (early = {} /\ \E c \in Stopper : stop[c] = "ok") =>
    \A p \in (Pool \cap Initially) \ replaced : queue[p] = <<>> /\ busy[p] = {}

(* A writer that waits for rtMu waits for Start's loop, which does not     *)
(* lock again, or for a Stop that drains the pools; and then it keeps out  *)
(* nobody whom that Stop has to wait for, neither Start nor a source nor a *)
(* dispatcher, except a handler that calls DumpMetrics.                    *)
LockWaits ==
  (early = {} /\ pending # {} /\ ReadLocked) =>
    \/ start = "spawn"
    \/ (\E c \in Stopper : stop[c] = "pools") /\ start \in {"wait", "returned"} /\ Quiet

(* A writer gets the lock in the end, however many readers come, if every  *)
(* Stop has a deadline: no reader leaves it locked behind.                 *)
WritersGetIn == pending # {} ~> pending = {}

(* A Stop with a deadline comes back, whatever the handlers do and however *)
(* full the pools are: no dispatcher is left waiting at a full pool, and   *)
(* no source for a lock.                                                   *)
StopComesBack ==
  \A c \in Deadline : stop[c] = "sources" ~> stop[c] \in StopReturns

(* Handlers that never return, with the queue and the buffer before them   *)
(* full, do not hold up a source that routes to their pool; nor does a     *)
(* writer that waits for a Stop keep a new source from its configuration,  *)
(* while that Stop waits for the source.                                   *)
SourcesNeverWait ==
  []<>(\A s \in Source : src[s] \in {"none", "recv", "exited"})

-----------------------------------------------------------------------------
(* What the comments promise and the code does not keep *)

(* Stop has every task in the dispatchers' buffers processed               *)
(* (runtime.go:286, dispatcher.go:82).                                     *)
StopEmptiesBuffers ==
  (early = {} /\ \E c \in Stopper : stop[c] = "ok")
    => buffered \subseteq handled

(* Stop waits until the goroutines of all sources have exited, so that no  *)
(* new task is submitted to the pools (runtime.go:282-283).                *)
StopWaitsForSources ==
  \A c \in Stopper : stop[c] = "pools" => \A s \in Source : src[s] \in {"none", "exited"}
=============================================================================
