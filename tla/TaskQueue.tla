------------------------------ MODULE TaskQueue ------------------------------
(***************************************************************************)
(* How a pool with one queue and Size goroutines works, as its callers see *)
(* it (pkg/pool/fixed_pool.go): tasks wait in the order in which they were *)
(* accepted, and the goroutines take them in it, no more than Size at a    *)
(* time. When a goroutine executes the task it has taken is its own        *)
(* affair: where there are several, tasks may start in another order. A    *)
(* pool that is closed accepts nothing more and works off what it has; it  *)
(* is drained when nothing is left.                                        *)
(*                                                                         *)
(* FixedPool implements this, and Runtime takes it for its pools.          *)
(***************************************************************************)
EXTENDS Naturals, Sequences, FiniteSets

CONSTANTS
  Task,   \* the tasks
  Queue,  \* how many may wait
  Size    \* how many goroutines there are

VARIABLES
  queue,  \* the tasks that wait
  busy,   \* the tasks that goroutines have taken and not finished
  closed  \* the pool has been closed

vars == <<queue, busy, closed>>

Init ==
  /\ queue = <<>>
  /\ busy = {}
  /\ closed = FALSE

(* A goroutine has nothing to do. *)
Free == Cardinality(busy) < Size

New(t) == t \notin busy /\ \A i \in DOMAIN queue : queue[i] # t

Enqueue(t) ==
  /\ ~closed /\ New(t)
  /\ Len(queue) < Queue
  /\ queue' = Append(queue, t)
  /\ UNCHANGED <<busy, closed>>

(* From the caller to a goroutine, past the empty queue. *)
Handoff(t) ==
  /\ ~closed /\ New(t)
  /\ Free /\ queue = <<>>
  /\ busy' = busy \cup {t}
  /\ UNCHANGED <<queue, closed>>

Fetch ==
  /\ Free /\ queue # <<>>
  /\ busy' = busy \cup {Head(queue)}
  /\ queue' = Tail(queue)
  /\ UNCHANGED closed

Finish(t) ==
  /\ t \in busy
  /\ busy' = busy \ {t}
  /\ UNCHANGED <<queue, closed>>

Close ==
  /\ closed' = TRUE
  /\ UNCHANGED <<queue, busy>>

Next ==
  \/ \E t \in Task : Enqueue(t) \/ Handoff(t) \/ Finish(t)
  \/ Fetch
  \/ Close

Spec == Init /\ [][Next]_vars

Drained == closed /\ queue = <<>> /\ busy = {}
=============================================================================
