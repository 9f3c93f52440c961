------------------------------ MODULE Delivery ------------------------------
(***************************************************************************)
(* What the runtime promises about the messages between the sources and    *)
(* the handlers: each is handled at most once; those of a source that go   *)
(* to the same pool are fetched by its goroutines in their order, and what *)
(* several goroutines make of that order is left open; and one is lost     *)
(* only when it comes out of its source, or on the way to the pool once    *)
(* the runtime is being stopped. Dispatchers, buffers and queues are left  *)
(* to the implementation.                                                  *)
(***************************************************************************)
EXTENDS Naturals

CONSTANTS
  Msg,      \* the messages: pairs of a source and a number
  Pool,     \* the pools
  NoPool    \* no pool

VARIABLES
  status,   \* status[m]: how far message m has come
  to,       \* to[m]: the pool it goes to, or went to
  stopping  \* the runtime is being stopped

vars == <<status, to, stopping>>

Earlier(m) == {o \in Msg : o[1] = m[1] /\ o[2] < m[2]}

Init ==
  /\ status = [m \in Msg |-> "new"]
  /\ to = [m \in Msg |-> NoPool]
  /\ stopping = FALSE

(* Message m moves on, and no other does. *)
Becomes(m, what, pool) ==
  /\ status'[m] = what /\ to'[m] = pool
  /\ \A o \in Msg \ {m} : status'[o] = status[o] /\ to'[o] = to[o]
  /\ UNCHANGED stopping

(* A source hands over its messages one after the other. *)
Receive(m) ==
  /\ status[m] = "new"
  /\ \A o \in Earlier(m) : status[o] \notin {"new", "received"}
  /\ Becomes(m, "received", NoPool)

Drop(m) == status[m] = "received" /\ Becomes(m, "lost", NoPool)

Take(m, pool) == status[m] = "received" /\ Becomes(m, "taken", pool)

Lose(m) == stopping /\ status[m] = "taken" /\ Becomes(m, "lost", NoPool)

(* From here on the message will be handled, if the handlers before it     *)
(* return.                                                                 *)
Accept(m) == status[m] = "taken" /\ Becomes(m, "accepted", to[m])

Fetch(m) ==
  /\ status[m] \in {"taken", "accepted"}
  /\ \A o \in Earlier(m) : to[o] = to[m] => status[o] \notin {"taken", "accepted"}
  /\ Becomes(m, "fetched", to[m])

Finish(m) == status[m] = "fetched" /\ Becomes(m, "handled", to[m])

Stop ==
  /\ ~stopping /\ stopping' = TRUE
  /\ UNCHANGED <<status, to>>

Next ==
  \/ \E m \in Msg : \/ Receive(m) \/ Drop(m) \/ Lose(m)
                    \/ (\E pool \in Pool : Take(m, pool))
                    \/ Accept(m) \/ Fetch(m) \/ Finish(m)
  \/ Stop

Spec == Init /\ [][Next]_vars
=============================================================================
