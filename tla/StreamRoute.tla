----------------------------- MODULE StreamRoute -----------------------------
(***************************************************************************)
(* What a router promises for one stream (MutableRouter and KeyRouter of   *)
(* pkg/flow/router/router.go), without the tables and cursors that bring   *)
(* it about.  SetMany gives the stream new weights; a call is answered by  *)
(* the weights in force when it looked, be they replaced meanwhile or not; *)
(* messages without a key are spread so that no pool is ever a whole round *)
(* ahead of another, and a key keeps its pool.                             *)
(***************************************************************************)
EXTENDS Naturals, Sequences

CONSTANTS
  Pool, NoPool, Key, NoKey, Caller,
  Weighting  \* the weights a stream may be given: functions from Pool to Nat

VARIABLES
  weights,   \* the weights the stream was given so far, the last are in force
  call,      \* call[c]: the weights caller c goes by, and its message's key
  sent,      \* sent[e][p]: messages without a key sent to p by the weights e
  home       \* home[e][k]: the pool of key k under the weights e

vars == <<weights, call, sent, home>>

Idle == [entry |-> 0, key |-> NoKey]

Init ==
  /\ weights = <<>> /\ sent = <<>> /\ home = <<>>
  /\ call = [c \in Caller |-> Idle]

(* Some pool has to get the messages. *)
SetMany(w) ==
  /\ sent' = Append(sent, [p \in Pool |-> 0])
  /\ home' = Append(home, [k \in Key |-> NoPool])
  /\ UNCHANGED call
  /\ \E p \in Pool : w[p] > 0
  /\ weights' = Append(weights, w)

Look(c, k) ==
  /\ call[c] = Idle /\ weights # <<>>
  /\ call' = [call EXCEPT ![c] = [entry |-> Len(weights), key |-> k]]
  /\ UNCHANGED <<weights, sent, home>>

Return(c) == call[c] # Idle /\ call' = [call EXCEPT ![c] = Idle]

(* Measured by its weight, p is at most one round ahead of any other pool. *)
(* A pool without weight gets nothing.                                     *)
Level(w, n, p) == \A q \in Pool : n[p] * w[q] <= (n[q] + w[q]) * w[p]

Spread(c, p) ==
  LET e == call[c].entry IN
  /\ Return(c) /\ call[c].key = NoKey
  /\ sent' = [sent EXCEPT ![e][p] = @ + 1]
  /\ Level(weights[e], sent'[e], p)
  /\ UNCHANGED <<weights, home>>

Keep(c, p) ==
  LET e == call[c].entry
      k == call[c].key
  IN  /\ Return(c) /\ k # NoKey
      /\ weights[e][p] > 0 /\ home[e][k] \in {NoPool, p}
      /\ home' = [home EXCEPT ![e][k] = p]
      /\ UNCHANGED <<weights, sent>>

Next ==
  \/ \E w \in Weighting : SetMany(w)
  \/ \E c \in Caller, k \in Key \cup {NoKey} : Look(c, k)
  \/ \E c \in Caller, p \in Pool : Spread(c, p) \/ Keep(c, p)

Spec == Init /\ [][Next]_vars
=============================================================================
