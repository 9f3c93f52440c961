----------------------------- MODULE WeightedRR -----------------------------
(***************************************************************************)
(* WeightedRRRouter (pkg/flow/router/weighted_rr.go) for one stream: the   *)
(* streams share nothing but the lock of the map.  BindMany and SetMany    *)
(* build an entry, a table in which each pool appears as often as its      *)
(* weight says, and publish it; RouteWithKey reads the published entry     *)
(* under the lock and then, outside of it, either hashes its key into the  *)
(* entry or advances the entry's cursor.                                   *)
(***************************************************************************)
EXTENDS Integers, Sequences

CONSTANTS
  Pool,        \* the pools
  NoPool,      \* nil, as an argument and as a result
  Config,      \* the arguments of BindMany and SetMany: [pools, weights]
  Key,         \* the keys of messages
  NoKey,       \* an empty key
  Hash,        \* Hash[k]: FNV-1a of a key, as a number
  Caller,      \* the goroutines that route
  MaxEntries,  \* bound for TLC: entries built
  MaxCursor    \* bound for TLC: keyless calls an entry serves

ASSUME RouterAssumption ==
  /\ NoPool \notin Pool
  /\ NoKey \notin Key
  /\ \A k \in Key : Hash[k] \in Nat
  /\ \A config \in Config : /\ config.pools \in Seq(Pool \cup {NoPool})
                             /\ config.weights \in Seq(Int)
  /\ MaxEntries \in Nat /\ MaxCursor \in Nat

-----------------------------------------------------------------------------
(* buildRREntry *)

(* Euclid's loop on <<a, b>>. *)
gcd[ab \in Nat \X Nat] ==
  IF ab[2] = 0 THEN ab[1] ELSE gcd[<<ab[2], ab[1] % ab[2]>>]

GcdOf(ws) ==
  LET g[n \in 1 .. Len(ws)] == IF n = 1 THEN ws[1] ELSE gcd[<<g[n - 1], ws[n]>>]
  IN  g[Len(ws)]

(* A mutant: a nil pool is not looked for. *)
BuildableNil(config) ==
  /\ Len(config.pools) = Len(config.weights)
  /\ \E i \in DOMAIN config.weights : config.weights[i] > 0

(* The arguments buildRREntry refuses: nothing to choose from, lists of    *)
(* different lengths, a nil pool before or at the first error, no positive *)
(* weight.                                                                 *)
Buildable(config) ==
  /\ Len(config.pools) = Len(config.weights)
  /\ \A i \in DOMAIN config.pools : config.pools[i] # NoPool
  /\ \E i \in DOMAIN config.weights : config.weights[i] > 0

(* The positions with a positive weight, in order. *)
Kept(config) ==
  LET kept[n \in 0 .. Len(config.pools)] ==
        IF n = 0 THEN <<>>
        ELSE IF config.weights[n] > 0 THEN Append(kept[n - 1], n) ELSE kept[n - 1]
  IN  kept[Len(config.pools)]

(* A mutant: the weights are taken as they are. *)
Unscaled(ws) == ws

(* The weights divided by their greatest common divisor. *)
Scaled(ws) == LET g == GcdOf(ws) IN [i \in DOMAIN ws |-> ws[i] \div g]

(* Each position as often as its weight says. *)
Table(ws) ==
  LET table[n \in 0 .. Len(ws)] ==
        IF n = 0 THEN <<>> ELSE table[n - 1] \o [k \in 1 .. ws[n] |-> n]
  IN  table[Len(ws)]

(* A mutant: the table keeps the positions of the pools it was given. *)
BuildUnfiltered(config) ==
  LET kept == Kept(config)
      ws   == Scaled([i \in DOMAIN kept |-> config.weights[kept[i]]])
  IN  [targets |-> config.pools, table |-> Table(ws)]

(* The ring, for keyed messages, is a copy of the table. *)
Build(config) ==
  LET kept == Kept(config)
      ws   == [i \in DOMAIN kept |-> config.weights[kept[i]]]
  IN  [targets |-> [i \in DOMAIN kept |-> config.pools[kept[i]]],
       table   |-> Table(Scaled(ws))]

-----------------------------------------------------------------------------
VARIABLES
  entries,  \* the entries built so far; they are never changed but for
  cursor,   \* cursor[e]: the cursor of entry e
  route,    \* the entry in the routes map, 0 if there is none
  call,     \* call[c]: the entry caller c has read, and its message's key
  configs,  \* history: the arguments entry e was built from
  picked,   \* history: picked[e][p]: keyless messages entry e sent to pool p
  sticky    \* history: sticky[e][k]: the pool entry e gave key k

entryVars == <<entries, configs>>
pickVars  == <<cursor, picked, sticky>>
vars == <<entryVars, route, call, pickVars>>

Keys == Key \cup {NoKey}

Idle == [entry |-> 0, key |-> NoKey]

TypeOK ==
  /\ Len(entries) <= MaxEntries
  /\ \A e \in DOMAIN entries :
       /\ Len(entries[e].table) > 0
       /\ \A i \in DOMAIN entries[e].table :
            entries[e].targets[entries[e].table[i]] \in Pool
  /\ DOMAIN cursor = DOMAIN entries /\ DOMAIN configs = DOMAIN entries
  /\ \A e \in DOMAIN cursor : cursor[e] \in Nat
  /\ route \in 0 .. Len(entries)
  /\ call \in [Caller -> [entry : 0 .. Len(entries), key : Keys]]

Init ==
  /\ entries = <<>> /\ cursor = <<>> /\ configs = <<>>
  /\ picked = <<>> /\ sticky = <<>>
  /\ route = 0
  /\ call = [c \in Caller |-> Idle]

(* Arguments that cannot be built are refused and change nothing. *)
Publish(config) ==
  /\ Len(entries) < MaxEntries
  /\ Buildable(config)
  /\ entries' = Append(entries, Build(config))
  /\ configs' = Append(configs, config)
  /\ cursor' = Append(cursor, 0)
  /\ picked' = Append(picked, [p \in Pool |-> 0])
  /\ sticky' = Append(sticky, [k \in Key |-> NoPool])
  /\ route' = Len(entries) + 1
  /\ UNCHANGED call

(* BindMany, and Bind with the one weight 1, want no entry to be there;    *)
(* SetMany replaces the one that is.                                       *)
BindMany(config) == route = 0 /\ Publish(config)
SetMany(config)  == Publish(config)

(* The read of the map.  A caller that finds no entry returns at once.     *)
RouteRead(c, k) ==
  /\ call[c] = Idle
  /\ route # 0
  /\ call' = [call EXCEPT ![c] = [entry |-> route, key |-> k]]
  /\ UNCHANGED <<entryVars, route, pickVars>>

Keyed(c)   == call[c] # Idle /\ call[c].key # NoKey
Keyless(c) == call[c] # Idle /\ call[c].key = NoKey

Return(c) == call' = [call EXCEPT ![c] = Idle]

Slot(e, n) ==
  LET table == entries[e].table IN entries[e].targets[table[1 + (n % Len(table))]]

(* A mutant: a keyed message goes where the cursor points. *)
RouteKeyedByCursor(c) ==
  LET e == call[c].entry
      p == Slot(e, cursor[e])
  IN  /\ Keyed(c)
      /\ cursor[e] < MaxCursor
      /\ cursor' = [cursor EXCEPT ![e] = @ + 1]
      /\ sticky' = [sticky EXCEPT ![e][call[c].key] = p]
      /\ Return(c)
      /\ UNCHANGED <<entryVars, route, picked>>

RouteKeyed(c) ==
  LET e == call[c].entry
      p == Slot(e, Hash[call[c].key])
  IN  /\ Keyed(c)
      /\ sticky' = [sticky EXCEPT ![e][call[c].key] = p]
      /\ Return(c)
      /\ UNCHANGED <<entryVars, route, cursor, picked>>

(* A mutant: the cursor is read from the published entry and the table     *)
(* from the entry that was read.                                           *)
RouteKeylessSwapped(c) ==
  LET e == call[c].entry
      p == Slot(e, cursor[route])
  IN  /\ Keyless(c)
      /\ cursor[route] < MaxCursor
      /\ cursor' = [cursor EXCEPT ![route] = @ + 1]
      /\ picked' = [picked EXCEPT ![e][p] = @ + 1]
      /\ Return(c)
      /\ UNCHANGED <<entryVars, route, sticky>>

(* atomic.AddUint64(&e.cursor, 1) - 1 *)
RouteKeyless(c) ==
  LET e == call[c].entry
      p == Slot(e, cursor[e])
  IN  /\ Keyless(c)
      /\ cursor[e] < MaxCursor
      /\ cursor' = [cursor EXCEPT ![e] = @ + 1]
      /\ picked' = [picked EXCEPT ![e][p] = @ + 1]
      /\ Return(c)
      /\ UNCHANGED <<entryVars, route, sticky>>

Next ==
  \/ \E config \in Config : BindMany(config) \/ SetMany(config)
  \/ \E c \in Caller : (\E k \in Keys : RouteRead(c, k)) \/ RouteKeyed(c) \/ RouteKeyless(c)

Spec == Init /\ [][Next]_vars

-----------------------------------------------------------------------------
(* Properties *)

Positive(w) == IF w > 0 THEN w ELSE 0

(* The sums of the first numbers of a sequence, and the sum of all. *)
Sums(ns) == LET sum[n \in 0 .. Len(ns)] == IF n = 0 THEN 0 ELSE sum[n - 1] + ns[n] IN sum
SumOf(ns) == Sums(ns)[Len(ns)]

(* The weight a configuration asks for a pool, which it may list twice. *)
WeightOf(config, p) ==
  SumOf([i \in DOMAIN config.weights |->
           IF config.pools[i] = p THEN Positive(config.weights[i]) ELSE 0])

WeightSum(config) ==
  SumOf([i \in DOMAIN config.weights |-> Positive(config.weights[i])])

(* Whenever an entry has served whole rounds of its table, the keyless     *)
(* messages it has sent are shared out exactly as the weights ask, however *)
(* the callers interleave, those that still hold an entry SetMany has      *)
(* replaced included; and at no time is a pool ahead of or behind its      *)
(* share by more than the messages of one round.                           *)
Proportional ==
  \A e \in DOMAIN entries : \A p \in Pool :
    LET n   == Len(entries[e].table)
        due == cursor[e] * WeightOf(configs[e], p)
        got == picked[e][p] * WeightSum(configs[e])
    IN  /\ cursor[e] % n = 0 => got = due
        /\ got - due < n * WeightSum(configs[e])
        /\ due - got < n * WeightSum(configs[e])

(* A pool without a positive weight gets no message, keyed or not. *)
OnlyWeighted ==
  \A e \in DOMAIN entries : \A p \in Pool :
    picked[e][p] > 0 \/ (\E k \in Key : sticky[e][k] = p) => WeightOf(configs[e], p) > 0

(* An entry sends a key to one pool, for ever: the binding of a key does   *)
(* not depend on the traffic.  RoutesByWeight says so for all calls too.   *)
KeySticky ==
  [][\A e \in DOMAIN sticky : \A k \in Key :
       sticky[e][k] # NoPool => sticky'[e][k] = sticky[e][k]]_vars

(* Weights in the same ratio move no key: entries with the same pools and  *)
(* proportional weights, a rebalance that changes nothing or writes 2:4    *)
(* for 1:2, have the same ring.                                            *)
SameRatioSameRing ==
  \A e, f \in DOMAIN entries :
    (/\ configs[e].pools = configs[f].pools
     /\ \A i \in DOMAIN configs[e].pools :
          Positive(configs[e].weights[i]) * WeightSum(configs[f])
            = Positive(configs[f].weights[i]) * WeightSum(configs[e]))
    => entries[e] = entries[f]

SR == INSTANCE StreamRoute WITH
       Weighting <- {[p \in Pool |-> WeightOf(config, p)] :
                       config \in {any \in Config : Buildable(any)}},
       weights   <- [e \in DOMAIN configs |-> [p \in Pool |-> WeightOf(configs[e], p)]],
       sent      <- picked,
       home      <- sticky

(* The router is a StreamRoute: every call goes by the weights that were   *)
(* in force when it looked, even if they are replaced before it takes its  *)
(* slot; counted in their weights, no two pools are ever more than a round *)
(* apart, though lists may name a pool twice or have a common divisor; and *)
(* keyed messages change nothing for the others.                           *)
RoutesByWeight == SR!Spec
=============================================================================
