---------------------------- MODULE StripedRoute ----------------------------
(***************************************************************************)
(* A StripedPool behind a dispatcher of the runtime (pkg/runtime/          *)
(* dispatcher.go): the tasks of a source come through the dispatcher's     *)
(* buffer, and its goroutine hands them to the pool one after the other,   *)
(* by Submit and never by SubmitWithKey.  Other tasks of the pool are      *)
(* submitted by callers of their own.                                      *)
(***************************************************************************)
EXTENDS StripedPool

CONSTANTS
  Arrivals,     \* the tasks of the source, in the order of its messages
  MsgKey,       \* MsgKey[t]: the key in the message of such a task
  Buffer        \* capacity of the dispatcher's buffer

Routed == {Arrivals[i] : i \in DOMAIN Arrivals}

(* The dispatcher's calls have no key, and its context may end. *)
ASSUME RouteAssumption ==
  /\ Arrivals \in Seq(Task)
  /\ \A i, j \in DOMAIN Arrivals : Arrivals[i] = Arrivals[j] => i = j
  /\ Routed \cap Keyed = {} /\ Routed \subseteq Cancellable
  /\ Buffer \in Nat \ {0}

VARIABLES
  arrived,      \* how many tasks the source has handed over
  buffer,       \* taskQueue
  held,         \* the tasks whose Submit has not returned
  routeDone,    \* the dispatcher's context has ended
  exited        \* its goroutine has returned

routeVars == <<arrived, buffer, held, routeDone, exited>>
allVars   == <<vars, routeVars>>

RouteInit ==
  /\ Init
  /\ arrived = 0
  /\ buffer = <<>>
  /\ held = {}
  /\ routeDone = FALSE /\ exited = FALSE

(* TrySubmit: a task that finds the buffer full is dropped. *)
TrySubmit ==
  /\ arrived < Len(Arrivals)
  /\ arrived' = arrived + 1
  /\ buffer' = IF Len(buffer) < Buffer THEN Append(buffer, Arrivals[arrived + 1]) ELSE buffer
  /\ UNCHANGED <<vars, held, routeDone, exited>>

(* A mutant: every task is submitted by a goroutine of its own. *)
FreeAlways == TRUE

Free == held = {}

Take ==
  /\ Free /\ ~exited /\ buffer # <<>>
  /\ held' = held \cup {Head(buffer)}
  /\ buffer' = Tail(buffer)
  /\ UNCHANGED <<vars, arrived, routeDone, exited>>

(* A mutant: Submit is given context.Background(). *)
EndedBackground(t) == FALSE

(* The context of the call has ended. *)
Ended(t) == routeDone

(* Submit(d.ctx, task) goes on, or has returned, with or without an error. *)
Submitting(t) ==
  /\ t \in held
  /\ SubmitCheck(t) \/ Submit(t) \/ (Ended(t) /\ SubmitCtx(t))
  /\ held' = IF submit'[t] \in SubmitReturns THEN held \ {t} ELSE held
  /\ UNCHANGED <<arrived, buffer, routeDone, exited>>

Exit ==
  /\ held = {} /\ routeDone /\ ~exited
  /\ exited' = TRUE
  /\ UNCHANGED <<vars, arrived, buffer, held, routeDone>>

(* Stop, or the context of the runtime. *)
EndRoute ==
  /\ ~routeDone
  /\ routeDone' = TRUE
  /\ UNCHANGED <<vars, arrived, buffer, held, exited>>

Direct(t) == SubmitCheck(t) \/ Submit(t) \/ SubmitCtx(t)

RouteNext ==
  \/ PoolStep /\ UNCHANGED routeVars
  \/ (\E t \in Task \ Routed : Direct(t)) /\ UNCHANGED routeVars
  \/ TrySubmit \/ Take \/ (\E t \in Routed : Submitting(t)) \/ Exit \/ EndRoute

RouteSpec == RouteInit /\ [][RouteNext]_allVars

(* As in StripedPool; the dispatcher's goroutine goes on too.              *)
RouteFairness ==
  /\ \A t \in Task \ Routed : WF_allVars(Submit(t) /\ UNCHANGED routeVars)
  /\ \A t \in Routed : WF_allVars(Submitting(t))
  /\ WF_allVars(Take) /\ WF_allVars(Exit)
  /\ \A s \in Stripe : WF_allVars(StripeStep(s) /\ UNCHANGED routeVars)
  /\ \A d \in Stopper : /\ WF_allVars(PollStripe(d) /\ UNCHANGED routeVars)
                        /\ WF_allVars(DrainStep(d) /\ UNCHANGED routeVars)

FairRouteSpec == RouteSpec /\ RouteFairness

-----------------------------------------------------------------------------
(* Properties *)

(* The messages of one key, which a source handed over in order, are taken *)
(* off the queue of the pool behind the dispatcher in that order, those    *)
(* dropped, refused or lost in a drain left out; and if the pool was       *)
(* started once, one has been handled before the next is taken.  This is   *)
(* what strategy 3 is for (strategy_3_strongly_ordered_en.md:134-151).  It *)
(* holds for one stripe; with several it would need SubmitWithKey.         *)
RouteOrder ==
  \A i, j \in DOMAIN Arrivals :
    LET a == Arrivals[i]  b == Arrivals[j] IN
    (i < j /\ MsgKey[a] = MsgKey[b] /\ Fetched(b) /\ IsSent(a)) =>
      Fetched(a) /\ (started = 1 => a \in done)

(* The dispatcher's goroutine leaves when its context ends, also in the    *)
(* middle of a Submit at a full queue that nobody makes room in.           *)
DispatcherLeaves == routeDone ~> exited
=============================================================================
