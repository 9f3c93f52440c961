----------------------------- MODULE WorkerPool -----------------------------
(***************************************************************************)
(* What a worker pool promises to its callers (pkg/pool/pool.go): a task   *)
(* handed to Submit is either refused, and never runs, or accepted, and    *)
(* runs once; DrainAndStop stops accepting and, when it reports success,   *)
(* nothing accepted is outstanding.  How tasks are queued and how many     *)
(* goroutines run them is left to the implementations.                     *)
(***************************************************************************)
CONSTANT Task

VARIABLES
  status,   \* status[t]: what became of the Submit call for t
  open,     \* the pool may still accept a task
  drained   \* some DrainAndStop has reported success

vars == <<status, open, drained>>

Status == {"new", "accepted", "done", "refused"}

TypeOK ==
  /\ status \in [Task -> Status]
  /\ open \in BOOLEAN
  /\ drained \in BOOLEAN

Init ==
  /\ status = [t \in Task |-> "new"]
  /\ open = TRUE
  /\ drained = FALSE

Accept(t) ==
  /\ open
  /\ status[t] = "new"
  /\ status' = [status EXCEPT ![t] = "accepted"]
  /\ UNCHANGED <<open, drained>>

Refuse(t) ==
  /\ status[t] = "new"
  /\ status' = [status EXCEPT ![t] = "refused"]
  /\ UNCHANGED <<open, drained>>

Run(t) ==
  /\ status[t] = "accepted"
  /\ status' = [status EXCEPT ![t] = "done"]
  /\ UNCHANGED <<open, drained>>

Close ==
  /\ open
  /\ open' = FALSE
  /\ UNCHANGED <<status, drained>>

ReportDrained ==
  /\ ~open
  /\ \A t \in Task : status[t] # "accepted"
  /\ drained' = TRUE
  /\ UNCHANGED <<status, open>>

Next ==
  \/ \E t \in Task : Accept(t) \/ Refuse(t) \/ Run(t)
  \/ Close
  \/ ReportDrained

Spec == Init /\ [][Next]_vars
=============================================================================
