------------------------------ MODULE AsyncLock ------------------------------
(***************************************************************************)
(* What async_mutex promises to the users of lock(), with none of its      *)
(* machinery: a lock operation is started once, waits, holds the mutex     *)
(* while its continuation runs, and releases it when the continuation      *)
(* returns.  At most one operation holds the mutex at any time and every   *)
(* operation that was started gets it in the end.                          *)
(***************************************************************************)
CONSTANT Ops          \* the lock operations, each connected and started once

VARIABLE status       \* where in its life each operation is

Statuses == {"idle", "waiting", "holding", "released"}

Init == status = [o \in Ops |-> "idle"]

Request(o) ==
  /\ status[o] = "idle"
  /\ status' = [status EXCEPT ![o] = "waiting"]

Acquire(o) ==
  /\ status[o] = "waiting"
  /\ \A p \in Ops : status[p] # "holding"
  /\ status' = [status EXCEPT ![o] = "holding"]

Release(o) ==
  /\ status[o] = "holding"
  /\ status' = [status EXCEPT ![o] = "released"]

Next == \E o \in Ops : Request(o) \/ Acquire(o) \/ Release(o)

(* Nobody has to ask for the mutex; whoever asked gets it.                 *)
Fairness == \A o \in Ops : SF_status(Acquire(o)) /\ WF_status(Release(o))

SafeSpec == Init /\ [][Next]_status

Spec == SafeSpec /\ Fairness
=============================================================================
