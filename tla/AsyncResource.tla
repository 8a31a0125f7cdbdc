--------------------------- MODULE AsyncResource ---------------------------
(***************************************************************************)
(* sio::async::use and use_resources (async_resource.hpp): every resource  *)
(* is opened, a function runs with all tokens, and every token is closed.  *)
(* use_resources is first(let_value_each(zip(use(r)...), fn)); of zip (see *)
(* Zip) and first (see ItemResults) this module keeps what they do to the  *)
(* items: an item waits in zip until every child has one, a stop completes *)
(* the items that wait at the drain, and first stops the item once it has  *)
(* a result.  Every resource is opened and closed on a thread of its own.  *)
(***************************************************************************)
EXTENDS Integers, FiniteSets

CONSTANT Resources

(* Those that stop zip: a child, fn's sender and the receiver.             *)
Stoppers == Resources \union {"body", "outer"}

ASSUME StoppersAssumption == {"body", "outer"} \cap Resources = {}

VARIABLES
  use,        \* per resource: where its sequence is
  handle,     \* per resource: the file descriptor in the kernel
  requested,  \* the stop sources with a request: the receiver's (outer), zip's
  requesting, \* the stoppers about to call stop_source_.request_stop()
  draining,   \* the stoppers between that and the drain of the queues
  errors,     \* zip's errors_
  body,       \* the sender that fn returned
  result,     \* what first stored
  outcome     \* how the receiver was completed

stopVars == <<requested, requesting, draining>>

resourceVars == <<use, handle, stopVars, errors, body, result, outcome>>

ResourceInit ==
  /\ use = [r \in Resources |-> "idle"]
  /\ handle = [r \in Resources |-> "none"]
  /\ requested = {} /\ requesting = {} /\ draining = {}
  /\ errors = FALSE
  /\ body = "waiting"
  /\ result = "none"
  /\ outcome = "none"

Goes(r, to) == use' = [use EXCEPT ![r] = to]

(* open_t: operation::start of one child after the other submits OPENAT.   *)
StartOpen(r) ==
  /\ use[r] = "idle"
  /\ Goes(r, "opening")
  /\ UNCHANGED <<handle, stopVars, errors, body, result, outcome>>

(* set_value_unless_stopped with the stop token of zip.                    *)
Unless == IF "zip" \in requested THEN "stopped" ELSE "value"

(* Mutant of OpenValue: a refused item ends without close.                 *)
OpenValueRefused(r) ==
  /\ use[r] = "opening"
  /\ handle' = [handle EXCEPT ![r] = "open"]
  /\ Goes(r, IF "zip" \in requested THEN "stopped" ELSE "pushing")
  /\ UNCHANGED <<stopVars, errors, body, result, outcome>>

(* open_operation_base::complete with a file descriptor, then              *)
(* open_receiver::set_value: the token is stored and finally(next, close)  *)
(* is started.  Zip refuses the item after a stop request, and finally     *)
(* goes on with close(token).                                              *)
OpenValue(r) ==
  /\ use[r] = "opening"
  /\ handle' = [handle EXCEPT ![r] = "open"]
  /\ Goes(r, IF "zip" \in requested THEN "closing" ELSE "pushing")
  /\ UNCHANGED <<stopVars, errors, body, result, outcome>>

(* The queue of the child takes the item, whatever happened since.         *)
PushToken(r) ==
  /\ use[r] = "pushing"
  /\ Goes(r, "ready")
  /\ UNCHANGED <<handle, stopVars, errors, body, result, outcome>>

(* The same when set_next, connect or close throws: nobody closes.         *)
OpenThrows(r) ==
  /\ use[r] = "opening"
  /\ handle' = [handle EXCEPT ![r] = "lost"]
  /\ Goes(r, "error")
  /\ UNCHANGED <<stopVars, errors, body, result, outcome>>

(* open_receiver::set_error and open_receiver::set_stopped.                *)
OpenFails(r) ==
  /\ use[r] = "opening"
  /\ \E with \in {"error", Unless} : Goes(r, with)
  /\ UNCHANGED <<handle, stopVars, errors, body, result, outcome>>

(* use_operation::start of every item delivered its token: zip has a tuple *)
(* and let_value starts what fn returns, or zip completes the items of the *)
(* tuple after a stop request.                                             *)
BeginUse ==
  /\ body = "waiting"
  /\ \A r \in Resources : use[r] = "ready"
  /\ body' = IF "zip" \in requested THEN body ELSE "running"
  /\ use' = [r \in Resources |-> IF "zip" \in requested THEN "closing" ELSE "used"]
  /\ UNCHANGED <<handle, stopVars, errors, result, outcome>>

(* first stores the result and completes its item with set_stopped, so     *)
(* that zip is to stop.                                                    *)
EndUse ==
  \E with \in {"value", "error", "stopped"} :
    /\ body = "running"
    /\ body' = "done"
    /\ result' = with
    /\ requesting' = requesting \union {"body"}
    /\ UNCHANGED <<use, handle, requested, draining, errors, outcome>>

(* close_operation_base::complete: final_receiver::set_stopped after a     *)
(* result of 0 (the item was stopped), set_error after another one.  Close *)
(* is not stoppable.                                                       *)
CloseDone(r) ==
  /\ use[r] = "closing"
  /\ handle' = [handle EXCEPT ![r] = IF @ = "open" THEN "closed" ELSE "closed twice"]
  /\ \E with \in {Unless, "error"} : Goes(r, with)
  /\ UNCHANGED <<stopVars, errors, body, result, outcome>>

-----------------------------------------------------------------------------
(* What first delivers when zip ends with set_value.                       *)
Visit == IF result = "none" THEN "stopped" ELSE result

(* Mutant of Ending: zip's own stop passes for one of the receiver.        *)
EndingStopped(with) ==
  IF with = "error" THEN "error"
  ELSE IF with = "stopped" THEN "stopped"
  ELSE IF errors THEN "error"
  ELSE Visit

(* The last child of zip decides how zip and first end.  After its         *)
(* set_stopped nobody looks at errors_.                                    *)
Ending(with) ==
  IF with = "error" THEN "error"
  ELSE IF "outer" \in requested THEN "stopped"
  ELSE IF with = "value" /\ errors THEN "error"
  ELSE Visit

(* The sequences that have given up their n_pending_operations_.           *)
Departed == {r \in Resources : use[r] \in {"failing", "ended"}}

(* A child of zip ends: the last one completes zip, the others call        *)
(* notify_stop or notify_error, possibly after that.                       *)
ChildEnds(r) ==
  LET last == Resources \ {r} \subseteq Departed
  IN /\ use[r] \in {"value", "stopped", "error"}
     /\ Goes(r, IF use[r] = "error" /\ ~last THEN "failing" ELSE "ended")
     /\ requesting' =
          IF last \/ use[r] = "error" THEN requesting ELSE requesting \union {r}
     /\ outcome' = IF last THEN Ending(use[r]) ELSE outcome
     /\ UNCHANGED <<handle, requested, draining, errors, body, result>>

(* notify_error.                                                           *)
NotifyError(r) ==
  /\ use[r] = "failing"
  /\ Goes(r, "ended")
  /\ errors' = TRUE
  /\ requesting' = requesting \union {r}
  /\ UNCHANGED <<handle, requested, draining, body, result, outcome>>

(* notify_stop: stop_source_.request_stop().                               *)
RequestZipStop(x) ==
  /\ x \in requesting
  /\ requesting' = requesting \ {x}
  /\ draining' = draining \union {x}
  /\ requested' = requested \union {"zip"}
  /\ UNCHANGED <<use, handle, errors, body, result, outcome>>

(* Zip completes the items that wait with set_stopped, and fn's item those *)
(* of its tuple; exec::finally goes on with close(token).                  *)
Drain(x) ==
  /\ x \in draining
  /\ draining' = draining \ {x}
  /\ use' = [r \in Resources |->
               IF use[r] = "ready" \/ (x = "body" /\ use[r] = "used")
                 THEN "closing" ELSE use[r]]
  /\ UNCHANGED <<handle, requested, requesting, errors, body, result, outcome>>

(* The receiver requests stop, and zip's callback passes it on.            *)
ResourceStop ==
  /\ outcome = "none"
  /\ "outer" \notin requested
  /\ requested' = requested \union {"outer"}
  /\ requesting' = requesting \union {"outer"}
  /\ UNCHANGED <<use, handle, draining, errors, body, result, outcome>>

ResourceStep ==
  \/ \E r \in Resources :
       \/ StartOpen(r)
       \/ OpenValue(r) \/ PushToken(r) \/ OpenThrows(r) \/ OpenFails(r)
       \/ CloseDone(r)
       \/ ChildEnds(r) \/ NotifyError(r)
  \/ \E x \in Stoppers : RequestZipStop(x) \/ Drain(x)
  \/ BeginUse
  \/ EndUse

ResourceNext == ResourceStep \/ ResourceStop

-----------------------------------------------------------------------------
(* Whatever fails or is stopped while other resources are being opened,    *)
(* when the receiver is completed every descriptor that was opened is      *)
(* closed, once, and none while fn's sender runs.  Only one whose          *)
(* set_value threw is lost.                                                *)
OpenedIsClosedOnce ==
  /\ outcome # "none" => \A r \in Resources : handle[r] # "open"
  /\ \A r \in Resources : handle[r] # "closed twice"
  /\ body = "running" => \A r \in Resources : handle[r] = "open"

(* What fn's sender reported reaches the receiver, although zip and first  *)
(* stop everything that is still under way to get there.  Only a close     *)
(* that fails, or a stop request of the receiver, takes precedence.        *)
ResultSurvives ==
  outcome # "none" /\ body = "done" /\ "outer" \notin requested =>
    outcome \in {result, "error"}

(* The kernel answers every submission and fn's sender ends: the receiver  *)
(* is completed, unless a token that zip accepted before a stop request    *)
(* and pushed after the drain waits there for ever (as in Zip).            *)
UseCompletesOrStrands ==
  \/ <>(outcome # "none")
  \/ <>[](draining = {} /\ "zip" \in requested /\ \E r \in Resources : use[r] = "ready")
=============================================================================
