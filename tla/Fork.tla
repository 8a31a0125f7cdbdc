-------------------------------- MODULE Fork --------------------------------
(***************************************************************************)
(* sio::fork (sequence/fork.hpp): every item of the parent sequence is     *)
(* copied into an item operation that is allocated, started and detached,  *)
(* so that the parent can go on while the items run.  ref_counter_ keeps   *)
(* the operation alive: one reference for the parent sequence and one for  *)
(* each item, and whoever drops the last one completes the receiver.       *)
(*                                                                         *)
(* Every access to ref_counter_ and completion_type_ is a step;            *)
(* request_stop() is one, since is_stop_requested_ only keeps stop_source_ *)
(* from being asked twice, but for the stop callback, within whose call    *)
(* items and the parent may end.  The parent may have several calls of     *)
(* set_next under way and completes when they have all returned.           *)
(***************************************************************************)
EXTENDS Integers, Sequences, FiniteSets

CONSTANT Items      \* the items the parent sequence may produce

VARIABLES
  ref_counter,     \* ref_counter_
  completion_type, \* completion_type_: value, emplacing (1), error, stopped
  stop,            \* is_stop_requested_ and stop_source_
  outerStop,       \* the receiver's stop token was stopped
  callback,        \* stop_callback_
  parent,          \* where operation::start() and the parent sequence are
  item,            \* where each item is
  failures,        \* who called set_error, as the parent or as an item
  delivered        \* the completions of the receiver, in order

vars == <<ref_counter, completion_type, stop, outerStop, callback, parent,
          item, failures, delivered>>

CompletionTypes == {"value", "emplacing", "error", "stopped"}

CallbackStates ==
  {"none", "registered", "running", "stopping", "decreasing", "last", "returned", "reset"}

ParentStates ==
  {"idle", "registered", "starting", "running", "set_error", "emplacing", "stopping",
   "decreasing", "last", "done", "refused"}

(* refused to emplacing: the next sender built by set_next;                *)
(* created to deleting: the detached item operation.                       *)
ItemStates ==
  {"idle", "refused", "acquired", "allocating", "set_error", "emplacing",
   "abandoned", "created", "running", "deleting", "decreasing", "last", "done"}

Init ==
  /\ ref_counter = 0
  /\ completion_type = "value"
  /\ stop = FALSE
  /\ outerStop = FALSE
  /\ callback = "none"
  /\ parent = "idle"
  /\ item = [i \in Items |-> "idle"]
  /\ failures = {}
  /\ delivered = <<>>

(* The next sender of an item has completed: the parent may go on.         *)
NextReturned(i) ==
  item[i] \in {"idle", "running", "deleting", "decreasing", "last", "done"}

-----------------------------------------------------------------------------
(* operation::start(): stop_callback_.emplace.  If the receiver was        *)
(* stopped before, the callback runs here: request_stop and decrease_ref,  *)
(* which takes ref_counter_ from 0 to -1.                                  *)
Start ==
  /\ parent = "idle"
  /\ parent' = "registered"
  /\ IF outerStop
       THEN /\ stop' = TRUE
            /\ ref_counter' = ref_counter - 1
            /\ callback' = "returned"
       ELSE /\ callback' = "registered"
            /\ UNCHANGED <<stop, ref_counter>>
  /\ UNCHANGED <<completion_type, outerStop, item, failures, delivered>>

(* operation::start(): not stopped, ...                                    *)
PassStopCheck ==
  /\ parent = "registered"
  /\ ~stop
  /\ parent' = "starting"
  /\ UNCHANGED <<ref_counter, completion_type, stop, outerStop, callback, item,
                 failures, delivered>>

(* ... so the parent sequence is started.  The store also undoes what a    *)
(* callback has subtracted since.                                          *)
StartParent ==
  /\ parent = "starting"
  /\ ref_counter' = 1
  /\ parent' = "running"
  /\ UNCHANGED <<completion_type, stop, outerStop, callback, item, failures,
                 delivered>>

(* The callback has begun and not returned on its own thread.              *)
CallbackUnderWay == callback \in {"running", "stopping", "decreasing", "last"}

(* Mutant of RefuseStart: the parent is started after set_stopped was sent.*)
RefuseStartWithoutReturn ==
  /\ parent = "registered"
  /\ stop
  /\ ~CallbackUnderWay
  /\ callback' = "reset"
  /\ delivered' = Append(delivered, "stopped")
  /\ ref_counter' = 1
  /\ parent' = "running"
  /\ UNCHANGED <<completion_type, stop, outerStop, item, failures>>

(* operation::start(): stopped already; resetting the callback waits until *)
(* it has returned.                                                        *)
RefuseStart ==
  /\ parent = "registered"
  /\ stop
  /\ ~CallbackUnderWay
  /\ callback' = "reset"
  /\ delivered' = Append(delivered, "stopped")
  /\ parent' = "refused"
  /\ UNCHANGED <<ref_counter, completion_type, stop, outerStop, item, failures>>

-----------------------------------------------------------------------------
(* Mutant of SetNext: the item runs without a reference of its own.        *)
SetNextWithoutRef(i) ==
  /\ parent = "running"
  /\ item[i] = "idle"
  /\ item' = [item EXCEPT ![i] = "acquired"]
  /\ UNCHANGED <<ref_counter, completion_type, stop, outerStop, callback,
                 parent, failures, delivered>>

(* receiver::set_next: increase_ref fails only when the count is 0.        *)
SetNext(i) ==
  /\ parent = "running"
  /\ item[i] = "idle"
  /\ item' = [item EXCEPT ![i] = IF ref_counter = 0 THEN "refused"
                                                    ELSE "acquired"]
  /\ ref_counter' = IF ref_counter = 0 THEN 0 ELSE ref_counter + 1
  /\ UNCHANGED <<completion_type, stop, outerStop, callback, parent, failures,
                 delivered>>

(* just_stopped and the item's own set_stopped lead to upon_stopped.       *)
ItemStopped(i) ==
  /\ item[i] \in {"refused", "acquired"}
  /\ item' = [item EXCEPT ![i] = "abandoned"]
  /\ UNCHANGED <<ref_counter, completion_type, stop, outerStop, callback,
                 parent, failures, delivered>>

(* The item has its values: async_new begins.                              *)
ItemValue(i) ==
  /\ item[i] = "acquired"
  /\ item' = [item EXCEPT ![i] = "allocating"]
  /\ UNCHANGED <<ref_counter, completion_type, stop, outerStop, callback,
                 parent, failures, delivered>>

(* async_new completes: with the item operation, or stopped.               *)
Allocated(i) ==
  /\ item[i] = "allocating"
  /\ \E result \in {"created", "abandoned"} :
       item' = [item EXCEPT ![i] = result]
  /\ UNCHANGED <<ref_counter, completion_type, stop, outerStop, callback,
                 parent, failures, delivered>>

(* The item or async_new fails: upon_error.                                *)
ItemError(i) ==
  /\ item[i] \in {"acquired", "allocating"}
  /\ item' = [item EXCEPT ![i] = "set_error"]
  /\ failures' = failures \union {i}
  /\ UNCHANGED <<ref_counter, completion_type, stop, outerStop, callback,
                 parent, delivered>>

(* operation_base::set_error: the exchange that claims error_.             *)
ItemClaimError(i) ==
  /\ item[i] = "set_error"
  /\ completion_type' = IF completion_type = "value" THEN "emplacing"
                                                     ELSE completion_type
  /\ item' = [item EXCEPT ![i] = IF completion_type = "value"
                                   THEN "emplacing" ELSE "abandoned"]
  /\ UNCHANGED <<ref_counter, stop, outerStop, callback, parent, failures,
                 delivered>>

(* operation_base::set_error: emplace, and publish unless somebody stored  *)
(* stopped in the meantime.                                                *)
ItemEmplaceError(i) ==
  /\ item[i] = "emplacing"
  /\ completion_type' = IF completion_type = "emplacing" THEN "error"
                                                         ELSE completion_type
  /\ item' = [item EXCEPT ![i] = "abandoned"]
  /\ UNCHANGED <<ref_counter, stop, outerStop, callback, parent, failures,
                 delivered>>

(* upon_stopped and upon_error: request_stop, then decrease_ref.           *)
AbandonItem(i) ==
  /\ item[i] = "abandoned"
  /\ stop' = TRUE
  /\ item' = [item EXCEPT ![i] = "decreasing"]
  /\ UNCHANGED <<ref_counter, completion_type, outerStop, callback, parent,
                 failures, delivered>>

(* item_operation::start(): runs the receiver's next sender unless stop    *)
(* was requested.  The next sender of the parent completes here.           *)
StartItem(i) ==
  /\ item[i] = "created"
  /\ item' = [item EXCEPT ![i] = IF stop THEN "deleting" ELSE "running"]
  /\ UNCHANGED <<ref_counter, completion_type, stop, outerStop, callback,
                 parent, failures, delivered>>

(* item_receiver::set_value and set_stopped, which also requests stop.     *)
ItemDone(i) ==
  /\ item[i] = "running"
  /\ stop' \in {stop, TRUE}
  /\ item' = [item EXCEPT ![i] = "deleting"]
  /\ UNCHANGED <<ref_counter, completion_type, outerStop, callback, parent,
                 failures, delivered>>

(* async_delete has completed: final_receiver calls decrease_ref.          *)
ItemDeleted(i) ==
  /\ item[i] = "deleting"
  /\ item' = [item EXCEPT ![i] = "decreasing"]
  /\ UNCHANGED <<ref_counter, completion_type, stop, outerStop, callback,
                 parent, failures, delivered>>

-----------------------------------------------------------------------------
(* The parent completes after its next senders: set_value...               *)
ParentValue ==
  /\ parent = "running"
  /\ \A i \in Items : NextReturned(i)
  /\ parent' = "decreasing"
  /\ UNCHANGED <<ref_counter, completion_type, stop, outerStop, callback, item,
                 failures, delivered>>

(* ... set_stopped, which overrides what was stored before...              *)
ParentStopped ==
  /\ parent = "running"
  /\ \A i \in Items : NextReturned(i)
  /\ completion_type' = "stopped"
  /\ parent' = "stopping"
  /\ UNCHANGED <<ref_counter, stop, outerStop, callback, item, failures,
                 delivered>>

(* ... or set_error.                                                       *)
ParentError ==
  /\ parent = "running"
  /\ \A i \in Items : NextReturned(i)
  /\ parent' = "set_error"
  /\ failures' = failures \union {"parent"}
  /\ UNCHANGED <<ref_counter, completion_type, stop, outerStop, callback, item,
                 delivered>>

ParentClaimError ==
  /\ parent = "set_error"
  /\ completion_type' = IF completion_type = "value" THEN "emplacing"
                                                     ELSE completion_type
  /\ parent' = IF completion_type = "value" THEN "emplacing" ELSE "stopping"
  /\ UNCHANGED <<ref_counter, stop, outerStop, callback, item, failures,
                 delivered>>

ParentEmplaceError ==
  /\ parent = "emplacing"
  /\ completion_type' = IF completion_type = "emplacing" THEN "error"
                                                         ELSE completion_type
  /\ parent' = "stopping"
  /\ UNCHANGED <<ref_counter, stop, outerStop, callback, item, failures,
                 delivered>>

(* receiver::set_error and set_stopped: request_stop.                      *)
ParentRequestStop ==
  /\ parent = "stopping"
  /\ stop' = TRUE
  /\ parent' = "decreasing"
  /\ UNCHANGED <<ref_counter, completion_type, outerStop, callback, item,
                 failures, delivered>>

-----------------------------------------------------------------------------
(* decrease_ref(): fetch_sub(1) == 1 for the last reference.               *)
LastReference == IF ref_counter = 1 THEN "last" ELSE "done"

DecreaseRefParent ==
  /\ parent = "decreasing"
  /\ ref_counter' = ref_counter - 1
  /\ parent' = LastReference
  /\ UNCHANGED <<completion_type, stop, outerStop, callback, item, failures,
                 delivered>>

(* Mutant of DecreaseRefItem: the result of the subtraction is not used.   *)
DecreaseRefItemSilently(i) ==
  /\ item[i] = "decreasing"
  /\ ref_counter' = ref_counter - 1
  /\ item' = [item EXCEPT ![i] = "done"]
  /\ UNCHANGED <<completion_type, stop, outerStop, callback, parent, failures,
                 delivered>>

DecreaseRefItem(i) ==
  /\ item[i] = "decreasing"
  /\ ref_counter' = ref_counter - 1
  /\ item' = [item EXCEPT ![i] = LastReference]
  /\ UNCHANGED <<completion_type, stop, outerStop, callback, parent, failures,
                 delivered>>

(* Mutant of Result: only a stored error counts, a claimed one does not.   *)
ResultIgnoringStopped ==
  IF completion_type = "error" THEN "error"
  ELSE IF outerStop THEN "stopped" ELSE "value"

(* complete(): what the receiver is told.  set_value_unless_stopped asks   *)
(* the receiver's own stop token.                                          *)
Result ==
  CASE completion_type = "stopped" -> "stopped"
    [] completion_type = "error" -> "error"
    [] completion_type \in {"value", "emplacing"} ->
         IF outerStop THEN "stopped" ELSE "value"

(* complete() called by the parent or by an item: stop_callback_.reset()   *)
(* waits for a callback that runs on another thread, but not for the one   *)
(* whose request_stop() has just ended them; that goes on with its         *)
(* decrease_ref().                                                         *)
Complete ==
  /\ \/ ~CallbackUnderWay /\ callback' = "reset"
     \/ callback = "stopping" /\ UNCHANGED callback
  /\ delivered' = Append(delivered, Result)
  /\ \/ /\ parent = "last"
        /\ parent' = "done"
        /\ UNCHANGED item
     \/ \E i \in Items :
          /\ item[i] = "last"
          /\ item' = [item EXCEPT ![i] = "done"]
          /\ UNCHANGED parent
  /\ UNCHANGED <<ref_counter, completion_type, stop, outerStop, failures>>

-----------------------------------------------------------------------------
(* The receiver's stop token is stopped; the callback begins if there is   *)
(* one.                                                                    *)
OuterStop ==
  /\ ~outerStop
  /\ outerStop' = TRUE
  /\ callback' = IF callback = "registered" THEN "running" ELSE callback
  /\ UNCHANGED <<ref_counter, completion_type, stop, parent, item, failures,
                 delivered>>

(* on_stop_requested: request_stop, which runs what is registered with     *)
(* stop_source_, unless that was stopped before...                         *)
CallbackRequestStop ==
  /\ callback = "running"
  /\ stop' = TRUE
  /\ callback' = IF stop THEN "decreasing" ELSE "stopping"
  /\ UNCHANGED <<ref_counter, completion_type, outerStop, parent, item,
                 failures, delivered>>

CallbackStopReturns ==
  /\ callback = "stopping"
  /\ callback' = "decreasing"
  /\ UNCHANGED <<ref_counter, completion_type, stop, outerStop, parent, item,
                 failures, delivered>>

(* ... and decrease_ref, although the callback has no reference.           *)
CallbackDecreaseRef ==
  /\ callback = "decreasing"
  /\ ref_counter' = ref_counter - 1
  /\ callback' = IF ref_counter = 1 THEN "last" ELSE "returned"
  /\ UNCHANGED <<completion_type, stop, outerStop, parent, item, failures,
                 delivered>>

(* complete() called by the callback: reset() on the thread that runs the  *)
(* callback does not wait.                                                 *)
CallbackComplete ==
  /\ callback = "last"
  /\ callback' = "reset"
  /\ delivered' = Append(delivered, Result)
  /\ UNCHANGED <<ref_counter, completion_type, stop, outerStop, parent, item,
                 failures>>

-----------------------------------------------------------------------------
ItemStep(i) ==
  \/ ItemStopped(i)
  \/ ItemValue(i)
  \/ Allocated(i)
  \/ ItemError(i)
  \/ ItemClaimError(i)
  \/ ItemEmplaceError(i)
  \/ AbandonItem(i)
  \/ StartItem(i)
  \/ ItemDone(i)
  \/ ItemDeleted(i)
  \/ DecreaseRefItem(i)

ParentStep ==
  \/ PassStopCheck
  \/ StartParent
  \/ RefuseStart
  \/ ParentValue
  \/ ParentStopped
  \/ ParentError
  \/ ParentClaimError
  \/ ParentEmplaceError
  \/ ParentRequestStop
  \/ DecreaseRefParent

CallbackStep ==
  \/ CallbackRequestStop
  \/ CallbackStopReturns
  \/ CallbackDecreaseRef
  \/ CallbackComplete

(* The receiver may destroy the operation once it was completed; the model *)
(* keeps it to see who would still touch it.                               *)
AllReturned ==
  /\ parent \in {"done", "refused"}
  /\ \A i \in Items : item[i] \in {"idle", "done"}
  /\ ~CallbackUnderWay

Terminated == AllReturned /\ UNCHANGED vars

Next ==
  \/ Start
  \/ ParentStep
  \/ \E i \in Items : SetNext(i)
  \/ \E i \in Items : ItemStep(i)
  \/ Complete
  \/ OuterStop
  \/ CallbackStep
  \/ Terminated

SafeSpec == Init /\ [][Next]_vars

(* The parent sequence and the items end, threads keep running; how many   *)
(* items there are and whether stop is requested is left open.             *)
Spec ==
  /\ SafeSpec
  /\ WF_vars(Start)
  /\ WF_vars(ParentStep)
  /\ WF_vars(Complete)
  /\ WF_vars(CallbackStep)
  /\ \A i \in Items : WF_vars(ItemStep(i))

-----------------------------------------------------------------------------
(* The receiver is completed at most once, even if the stop callback takes *)
(* a reference away that nobody gave it.                                   *)
CompletedOnce == Len(delivered) <= 1

(* The references that are held: the parent's and those of the items.      *)
References ==
  Cardinality({i \in Items : item[i] \notin {"idle", "refused", "last", "done"}})
  + (IF parent \in {"idle", "registered", "starting", "last", "done", "refused"} THEN 0 ELSE 1)

(* Unless its own stop token was stopped, the receiver is completed only   *)
(* when neither the parent nor an item can touch the operation any more:   *)
(* ref_counter_ counts those, and never refuses an item.                   *)
CompletesAfterAllItems ==
  ~outerStop =>
    /\ ref_counter = References
    /\ \A i \in Items : item[i] # "refused"
    /\ delivered # <<>> =>
         /\ parent \in {"done", "refused"}
         /\ \A i \in Items : item[i] \in {"idle", "done"}

(* A failure of the parent or of an item shows: the receiver is not told   *)
(* set_value, whatever else completes at the same time.                    *)
FailureShows ==
  \A n \in 1..Len(delivered) : delivered[n] = "value" =>
    failures = {} /\ completion_type = "value"

(* Once all items and the parent have ended, the receiver hears of it.     *)
EventuallyCompletes == <>(delivered # <<>>)
=============================================================================
