------------------------------ MODULE Finally ------------------------------
(***************************************************************************)
(* sio::finally (sequence/finally.hpp) and sio::tap (tap.hpp): a final     *)
(* sender runs after an initial sequence, for tap only if no item failed.  *)
(* The receiver can request stop at any time.                              *)
(***************************************************************************)
EXTENDS Integers

CONSTANT MaxItems  \* bound on the items of the initial sequence

VARIABLES
  adaptor,    \* "finally" or "tap"
  initial,    \* the initial sequence: how it ended, if it did
  itemsLeft,  \* how many items it may still have
  itemUp,     \* whether an item is under way
  success,    \* tap: success_
  failed,     \* whether an item has failed
  final,      \* the final operation
  receiver,   \* how the receiver was completed
  stopAsked   \* the stop token of the receiver

finallyVars == <<adaptor, initial, itemsLeft, itemUp, success, failed, final,
                 receiver, stopAsked>>

FinallyInit ==
  /\ adaptor \in {"finally", "tap"}
  /\ initial = "connected"
  /\ itemsLeft = IF adaptor = "tap" THEN 1 ELSE MaxItems
  /\ itemUp = FALSE
  /\ success = TRUE
  /\ failed = FALSE
  /\ final = "connected"
  /\ receiver = "waiting"
  /\ stopAsked = FALSE

(* operation::start.                                                       *)
StartInitial ==
  /\ initial = "connected"
  /\ initial' = "running"
  /\ UNCHANGED <<adaptor, itemsLeft, itemUp, success, failed, final, receiver, stopAsked>>

(* set_next: passed on to the receiver, by tap through make_next_sender.   *)
NextItem ==
  /\ initial = "running" /\ ~itemUp /\ itemsLeft > 0
  /\ itemUp' = TRUE
  /\ itemsLeft' = itemsLeft - 1
  /\ UNCHANGED <<adaptor, initial, success, failed, final, receiver, stopAsked>>

(* Mutant of ItemFails: let_stopped does not clear success_.               *)
ItemFailsUnnoticed ==
  /\ itemUp
  /\ itemUp' = FALSE
  /\ failed' = TRUE
  /\ UNCHANGED <<adaptor, initial, itemsLeft, success, final, receiver, stopAsked>>

(* The item ends with set_error or set_stopped: tap's let_error and        *)
(* let_stopped clear success_ before they pass it on.                      *)
ItemFails ==
  /\ itemUp
  /\ itemUp' = FALSE
  /\ failed' = TRUE
  /\ success' = (success /\ adaptor # "tap")
  /\ UNCHANGED <<adaptor, initial, itemsLeft, final, receiver, stopAsked>>

ItemSucceeds ==
  /\ itemUp
  /\ itemUp' = FALSE
  /\ UNCHANGED <<adaptor, initial, itemsLeft, success, failed, final, receiver, stopAsked>>

SetValueUnlessStopped == IF stopAsked THEN "stopped" ELSE "value"

(* initial_receiver: finally starts the final operation however the        *)
(* sequence ended (its error is dropped), tap only after success.  tap's   *)
(* sequence is one item, without an error of its own, and the receiver     *)
(* need not start it: set_next may return a sender that drops the item.    *)
InitialEnds ==
  /\ initial = "running" /\ ~itemUp
  /\ \E signal \in {"value", "error", "stopped"} :
       /\ adaptor = "tap" => signal # "error"
       /\ initial' = signal
  /\ IF success THEN final' = "running" /\ UNCHANGED receiver
                ELSE receiver' = SetValueUnlessStopped /\ UNCHANGED final
  /\ UNCHANGED <<adaptor, itemsLeft, itemUp, success, failed, stopAsked>>

(* receiver_ref.                                                           *)
FinalEnds ==
  /\ final = "running"
  /\ \E signal \in {"value", "error", "stopped"} :
       /\ final' = signal
       /\ receiver' = IF signal = "stopped" THEN SetValueUnlessStopped ELSE signal
  /\ UNCHANGED <<adaptor, initial, itemsLeft, itemUp, success, failed, stopAsked>>

AskStop ==
  /\ ~stopAsked
  /\ stopAsked' = TRUE
  /\ UNCHANGED <<adaptor, initial, itemsLeft, itemUp, success, failed, final, receiver>>

FinallyStep == StartInitial \/ NextItem \/ ItemFails \/ ItemSucceeds
                 \/ InitialEnds \/ FinalEnds

FinallyNext == FinallyStep \/ AskStop

-----------------------------------------------------------------------------
(* The receiver of finally is completed only after the final sender ended, *)
(* whatever happened to the sequence and its items; for tap the final      *)
(* sender runs exactly if no item failed.                                  *)
FinalRunsWhenItShould ==
  /\ adaptor = "finally" /\ receiver # "waiting" =>
       final \in {"value", "error", "stopped"}
  /\ adaptor = "tap" /\ final # "connected" => ~failed
  /\ adaptor = "tap" /\ receiver # "waiting" /\ ~failed => final # "connected"

(* Every sequence ends, so the receiver is completed, stopped or not.      *)
ReceiverOfFinallyCompletes == <>(receiver # "waiting")
=============================================================================
