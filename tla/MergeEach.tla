------------------------------ MODULE MergeEach ------------------------------
(***************************************************************************)
(* sio::merge_each (sequence/merge_each.hpp): N child sequences run at the *)
(* same time and forward their items to one receiver.  The last child to   *)
(* complete completes the merged sequence, with the error of the child     *)
(* that claimed error_emplaced_ first if there was one.                    *)
(*                                                                         *)
(* Every atomic access of a child's completion is a step, in program       *)
(* order: the model is sequentially consistent.  Items are forwarded by    *)
(* set_next without touching the state of the operation and are left out.  *)
(***************************************************************************)
EXTENDS Integers, Sequences, FiniteSets

CONSTANT N            \* the number of child sequences, sizeof...(Senders)

ASSUME NAssumption == N \in Nat \ {0}

Children == 1..N

NoChild == 0

VARIABLES
  pc,             \* where each child is
  outcome,        \* how each child ended (history)
  nextToStart,    \* start() starts the children one after the other
  n_pending_ops,  \* n_pending_ops_
  error_emplaced, \* error_emplaced_: 0 free, 1 claimed, 2 stored
  error,          \* errors_: the child whose error is stored
  stop,           \* stop_source_ was asked to stop
  outerStop,      \* the receiver's own stop token was stopped
  delivered       \* the completions of the receiver, in order

vars == <<pc, outcome, nextToStart, n_pending_ops, error_emplaced, error,
          stop, outerStop, delivered>>

PCs == {"idle", "running", "emplacing", "stopping", "completing", "last",
        "done"}

Outcomes == {"none", "value", "stopped", "error"}

(* What the receiver is told; the error is named by the child it is from.  *)
Signal(kind, from) == [kind |-> kind, from |-> from]

Signals == [kind : {"value", "stopped", "error"}, from : Children \union {NoChild}]

Init ==
  /\ pc = [c \in Children |-> "idle"]
  /\ outcome = [c \in Children |-> "none"]
  /\ nextToStart = 1
  /\ n_pending_ops = N
  /\ error_emplaced = 0
  /\ error = NoChild
  /\ stop = FALSE
  /\ outerStop = FALSE
  /\ delivered = <<>>

-----------------------------------------------------------------------------
(* operation::start(): the children are started in order; one may complete *)
(* before the next is started.                                             *)
StartNext ==
  /\ nextToStart \in Children
  /\ pc' = [pc EXCEPT ![nextToStart] = "running"]
  /\ nextToStart' = nextToStart + 1
  /\ UNCHANGED <<outcome, n_pending_ops, error_emplaced, error, stop,
                 outerStop, delivered>>

(* receiver::set_value(): straight to complete().                          *)
SetValue(c) ==
  /\ pc[c] = "running"
  /\ outcome' = [outcome EXCEPT ![c] = "value"]
  /\ pc' = [pc EXCEPT ![c] = "completing"]
  /\ UNCHANGED <<nextToStart, n_pending_ops, error_emplaced, error, stop,
                 outerStop, delivered>>

(* receiver::set_stopped(): request_stop() comes next.                     *)
SetStopped(c) ==
  /\ pc[c] = "running"
  /\ outcome' = [outcome EXCEPT ![c] = "stopped"]
  /\ pc' = [pc EXCEPT ![c] = "stopping"]
  /\ UNCHANGED <<nextToStart, n_pending_ops, error_emplaced, error, stop,
                 outerStop, delivered>>

(* Mutant of SetError: the claim is not recorded, so a second child may    *)
(* overwrite the error while it is being stored.                           *)
SetErrorUnclaimed(c) ==
  /\ pc[c] = "running"
  /\ outcome' = [outcome EXCEPT ![c] = "error"]
  /\ pc' = [pc EXCEPT ![c] = IF error_emplaced = 0 THEN "emplacing"
                                                   ELSE "stopping"]
  /\ UNCHANGED <<nextToStart, n_pending_ops, error_emplaced, error, stop,
                 outerStop, delivered>>

(* receiver::set_error(): the compare-exchange that claims errors_.        *)
SetError(c) ==
  /\ pc[c] = "running"
  /\ outcome' = [outcome EXCEPT ![c] = "error"]
  /\ error_emplaced' = IF error_emplaced = 0 THEN 1 ELSE error_emplaced
  /\ pc' = [pc EXCEPT ![c] = IF error_emplaced = 0 THEN "emplacing"
                                                   ELSE "stopping"]
  /\ UNCHANGED <<nextToStart, n_pending_ops, error, stop, outerStop,
                 delivered>>

(* Mutant of EmplaceError: the store of 2 is missing.                      *)
EmplaceErrorUnpublished(c) ==
  /\ pc[c] = "emplacing"
  /\ error' = c
  /\ pc' = [pc EXCEPT ![c] = "stopping"]
  /\ UNCHANGED <<outcome, nextToStart, n_pending_ops, error_emplaced, stop,
                 outerStop, delivered>>

(* receiver::set_error(): emplace the error and store 2.                   *)
EmplaceError(c) ==
  /\ pc[c] = "emplacing"
  /\ error' = c
  /\ error_emplaced' = 2
  /\ pc' = [pc EXCEPT ![c] = "stopping"]
  /\ UNCHANGED <<outcome, nextToStart, n_pending_ops, stop, outerStop,
                 delivered>>

(* stop_source_.request_stop(), on the way to complete().                  *)
RequestStop(c) ==
  /\ pc[c] = "stopping"
  /\ stop' = TRUE
  /\ pc' = [pc EXCEPT ![c] = "completing"]
  /\ UNCHANGED <<outcome, nextToStart, n_pending_ops, error_emplaced, error,
                 outerStop, delivered>>

(* Mutant of Decrement: the child that leaves one other behind completes.  *)
DecrementOffByOne(c) ==
  /\ pc[c] = "completing"
  /\ n_pending_ops' = n_pending_ops - 1
  /\ pc' = [pc EXCEPT ![c] = IF n_pending_ops <= 2 THEN "last" ELSE "done"]
  /\ UNCHANGED <<outcome, nextToStart, error_emplaced, error, stop, outerStop,
                 delivered>>

(* Mutant of Decrement: the test is on the new value of the counter.       *)
DecrementThenTestOld(c) ==
  /\ pc[c] = "completing"
  /\ n_pending_ops' = n_pending_ops - 1
  /\ pc' = [pc EXCEPT ![c] = IF n_pending_ops = 0 THEN "last" ELSE "done"]
  /\ UNCHANGED <<outcome, nextToStart, error_emplaced, error, stop, outerStop,
                 delivered>>

(* complete(): n_pending_ops_.fetch_sub(1) == 1 for the last child.        *)
Decrement(c) ==
  /\ pc[c] = "completing"
  /\ n_pending_ops' = n_pending_ops - 1
  /\ pc' = [pc EXCEPT ![c] = IF n_pending_ops = 1 THEN "last" ELSE "done"]
  /\ UNCHANGED <<outcome, nextToStart, error_emplaced, error, stop, outerStop,
                 delivered>>

(* complete(): the last child passes on the stored error, or set_value,    *)
(* which set_value_unless_stopped turns into set_stopped when the receiver *)
(* was asked to stop.                                                      *)
Deliver(c) ==
  /\ pc[c] = "last"
  /\ delivered' = Append(delivered,
       CASE error_emplaced = 2 -> Signal("error", error)
         [] error_emplaced # 2 /\ outerStop -> Signal("stopped", NoChild)
         [] error_emplaced # 2 /\ ~outerStop -> Signal("value", NoChild))
  /\ pc' = [pc EXCEPT ![c] = "done"]
  /\ UNCHANGED <<outcome, nextToStart, n_pending_ops, error_emplaced, error,
                 stop, outerStop>>

(* The receiver's stop token is stopped.  Nothing listens to it: get_env   *)
(* gives the children the token of stop_source_ instead.                   *)
OuterStop ==
  /\ ~outerStop
  /\ outerStop' = TRUE
  /\ UNCHANGED <<pc, outcome, nextToStart, n_pending_ops, error_emplaced,
                 error, stop, delivered>>

-----------------------------------------------------------------------------
(* The completion of a child is one chain of steps on one thread.          *)
Step(c) ==
  \/ SetValue(c)
  \/ SetStopped(c)
  \/ SetError(c)
  \/ EmplaceError(c)
  \/ RequestStop(c)
  \/ Decrement(c)
  \/ Deliver(c)

Terminated ==
  /\ \A c \in Children : pc[c] = "done"
  /\ UNCHANGED vars

Next ==
  \/ StartNext
  \/ \E c \in Children : Step(c)
  \/ OuterStop
  \/ Terminated

SafeSpec == Init /\ [][Next]_vars

(* start() runs to its end and every child sequence completes.             *)
Spec == SafeSpec /\ WF_vars(StartNext) /\ \A c \in Children : WF_vars(Step(c))

-----------------------------------------------------------------------------
TypeOK ==
  /\ pc \in [Children -> PCs]
  /\ outcome \in [Children -> Outcomes]
  /\ nextToStart \in 1..(N + 1)
  /\ n_pending_ops \in 0..N
  /\ error_emplaced \in 0..2
  /\ error \in Children \union {NoChild}
  /\ stop \in BOOLEAN
  /\ outerStop \in BOOLEAN
  /\ delivered \in Seq(Signals)

(* The merged sequence completes once, and only when no child can touch    *)
(* the operation any more, whose storage the receiver may then release.    *)
CompletesAfterAllChildren ==
  /\ Len(delivered) <= 1
  /\ delivered # <<>> => \A c \in Children : pc[c] = "done"

(* An error of a child is never swallowed by another child's completion,   *)
(* however the claims, the stores and the decrements interleave: if a      *)
(* child failed, the receiver gets the error of a child that failed, and   *)
(* otherwise it gets none.                                                 *)
ErrorIsReported ==
  \A i \in 1..Len(delivered) :
    /\ (\E c \in Children : outcome[c] = "error") <=> delivered[i].kind = "error"
    /\ delivered[i].kind = "error" =>
         /\ delivered[i].from \in Children
         /\ outcome[delivered[i].from] = "error"

(* errors_ is written by one child only, so the last child never reads it  *)
(* while it is written.                                                    *)
OneErrorWriter ==
  /\ \A c, d \in Children :
       pc[c] = "emplacing" /\ pc[d] = "emplacing" => c = d
  /\ (\E c \in Children : pc[c] = "last") => error_emplaced # 1

(* When every child completes, so does the merged sequence.                *)
EventuallyCompletes == <>(delivered # <<>>)

-----------------------------------------------------------------------------
(* The inductive invariant behind the properties above.                    *)

(* The children that have not decremented n_pending_ops_.                  *)
Pending == {c \in Children : pc[c] \notin {"last", "done"}}

(* The counter is exact, so that only one child can be the last.           *)
LastInv ==
  /\ n_pending_ops = Cardinality(Pending)
  /\ \A c \in Children : pc[c] = "last" => Pending = {} /\ delivered = <<>>
  /\ \A c, d \in Children : pc[c] = "last" /\ pc[d] = "last" => c = d
  /\ delivered # <<>> =>
       Len(delivered) = 1 /\ \A c \in Children : pc[c] = "done"

(* error_emplaced_ is 0 until a child fails, 1 while the child that was    *)
(* first stores its error, and 2 from then on.                             *)
ErrorInv ==
  /\ error_emplaced = 0 <=> \A c \in Children : outcome[c] # "error"
  /\ error_emplaced = 1 => \E c \in Children : pc[c] = "emplacing"
  /\ error_emplaced = 2 => error \in Children /\ outcome[error] = "error"
  /\ \A c \in Children : pc[c] = "emplacing" =>
       error_emplaced = 1 /\ outcome[c] = "error"
  /\ \A c, d \in Children : pc[c] = "emplacing" /\ pc[d] = "emplacing" => c = d
  /\ \A c \in Children : pc[c] \in {"idle", "running"} => outcome[c] = "none"

(* The children start() has not reached yet are idle.                      *)
StartInv == \A c \in Children : c >= nextToStart <=> pc[c] = "idle"

IndInv ==
  /\ TypeOK
  /\ StartInv
  /\ LastInv
  /\ ErrorInv
  /\ ErrorIsReported
=============================================================================
