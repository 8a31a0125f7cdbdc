------------------------------ MODULE AsyncMutex ------------------------------
(***************************************************************************)
(* sio::async_mutex (async_mutex.hpp).  A lock operation is pushed on a    *)
(* lock-free stack; whoever then turns locked_ from false to true          *)
(* completes every operation it finds there, its own or another's, inline  *)
(* on its own thread.  The continuation of an operation is its critical    *)
(* section: it holds the mutex until complete() returns.                   *)
(*                                                                         *)
(* The model follows the calls of lock_operation::start().  Each operation *)
(* is started at most once, so a call (a stack frame with its local        *)
(* pending_ops) is named by the operation it was called on.  A call is     *)
(* either made by a thread of its own or from inside a continuation, in    *)
(* which case the frame that runs the continuation waits for it.           *)
(*                                                                         *)
(* locked_.store(false, release) followed by the relaxed load in empty()   *)
(* is not ordered by the C++ memory model, and x86 lets the load overtake  *)
(* the store in the store buffer.  StoreBuffering says whether the model   *)
(* has that store buffer or is sequentially consistent.                    *)
(***************************************************************************)
EXTENDS Lists

CONSTANTS
  Ops,            \* the lock operations, each connected and started once
  NoOp,           \* the null operation_base*
  StoreBuffering  \* TRUE: the store to locked_ may sit in a store buffer

ASSUME OpsAssumption == NoOp \notin Ops

ASSUME StoreBufferingAssumption == StoreBuffering \in BOOLEAN

VARIABLES
  locked,       \* base::locked_, as the other threads see it
  inflight,     \* base::inflight_operations_, its head first
  pc,           \* where each call of start() is
  pending,      \* the local pending_ops of each call
  current,      \* the operation whose complete() each call is running
  caller,       \* the call whose continuation made this call, if any
  completions,  \* how often set_value was called on each receiver
  unflushed     \* calls whose store of false is still in a store buffer

vars ==
  <<locked, inflight, pc, pending, current, caller, completions, unflushed>>

(* The frame is between the CAS that took locked_ and the store that       *)
(* gives it back.                                                          *)
HoldingPCs == {"pop_all", "drain", "completing", "unlock"}

PCs == {"idle", "cas", "check", "done"} \union HoldingPCs

Init ==
  /\ locked = FALSE
  /\ inflight = <<>>
  /\ pc = [o \in Ops |-> "idle"]
  /\ pending = [o \in Ops |-> <<>>]
  /\ current = [o \in Ops |-> NoOp]
  /\ caller = [o \in Ops |-> NoOp]
  /\ completions = [o \in Ops |-> 0]
  /\ unflushed = {}

(* A call made from the continuation f is running returns before f goes on.*)
NestedCallReturned(f) ==
  \A o \in Ops : caller[o] = f => pc[o] = "done"

-----------------------------------------------------------------------------
(* start(): inflight_operations_.push_front(this).                         *)
PushFront(o) ==
  /\ pc[o] = "idle"
  /\ inflight' = <<o>> \o inflight
  /\ pc' = [pc EXCEPT ![o] = "cas"]
  /\ UNCHANGED <<locked, pending, current, completions, unflushed>>

(* A thread starts the operation.                                          *)
Start(o) ==
  /\ PushFront(o)
  /\ UNCHANGED caller

(* The continuation that f is running starts the operation.                *)
StartNested(o, f) ==
  /\ pc[f] = "completing"
  /\ NestedCallReturned(f)
  /\ PushFront(o)
  /\ caller' = [caller EXCEPT ![o] = f]

(* Mutant of TryLock: the result of the exchange is ignored.               *)
TryLockAlways(o) ==
  /\ pc[o] = "cas"
  /\ o \notin unflushed
  /\ locked' = TRUE
  /\ pc' = [pc EXCEPT ![o] = "pop_all"]
  /\ UNCHANGED <<inflight, pending, current, caller, completions, unflushed>>

(* The loop condition: locked_.compare_exchange_strong(false, true).  A    *)
(* locked instruction drains the thread's own store buffer first.          *)
TryLock(o) ==
  /\ pc[o] = "cas"
  /\ o \notin unflushed
  /\ locked' = TRUE
  /\ pc' = [pc EXCEPT ![o] = IF locked THEN "done" ELSE "pop_all"]
  /\ UNCHANGED <<inflight, pending, current, caller, completions, unflushed>>

(* Mutant of PopAll: the list is read but not detached from the queue.     *)
PopAllWithoutReset(o) ==
  /\ pc[o] = "pop_all"
  /\ pending' = [pending EXCEPT ![o] = inflight]
  /\ pc' = [pc EXCEPT ![o] = IF inflight = <<>> THEN "unlock" ELSE "drain"]
  /\ UNCHANGED <<locked, inflight, current, caller, completions, unflushed>>

(* pending_ops = inflight_operations_.pop_all(), and the test of the loop  *)
(* that follows it: both calls of pop_all lead to the same test.           *)
PopAll(o) ==
  /\ pc[o] = "pop_all"
  /\ pending' = [pending EXCEPT ![o] = inflight]
  /\ inflight' = <<>>
  /\ pc' = [pc EXCEPT ![o] = IF inflight = <<>> THEN "unlock" ELSE "drain"]
  /\ UNCHANGED <<locked, current, caller, completions, unflushed>>

(* Mutant of Complete: the front is completed but stays in pending_ops.    *)
CompleteWithoutPop(o) ==
  /\ pc[o] = "drain"
  /\ current' = [current EXCEPT ![o] = Head(pending[o])]
  /\ completions' = [completions EXCEPT ![Head(pending[o])] = @ + 1]
  /\ pc' = [pc EXCEPT ![o] = "completing"]
  /\ UNCHANGED <<locked, inflight, pending, caller, unflushed>>

(* next = pending_ops.pop_front(); next->complete(next): set_value on the  *)
(* receiver of next, whose continuation begins.                            *)
Complete(o) ==
  /\ pc[o] = "drain"
  /\ current' = [current EXCEPT ![o] = Head(pending[o])]
  /\ pending' = [pending EXCEPT ![o] = Tail(@)]
  /\ completions' = [completions EXCEPT ![Head(pending[o])] = @ + 1]
  /\ pc' = [pc EXCEPT ![o] = "completing"]
  /\ UNCHANGED <<locked, inflight, caller, unflushed>>

(* The continuation returns to the do-while loop.                          *)
Return(o) ==
  /\ pc[o] = "completing"
  /\ NestedCallReturned(o)
  /\ current' = [current EXCEPT ![o] = NoOp]
  /\ pc' = [pc EXCEPT ![o] = IF pending[o] = <<>> THEN "pop_all" ELSE "drain"]
  /\ UNCHANGED <<locked, inflight, pending, caller, completions, unflushed>>

(* locked_.store(false, release).                                          *)
Unlock(o) ==
  /\ pc[o] = "unlock"
  /\ IF StoreBuffering
       THEN /\ unflushed' = unflushed \union {o}
            /\ UNCHANGED locked
       ELSE /\ locked' = FALSE
            /\ UNCHANGED unflushed
  /\ pc' = [pc EXCEPT ![o] = "check"]
  /\ UNCHANGED <<inflight, pending, current, caller, completions>>

(* The buffered store reaches memory.                                      *)
Flush(o) ==
  /\ o \in unflushed
  /\ locked' = FALSE
  /\ unflushed' = unflushed \ {o}
  /\ UNCHANGED <<inflight, pc, pending, current, caller, completions>>

(* Mutant of CheckEmpty: the call returns without looking at the queue     *)
(* again after it has released locked_.                                    *)
ReturnAfterUnlock(o) ==
  /\ pc[o] = "check"
  /\ pc' = [pc EXCEPT ![o] = "done"]
  /\ UNCHANGED <<locked, inflight, pending, current, caller, completions,
                 unflushed>>

(* if (inflight_operations_.empty()) break; otherwise try to lock again.   *)
CheckEmpty(o) ==
  /\ pc[o] = "check"
  /\ pc' = [pc EXCEPT ![o] = IF inflight = <<>> THEN "done" ELSE "cas"]
  /\ UNCHANGED <<locked, inflight, pending, current, caller, completions,
                 unflushed>>

-----------------------------------------------------------------------------
(* The steps a thread takes by itself once start() was called.             *)
Step(o) ==
  \/ TryLock(o)
  \/ PopAll(o)
  \/ Complete(o)
  \/ Return(o)
  \/ Unlock(o)
  \/ Flush(o)
  \/ CheckEmpty(o)

AllReturned ==
  /\ \A o \in Ops : pc[o] = "done"
  /\ unflushed = {}

(* Every operation was started and every call has returned: no more steps. *)
Terminated == AllReturned /\ UNCHANGED vars

Next ==
  \/ \E o \in Ops : Start(o)
  \/ \E o, f \in Ops : StartNested(o, f)
  \/ \E o \in Ops : Step(o)
  \/ Terminated

SafeSpec == Init /\ [][Next]_vars

(* The threads keep running, continuations return, store buffers drain.    *)
Spec == SafeSpec /\ \A o \in Ops : WF_vars(Step(o))

-----------------------------------------------------------------------------
(* Every variable has its type; a receiver is completed at most once, as   *)
(* the receiver contract of on_complete demands.                           *)
TypeOK ==
  /\ locked \in BOOLEAN
  /\ inflight \in Seq(Ops)
  /\ pc \in [Ops -> PCs]
  /\ pending \in [Ops -> Seq(Ops)]
  /\ current \in [Ops -> Ops \union {NoOp}]
  /\ caller \in [Ops -> Ops \union {NoOp}]
  /\ completions \in [Ops -> 0..1]
  /\ unflushed \in SUBSET Ops

(* No two continuations run at the same time: neither on two threads nor   *)
(* one inside the other, when a continuation starts another lock.          *)
MutualExclusion ==
  \A f, g \in Ops : current[f] # NoOp /\ current[g] # NoOp => f = g

(* complete() lets the receiver destroy the operation, so the queue and    *)
(* the batches that start() still walks hold only operations that have not *)
(* been completed, and no operation is linked twice.                       *)
LinkedNodesAreAlive ==
  /\ \A o \in Elements(inflight) : completions[o] = 0
  /\ \A f \in Ops : \A o \in Elements(pending[f]) :
       completions[o] = 0 /\ o \notin Elements(inflight)
  /\ \A f, g \in Ops : f # g =>
       Elements(pending[f]) \intersect Elements(pending[g]) = {}

(* When every call of start() has returned, no started operation is left   *)
(* behind in the queue: the unlocking thread looks at the queue after it   *)
(* released locked_, the pushing thread tries locked_ after it pushed.     *)
NoLockLost ==
  (\A o \in Ops : pc[o] \in {"idle", "done"}) =>
     \A o \in Ops : pc[o] = "done" => completions[o] = 1

-----------------------------------------------------------------------------
(* The inductive invariant behind the properties above.                    *)

(* The calls that took locked_ and have not given it back in memory.       *)
Owner(o) == pc[o] \in HoldingPCs \/ o \in unflushed

(* locked_ is true exactly while there is an owner, and there is only one. *)
OwnerInv ==
  /\ locked <=> \E o \in Ops : Owner(o)
  /\ \A o, p \in Ops : Owner(o) /\ Owner(p) => o = p
  /\ \A o \in unflushed : pc[o] \notin HoldingPCs
  /\ ~StoreBuffering => unflushed = {}

(* Only the call that drains has a batch, and it runs at most one          *)
(* continuation.                                                           *)
FrameInv ==
  \A f \in Ops :
    /\ current[f] # NoOp <=> pc[f] = "completing"
    /\ current[f] # NoOp => completions[current[f]] = 1
    /\ pending[f] # <<>> => pc[f] \in {"drain", "completing"}
    /\ pc[f] = "drain" => pending[f] # <<>>

(* An operation that was started and not completed is linked in exactly    *)
(* one place; any other operation is linked nowhere.                       *)
LinkInv ==
  /\ NoDuplicates(inflight)
  /\ \A f \in Ops : NoDuplicates(pending[f])
  /\ \A o \in Elements(inflight) : pc[o] # "idle" /\ completions[o] = 0
  /\ \A f \in Ops : \A o \in Elements(pending[f]) :
       pc[o] # "idle" /\ completions[o] = 0 /\ o \notin Elements(inflight)
  /\ \A o \in Ops : pc[o] # "idle" /\ completions[o] = 0 =>
       o \in Elements(inflight) \/ \E f \in Ops : o \in Elements(pending[f])
  /\ \A o \in Ops : pc[o] = "idle" => completions[o] = 0

(* Without a store buffer, some call will still look at a non-empty queue. *)
QueueWatched ==
  ~StoreBuffering /\ inflight # <<>> =>
     \E f \in Ops : pc[f] \in {"cas", "check"} \union HoldingPCs

IndInv ==
  /\ TypeOK
  /\ OwnerInv
  /\ FrameInv
  /\ LinkInv
  /\ QueueWatched

-----------------------------------------------------------------------------
(* What a caller of lock() sees of an operation.                           *)
StatusOf(o) ==
  CASE pc[o] = "idle" -> "idle"
    [] pc[o] # "idle" /\ completions[o] = 0 -> "waiting"
    [] pc[o] # "idle" /\ completions[o] # 0 ->
         IF \E f \in Ops : current[f] = o THEN "holding" ELSE "released"

Lock == INSTANCE AsyncLock WITH status <- [o \in Ops |-> StatusOf(o)]

(* The stack, the batches and the hand-over of locked_ between calls       *)
(* implement the abstract lock, its fairness included.                     *)
ImplementsAsyncLock == Lock!Spec
=============================================================================
