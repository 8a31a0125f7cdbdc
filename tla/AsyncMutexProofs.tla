-------------------------- MODULE AsyncMutexProofs --------------------------
(***************************************************************************)
(* Proofs about AsyncMutex for any set of lock operations, with and        *)
(* without a store buffer where nothing else is said.                      *)
(***************************************************************************)
EXTENDS AsyncMutex, ListLemmas

-----------------------------------------------------------------------------
(* The inductive invariant, one lemma per kind of step.                    *)


(* The inductive invariant holds in the constructed mutex.                 *)
LEMMA InitInv == Init => IndInv
<1> SUFFICES ASSUME Init PROVE IndInv
  OBVIOUS
<1> USE DEF Init
<1>1. TypeOK
  <2>1. <<>> \in Seq(Ops)
    OBVIOUS
  <2>2. pending \in [Ops -> Seq(Ops)] /\ completions \in [Ops -> 0..1]
    BY <2>1
  <2> QED
    BY <2>1, <2>2 DEF TypeOK, PCs
<1>2. OwnerInv
  BY DEF OwnerInv, Owner, HoldingPCs
<1>3. FrameInv
  BY DEF FrameInv
<1>4. LinkInv
  BY EmptyListElements DEF LinkInv
<1>5. QueueWatched
  BY DEF QueueWatched
<1> QED
  BY <1>1, <1>2, <1>3, <1>4, <1>5 DEF IndInv

(* Pushing an operation keeps the invariant, whoever calls start().        *)
LEMMA PushFrontInv ==
  ASSUME IndInv, NEW o \in Ops, PushFront(o),
         caller' \in [Ops -> Ops \union {NoOp}]
  PROVE  IndInv'
<1> USE DEF PushFront
<1> TypeOK /\ OwnerInv /\ FrameInv /\ LinkInv /\ QueueWatched
  BY DEF IndInv
<1>0. /\ inflight' \in Seq(Ops)
      /\ inflight' # <<>>
      /\ Elements(inflight') = {o} \union Elements(inflight)
      /\ NoDuplicates(inflight')
      /\ \A f \in Ops : o \notin Elements(pending[f])
  BY PushFrontElements DEF TypeOK, LinkInv
<1>a. /\ Elements(inflight) \subseteq Ops
      /\ \A f \in Ops : Elements(pending[f]) \subseteq Ops
  BY ElementsTyped DEF TypeOK
<1>1. TypeOK'
  BY <1>0 DEF TypeOK, PCs
<1>2. OwnerInv'
  BY DEF OwnerInv, Owner, TypeOK, HoldingPCs
<1>3. FrameInv'
  BY DEF FrameInv, TypeOK
<1>4. LinkInv'
  <2>1. \A p \in Elements(inflight') : pc'[p] # "idle" /\ completions'[p] = 0
    <3> SUFFICES ASSUME NEW p \in Elements(inflight')
                 PROVE  pc'[p] # "idle" /\ completions[p] = 0
      OBVIOUS
    <3>1. CASE p = o
      BY <3>1 DEF LinkInv, TypeOK
    <3>2. CASE p # o /\ p \in Elements(inflight)
      BY <1>a, <3>2 DEF LinkInv, TypeOK
    <3> QED
      BY <1>0, <3>1, <3>2
  <2>2. \A f \in Ops : \A p \in Elements(pending'[f]) :
          pc'[p] # "idle" /\ completions'[p] = 0 /\ p \notin Elements(inflight')
    <3> SUFFICES ASSUME NEW f \in Ops, NEW p \in Elements(pending[f])
                 PROVE  /\ pc'[p] # "idle"
                        /\ completions[p] = 0
                        /\ p \notin Elements(inflight')
      OBVIOUS
    <3>1. p # o /\ p \in Ops
      BY <1>0, <1>a
    <3> QED
      BY <1>0, <3>1 DEF LinkInv, TypeOK
  <2>3. \A p \in Ops : pc'[p] # "idle" /\ completions'[p] = 0 =>
          p \in Elements(inflight') \/ \E f \in Ops : p \in Elements(pending'[f])
    BY <1>0 DEF LinkInv, TypeOK
  <2> QED
    BY <1>0, <2>1, <2>2, <2>3 DEF LinkInv, TypeOK
<1>5. QueueWatched'
  BY DEF QueueWatched, TypeOK
<1> QED
  BY <1>1, <1>2, <1>3, <1>4, <1>5 DEF IndInv

(* The compare-exchange makes its caller the owner or leaves the ownership *)
(* as it was.                                                              *)
LEMMA TryLockInv ==
  ASSUME IndInv, NEW o \in Ops, TryLock(o)
  PROVE  IndInv'
<1> USE DEF TryLock
<1> TypeOK /\ OwnerInv /\ FrameInv /\ LinkInv /\ QueueWatched
  BY DEF IndInv
<1>1. TypeOK'
  BY DEF TypeOK, PCs, HoldingPCs
<1>2. OwnerInv'
  <2>1. CASE locked
    BY <2>1 DEF OwnerInv, Owner, TypeOK, HoldingPCs
  <2>2. CASE ~locked
    BY <2>2 DEF OwnerInv, Owner, TypeOK, HoldingPCs
  <2> QED
    BY <2>1, <2>2
<1>3. FrameInv'
  BY DEF FrameInv, TypeOK
<1>4. LinkInv'
  BY DEF LinkInv, TypeOK
<1>5. QueueWatched'
  <2>1. CASE locked
    BY <2>1 DEF QueueWatched, TypeOK, OwnerInv, Owner, HoldingPCs
  <2>2. CASE ~locked
    BY <2>2 DEF QueueWatched, TypeOK, HoldingPCs
  <2> QED
    BY <2>1, <2>2
<1> QED
  BY <1>1, <1>2, <1>3, <1>4, <1>5 DEF IndInv

(* Emptying the queue into the batch of the only owner.                    *)
LEMMA PopAllInv ==
  ASSUME IndInv, NEW o \in Ops, PopAll(o)
  PROVE  IndInv'
<1> USE DEF PopAll
<1> TypeOK /\ OwnerInv /\ FrameInv /\ LinkInv /\ QueueWatched
  BY DEF IndInv
<1>0. \A f \in Ops : pending[f] = <<>> /\ Elements(pending[f]) = {}
  BY EmptyListElements DEF FrameInv, OwnerInv, Owner, HoldingPCs
<1>1. TypeOK'
  BY DEF TypeOK, PCs, HoldingPCs
<1>2. OwnerInv'
  BY DEF OwnerInv, Owner, TypeOK, HoldingPCs
<1>3. FrameInv'
  BY <1>0 DEF FrameInv, TypeOK
<1>4. LinkInv'
  <2>1. /\ Elements(inflight') = {}
        /\ NoDuplicates(inflight')
        /\ \A f \in Ops : f # o => pending'[f] = pending[f]
        /\ pending'[o] = inflight
    BY EmptyListElements DEF TypeOK
  <2>2. \A f \in Ops : \A p \in Elements(pending'[f]) :
          pc'[p] # "idle" /\ completions'[p] = 0 /\ p \notin Elements(inflight')
    BY <1>0, <2>1 DEF LinkInv, TypeOK
  <2>3. \A p \in Ops : pc'[p] # "idle" /\ completions'[p] = 0 =>
          p \in Elements(inflight') \/ \E f \in Ops : p \in Elements(pending'[f])
    BY <1>0, <2>1 DEF LinkInv, TypeOK
  <2>4. \A f \in Ops : NoDuplicates(pending'[f])
    BY <2>1 DEF LinkInv
  <2> QED
    BY <2>1, <2>2, <2>3, <2>4 DEF LinkInv, TypeOK
<1>5. QueueWatched'
  BY DEF QueueWatched
<1> QED
  BY <1>1, <1>2, <1>3, <1>4, <1>5 DEF IndInv

(* The front of the batch had not been completed before.                   *)
LEMMA CompleteInv ==
  ASSUME IndInv, NEW o \in Ops, Complete(o)
  PROVE  IndInv'
<1> USE DEF Complete
<1> TypeOK /\ OwnerInv /\ FrameInv /\ LinkInv /\ QueueWatched
  BY DEF IndInv
<1> DEFINE h == Head(pending[o])
<1>0. /\ h \in Ops
      /\ h \in Elements(pending[o])
      /\ pending'[o] \in Seq(Ops)
      /\ Elements(pending'[o]) = Elements(pending[o]) \ {h}
      /\ NoDuplicates(pending'[o])
  BY PopFrontElements DEF TypeOK, FrameInv, LinkInv
<1>a. completions[h] = 0 /\ pc[h] # "idle" /\ h \notin Elements(inflight)
  BY <1>0 DEF LinkInv
<1>b. \A f \in Ops : f # o => /\ pending'[f] = <<>>
                             /\ pending[f] = <<>>
                             /\ Elements(pending'[f]) = {}
                             /\ current[f] = NoOp
  BY EmptyListElements DEF FrameInv, OwnerInv, Owner, HoldingPCs, TypeOK
<1>c. /\ completions' = [completions EXCEPT ![h] = 1]
      /\ current' = [current EXCEPT ![o] = h]
  BY <1>a
<1> HIDE DEF h
<1>1. TypeOK'
  <2>1. pending' \in [Ops -> Seq(Ops)]
    BY <1>0 DEF TypeOK
  <2> QED
    BY <1>0, <1>c, <2>1 DEF TypeOK, PCs, HoldingPCs
<1>2. OwnerInv'
  BY DEF OwnerInv, Owner, TypeOK, HoldingPCs
<1>3. FrameInv'
  <2> SUFFICES ASSUME NEW f \in Ops
               PROVE  /\ current'[f] # NoOp <=> pc'[f] = "completing"
                      /\ current'[f] # NoOp => completions'[current'[f]] = 1
                      /\ pending'[f] # <<>> => pc'[f] \in {"drain", "completing"}
                      /\ pc'[f] = "drain" => pending'[f] # <<>>
    BY DEF FrameInv
  <2>1. CASE f = o
    BY <2>1, <1>0, <1>c, OpsAssumption DEF TypeOK
  <2>2. CASE f # o
    BY <2>2, <1>b DEF FrameInv, TypeOK, OwnerInv, Owner, HoldingPCs
  <2> QED
    BY <2>1, <2>2
<1>4. LinkInv'
  <2>1. \A p \in Elements(inflight') : pc'[p] # "idle" /\ completions'[p] = 0
    <3>1. \A p \in Elements(inflight) : p \in Ops
      BY ElementsTyped DEF TypeOK
    <3> QED
      BY <1>a, <1>c, <3>1 DEF LinkInv, TypeOK
  <2>2. \A f \in Ops : \A p \in Elements(pending'[f]) :
          pc'[p] # "idle" /\ completions'[p] = 0 /\ p \notin Elements(inflight')
    <3>1. \A p \in Elements(pending[o]) : p \in Ops
      BY ElementsTyped DEF TypeOK
    <3> QED
      BY <1>0, <1>b, <1>c, <3>1 DEF LinkInv, TypeOK
  <2>3. \A p \in Ops : pc'[p] # "idle" /\ completions'[p] = 0 =>
          p \in Elements(inflight') \/ \E f \in Ops : p \in Elements(pending'[f])
    <3> SUFFICES ASSUME NEW p \in Ops, pc'[p] # "idle", completions'[p] = 0,
                        p \notin Elements(inflight)
                 PROVE  \E f \in Ops : p \in Elements(pending'[f])
      OBVIOUS
    <3>1. p # h /\ pc[p] # "idle" /\ completions[p] = 0
      BY <1>0, <1>c DEF TypeOK
    <3>2. PICK f \in Ops : p \in Elements(pending[f])
      BY <3>1 DEF LinkInv
    <3>3. f = o
      BY <1>b, <3>2, EmptyListElements
    <3> QED
      BY <1>0, <3>1, <3>2, <3>3
  <2>4. \A f \in Ops : NoDuplicates(pending'[f])
    BY <1>0, <1>b, EmptyListElements
  <2>5. \A p \in Ops : pc'[p] = "idle" => completions'[p] = 0
    BY <1>0, <1>a, <1>c DEF LinkInv, TypeOK
  <2> QED
    BY <2>1, <2>2, <2>3, <2>4, <2>5 DEF LinkInv
<1>5. QueueWatched'
  BY DEF QueueWatched, TypeOK, HoldingPCs
<1> QED
  BY <1>1, <1>2, <1>3, <1>4, <1>5 DEF IndInv

(* When complete() returns, the call tests its list again.                 *)
LEMMA ReturnInv ==
  ASSUME IndInv, NEW o \in Ops, Return(o)
  PROVE  IndInv'
<1> USE DEF Return
<1> TypeOK /\ OwnerInv /\ FrameInv /\ LinkInv /\ QueueWatched
  BY DEF IndInv
<1>1. TypeOK'
  BY DEF TypeOK, PCs, HoldingPCs
<1>2. OwnerInv'
  BY DEF OwnerInv, Owner, TypeOK, HoldingPCs
<1>3. FrameInv'
  BY DEF FrameInv, TypeOK
<1>4. LinkInv'
  BY DEF LinkInv, TypeOK
<1>5. QueueWatched'
  BY DEF QueueWatched, TypeOK, HoldingPCs
<1> QED
  BY <1>1, <1>2, <1>3, <1>4, <1>5 DEF IndInv

(* After the store of false the caller no longer owns the mutex, or still  *)
(* has the store in its buffer.                                            *)
LEMMA UnlockInv ==
  ASSUME IndInv, NEW o \in Ops, Unlock(o)
  PROVE  IndInv'
<1> USE DEF Unlock
<1> TypeOK /\ OwnerInv /\ FrameInv /\ LinkInv /\ QueueWatched
  BY DEF IndInv
<1>1. TypeOK'
  BY DEF TypeOK, PCs
<1>2. OwnerInv'
  <2>1. CASE StoreBuffering
    BY <2>1 DEF OwnerInv, Owner, TypeOK, HoldingPCs
  <2>2. CASE ~StoreBuffering
    BY <2>2 DEF OwnerInv, Owner, TypeOK, HoldingPCs
  <2> QED
    BY <2>1, <2>2
<1>3. FrameInv'
  BY DEF FrameInv, TypeOK
<1>4. LinkInv'
  BY DEF LinkInv, TypeOK
<1>5. QueueWatched'
  BY DEF QueueWatched, TypeOK
<1> QED
  BY <1>1, <1>2, <1>3, <1>4, <1>5 DEF IndInv

(* A store that leaves the buffer ends the ownership of its thread.        *)
LEMMA FlushInv ==
  ASSUME IndInv, NEW o \in Ops, Flush(o)
  PROVE  IndInv'
<1> USE DEF Flush
<1> TypeOK /\ OwnerInv /\ FrameInv /\ LinkInv /\ QueueWatched
  BY DEF IndInv
<1>1. TypeOK'
  BY DEF TypeOK
<1>2. OwnerInv'
  BY DEF OwnerInv, Owner, TypeOK
<1>3. FrameInv'
  BY DEF FrameInv
<1>4. LinkInv'
  BY DEF LinkInv
<1>5. QueueWatched'
  BY DEF QueueWatched
<1> QED
  BY <1>1, <1>2, <1>3, <1>4, <1>5 DEF IndInv

(* The last look at the queue: the call leaves only if it is empty.        *)
LEMMA CheckEmptyInv ==
  ASSUME IndInv, NEW o \in Ops, CheckEmpty(o)
  PROVE  IndInv'
<1> USE DEF CheckEmpty
<1> TypeOK /\ OwnerInv /\ FrameInv /\ LinkInv /\ QueueWatched
  BY DEF IndInv
<1>1. TypeOK'
  BY DEF TypeOK, PCs
<1>2. OwnerInv'
  BY DEF OwnerInv, Owner, TypeOK, HoldingPCs
<1>3. FrameInv'
  BY DEF FrameInv, TypeOK
<1>4. LinkInv'
  BY DEF LinkInv, TypeOK
<1>5. QueueWatched'
  BY DEF QueueWatched, TypeOK
<1> QED
  BY <1>1, <1>2, <1>3, <1>4, <1>5 DEF IndInv

(* Every step of start() preserves the inductive invariant.                *)
LEMMA NextInv == IndInv /\ [Next]_vars => IndInv'
<1> SUFFICES ASSUME IndInv, [Next]_vars PROVE IndInv'
  OBVIOUS
<1>1. ASSUME NEW o \in Ops, Start(o) PROVE IndInv'
  <2>1. caller' \in [Ops -> Ops \union {NoOp}]
    BY <1>1 DEF Start, IndInv, TypeOK
  <2> QED
    BY <1>1, <2>1, PushFrontInv DEF Start
<1>2. ASSUME NEW o \in Ops, NEW f \in Ops, StartNested(o, f) PROVE IndInv'
  <2>1. caller' \in [Ops -> Ops \union {NoOp}]
    BY <1>2 DEF StartNested, IndInv, TypeOK
  <2> QED
    BY <1>2, <2>1, PushFrontInv DEF StartNested
<1>3. ASSUME NEW o \in Ops, Step(o) PROVE IndInv'
  BY <1>3, TryLockInv, PopAllInv, CompleteInv, ReturnInv, UnlockInv,
     FlushInv, CheckEmptyInv DEF Step
<1>4. CASE UNCHANGED vars
  BY <1>4 DEF vars, IndInv, TypeOK, OwnerInv, Owner, FrameInv, LinkInv,
              QueueWatched
<1> QED
  BY <1>1, <1>2, <1>3, <1>4 DEF Next, Terminated

(* The inductive invariant holds in every state, with or without a store   *)
(* buffer.                                                                 *)
THEOREM Invariance == SafeSpec => []IndInv
BY InitInv, NextInv, PTL DEF SafeSpec

-----------------------------------------------------------------------------
(* Every variable keeps its type and no receiver is completed twice.       *)
THEOREM TypeCorrect == SafeSpec => []TypeOK
<1>1. IndInv => TypeOK
  BY DEF IndInv
<1> QED
  BY <1>1, Invariance, PTL

(* Continuations never overlap, whatever the number of lock operations,    *)
(* started from threads or from continuations, and even if the store to    *)
(* locked_ is delayed in a store buffer.                                   *)
THEOREM MutualExclusionHolds == SafeSpec => []MutualExclusion
<1>1. IndInv => MutualExclusion
  BY DEF IndInv, OwnerInv, Owner, FrameInv, HoldingPCs, MutualExclusion
<1> QED
  BY <1>1, Invariance, PTL

(* start() never walks a list with an operation that was completed and may *)
(* have been destroyed.                                                    *)
THEOREM LinkedNodesStayAlive == SafeSpec => []LinkedNodesAreAlive
<1>1. IndInv => LinkedNodesAreAlive
  <2> SUFFICES ASSUME IndInv PROVE LinkedNodesAreAlive
    OBVIOUS
  <2>1. \A f, g \in Ops : f # g => pending[f] = <<>> \/ pending[g] = <<>>
    BY DEF IndInv, OwnerInv, Owner, FrameInv, HoldingPCs
  <2> QED
    BY <2>1, EmptyListElements DEF IndInv, LinkInv, LinkedNodesAreAlive
<1> QED
  BY <1>1, Invariance, PTL

(* When the store to locked_ is seen before the queue is looked at again,  *)
(* no started operation is left behind once every call has returned.       *)
THEOREM NoLockLostHolds == ~StoreBuffering => (SafeSpec => []NoLockLost)
<1> SUFFICES ASSUME ~StoreBuffering PROVE SafeSpec => []NoLockLost
  OBVIOUS
<1>1. IndInv => NoLockLost
  <2> SUFFICES ASSUME IndInv, \A o \in Ops : pc[o] \in {"idle", "done"},
                      NEW o \in Ops, pc[o] = "done"
               PROVE  completions[o] = 1
    BY DEF NoLockLost
  <2>1. inflight = <<>>
    BY DEF IndInv, QueueWatched, HoldingPCs
  <2>2. \A f \in Ops : pending[f] = <<>>
    BY DEF IndInv, FrameInv
  <2>3. completions[o] # 0
    BY <2>1, <2>2, EmptyListElements DEF IndInv, LinkInv
  <2> QED
    BY <2>3 DEF IndInv, TypeOK
<1> QED
  BY <1>1, Invariance, PTL

-----------------------------------------------------------------------------
(* Refinement of the abstract lock.                                        *)

(* Steps that complete nothing, return from nothing and start nothing do   *)
(* not show in the abstract lock.                                          *)
LEMMA InvisibleStep ==
  ASSUME IndInv, UNCHANGED <<current, completions>>,
         \A p \in Ops : pc'[p] = "idle" <=> pc[p] = "idle"
  PROVE  UNCHANGED [o \in Ops |-> StatusOf(o)]
<1>1. \A p \in Ops : StatusOf(p)' = StatusOf(p)
  BY DEF StatusOf
<1> QED
  BY <1>1

(* Pushing an operation is a request of the abstract lock.                 *)
LEMMA StartIsRequest ==
  ASSUME IndInv, NEW o \in Ops, PushFront(o)
  PROVE  Lock!Request(o)
<1>1. /\ pc[o] = "idle" /\ completions[o] = 0
      /\ pc'[o] = "cas" /\ completions'[o] = 0
  BY DEF IndInv, LinkInv, TypeOK, PushFront
<1>2. StatusOf(o) = "idle" /\ StatusOf(o)' = "waiting"
  BY <1>1 DEF StatusOf
<1>3. \A p \in Ops : p # o => StatusOf(p)' = StatusOf(p)
  BY DEF IndInv, TypeOK, PushFront, StatusOf
<1> QED
  BY <1>2, <1>3 DEF Lock!Request

(* Calling complete() on an operation gives it the abstract lock.          *)
LEMMA CompleteIsAcquire ==
  ASSUME IndInv, NEW o \in Ops, Complete(o)
  PROVE  Lock!Acquire(Head(pending[o])) /\ Head(pending[o]) \in Ops
<1>0. Head(pending[o]) \in Ops /\ Head(pending[o]) \in Elements(pending[o])
  BY PopFrontElements DEF IndInv, TypeOK, FrameInv, LinkInv, Complete
<1>1. PICK h \in Ops : h = Head(pending[o]) /\ h \in Elements(pending[o])
  BY <1>0
<1>2. completions[h] = 0 /\ pc[h] # "idle"
  BY <1>1 DEF IndInv, LinkInv
<1>3. \A f \in Ops : current[f] = NoOp
  BY DEF IndInv, FrameInv, OwnerInv, Owner, HoldingPCs, Complete
<1>4. /\ completions' = [completions EXCEPT ![h] = 1]
      /\ current' = [current EXCEPT ![o] = h]
      /\ \A p \in Ops : pc'[p] = "idle" <=> pc[p] = "idle"
  BY <1>1, <1>2 DEF Complete, IndInv, TypeOK
<1>5. StatusOf(h) = "waiting"
  BY <1>2 DEF StatusOf
<1>6. StatusOf(h)' = "holding"
  <2>1. completions'[h] = 1 /\ current'[o] = h /\ pc'[h] # "idle"
    BY <1>1, <1>2, <1>4 DEF IndInv, TypeOK
  <2> QED
    BY <2>1 DEF StatusOf
<1>7. \A p \in Ops : p # h => StatusOf(p)' = StatusOf(p)
  <2> SUFFICES ASSUME NEW p \in Ops, p # h
               PROVE  StatusOf(p)' = StatusOf(p)
    OBVIOUS
  <2>1. completions'[p] = completions[p]
    BY <1>4 DEF IndInv, TypeOK
  <2>2. ~ \E f \in Ops : current[f] = p
    BY <1>3, OpsAssumption
  <2>3. ~ \E f \in Ops : current'[f] = p
    BY <1>3, <1>4, OpsAssumption DEF IndInv, TypeOK
  <2> QED
    BY <1>4, <2>1, <2>2, <2>3 DEF StatusOf
<1>8. \A p \in Ops : StatusOf(p) # "holding"
  BY <1>3, OpsAssumption DEF StatusOf
<1>9. Lock!Acquire(h)
  BY <1>1, <1>5, <1>6, <1>7, <1>8 DEF Lock!Acquire
<1> QED
  BY <1>1, <1>9

(* The return of complete() gives the abstract lock back.                  *)
LEMMA ReturnIsRelease ==
  ASSUME IndInv, NEW o \in Ops, Return(o)
  PROVE  Lock!Release(current[o]) /\ current[o] \in Ops
<1>0. current[o] \in Ops /\ completions[current[o]] = 1
  BY DEF IndInv, FrameInv, TypeOK, Return
<1>1. PICK c \in Ops : c = current[o] /\ completions[c] = 1
  BY <1>0
<1>2. pc[c] # "idle"
  BY <1>1 DEF IndInv, LinkInv
<1>3. \A f \in Ops : f # o => current[f] = NoOp
  BY DEF IndInv, FrameInv, OwnerInv, Owner, HoldingPCs, Return
<1>4. /\ current' = [current EXCEPT ![o] = NoOp]
      /\ completions' = completions
      /\ \A p \in Ops : pc'[p] = "idle" <=> pc[p] = "idle"
  BY DEF Return, IndInv, TypeOK
<1>5. \A f \in Ops : current'[f] = NoOp
  BY <1>3, <1>4 DEF IndInv, TypeOK
<1>6. StatusOf(c) = "holding"
  BY <1>1, <1>2 DEF StatusOf
<1>7. StatusOf(c)' = "released"
  BY <1>1, <1>2, <1>4, <1>5, OpsAssumption DEF StatusOf
<1>8. \A p \in Ops : p # c => StatusOf(p)' = StatusOf(p)
  <2> SUFFICES ASSUME NEW p \in Ops, p # c
               PROVE  StatusOf(p)' = StatusOf(p)
    OBVIOUS
  <2>1. ~ \E f \in Ops : current[f] = p
    BY <1>1, <1>3, OpsAssumption
  <2>2. ~ \E f \in Ops : current'[f] = p
    BY <1>5, OpsAssumption
  <2> QED
    BY <1>4, <2>1, <2>2 DEF StatusOf
<1>9. Lock!Release(c)
  BY <1>1, <1>6, <1>7, <1>8 DEF Lock!Release
<1> QED
  BY <1>1, <1>9

(* Every step of start() is a step of the abstract lock or invisible.      *)
LEMMA StepSimulation ==
  IndInv /\ [Next]_vars => [Lock!Next]_([o \in Ops |-> StatusOf(o)])
<1> SUFFICES ASSUME IndInv, [Next]_vars
             PROVE  [Lock!Next]_([o \in Ops |-> StatusOf(o)])
  OBVIOUS
<1> USE DEF Lock!Next
<1>1. ASSUME NEW o \in Ops, PushFront(o) PROVE Lock!Next
  BY <1>1, StartIsRequest
<1>2. ASSUME NEW o \in Ops, Complete(o) PROVE Lock!Next
  BY <1>2, CompleteIsAcquire
<1>3. ASSUME NEW o \in Ops, Return(o) PROVE Lock!Next
  BY <1>3, ReturnIsRelease
<1>4. ASSUME NEW o \in Ops, TryLock(o) \/ PopAll(o) \/ Unlock(o) \/ Flush(o)
                             \/ CheckEmpty(o)
      PROVE  UNCHANGED [p \in Ops |-> StatusOf(p)]
  <2>1. UNCHANGED <<current, completions>>
    BY <1>4 DEF TryLock, PopAll, Unlock, Flush, CheckEmpty
  <2>2. \A p \in Ops : pc'[p] = "idle" <=> pc[p] = "idle"
    BY <1>4 DEF TryLock, PopAll, Unlock, Flush, CheckEmpty, IndInv, TypeOK
  <2> QED
    BY <2>1, <2>2, InvisibleStep
<1>5. CASE UNCHANGED vars
  BY <1>5, InvisibleStep DEF vars
<1> QED
  BY <1>1, <1>2, <1>3, <1>4, <1>5
     DEF Next, Start, StartNested, Step, Terminated

(* Every behaviour of the mutex is one of the abstract lock, with or       *)
(* without a store buffer: start() requests, complete() acquires, the      *)
(* return of the continuation releases, and nothing else shows.            *)
THEOREM RefinesAsyncLock == SafeSpec => Lock!SafeSpec
<1>1. Init => Lock!Init
  BY DEF Init, Lock!Init, StatusOf
<1> QED
  BY <1>1, Invariance, StepSimulation, PTL DEF SafeSpec, Lock!SafeSpec

=============================================================================
