-------------------------- MODULE MemoryPoolProofs --------------------------
(***************************************************************************)
(* Proofs about MemoryPool for any set of uses and blocks and any sizes    *)
(* below the bound of SizeAssumption, with allocations, deallocations and  *)
(* stop requests on any thread.                                            *)
(***************************************************************************)
EXTENDS MemoryPool, ListLemmas

(* The class of a request is one of the pool's classes.                    *)
LEMMA ClassOfType == \A o \in Ops : ClassOf[o] \in Classes
BY DEF Classes

(* A free block is in the list of some class, and in the upstream's hands  *)
(* no longer.                                                              *)
LEMMA FreeBlocksMembers ==
  \A b : b \in FreeBlocks <=> \E c \in Classes : b \in Elements(freeList[c])
BY DEF FreeBlocks

(* The blocks that are held are those of some use.                         *)
LEMMA HeldBlocksMembers ==
  \A b : b \in HeldBlocks <=> b # NoBlock /\ \E o \in Ops : b = held[o]
BY DEF HeldBlocks

-----------------------------------------------------------------------------
(* The blocks, one lemma per way to move one.                              *)

(* A block leaves its free list for the use that takes it.                 *)
LEMMA TakeFreeBlocks ==
  ASSUME IndInv, NEW o \in Ops, TakeFree(o)
  PROVE  BlockInOnePlace' /\ FreeInv'
<1> DEFINE c == ClassOf[o]
           b == Head(freeList[c])
<1> TypeOK /\ HoldInv /\ FreeInv /\ BlockInOnePlace
  BY DEF IndInv
<1>1. c \in Classes
  BY ClassOfType
<1>2. /\ freeList[c] \in Seq(Blocks)
      /\ freeList[c] # <<>>
      /\ NoDuplicates(freeList[c])
  BY <1>1 DEF TypeOK, BlockInOnePlace, TakeFree
<1>3. /\ b \in Blocks
      /\ b \in Elements(freeList[c])
      /\ Elements(Tail(freeList[c])) = Elements(freeList[c]) \ {b}
      /\ NoDuplicates(Tail(freeList[c]))
  BY <1>2, PopFrontElements
<1>4. /\ held' = [held EXCEPT ![o] = b]
      /\ freeList' = [freeList EXCEPT ![c] = Tail(freeList[c])]
      /\ UNCHANGED <<fresh, leaked, returned, header>>
      /\ held[o] = NoBlock
  BY DEF TakeFree, HoldInv
<1>5. b # NoBlock
  BY <1>3, NullAssumption
<1>6. \A d \in Classes :
        /\ Elements(freeList[d])' = Elements(freeList[d]) \ {b}
        /\ NoDuplicates(freeList[d])'
  BY <1>1, <1>3, <1>4 DEF TypeOK, BlockInOnePlace
<1> HIDE DEF b, c
<1>7. FreeBlocks' = FreeBlocks \ {b} /\ b \in FreeBlocks
  BY <1>1, <1>3, <1>6, FreeBlocksMembers DEF FreeBlocks
<1>8. HeldBlocks' = HeldBlocks \union {b}
  BY <1>4, <1>5 DEF HeldBlocks, TypeOK
<1>9. \A p, q \in Ops : held'[p] = held'[q] /\ held'[p] # NoBlock => p = q
  BY <1>4, <1>7, HeldBlocksMembers DEF BlockInOnePlace, TypeOK
<1>10. BlockInOnePlace'
  BY <1>4, <1>6, <1>7, <1>8, <1>9, ZenonT(30) DEF BlockInOnePlace
<1>11. FreeInv'
  BY <1>4, <1>6 DEF FreeInv
<1> QED
  BY <1>10, <1>11

(* A chunk of the upstream becomes a block, and the one allocated before   *)
(* it is lost.                                                             *)
LEMMA TakeUpstreamBlocks ==
  ASSUME IndInv, NEW o \in Ops, TakeUpstream(o)
  PROVE  BlockInOnePlace' /\ FreeInv'
<1> TypeOK /\ HoldInv /\ FreeInv /\ BlockInOnePlace
  BY DEF IndInv
<1> PICK first \in fresh, b \in fresh :
      /\ first # b
      /\ leaked' = leaked \union {first}
      /\ fresh' = fresh \ {first, b}
      /\ header' = [header EXCEPT ![b] = ClassOf[o]]
      /\ held' = [held EXCEPT ![o] = b]
  BY DEF TakeUpstream
<1>1. UNCHANGED <<returned, freeList>> /\ held[o] = NoBlock
  BY DEF TakeUpstream, HoldInv
<1>2. b \in Blocks /\ b # NoBlock
  BY NullAssumption DEF TypeOK
<1>3. b \notin FreeBlocks /\ b \notin HeldBlocks
  BY DEF BlockInOnePlace
<1>4. FreeBlocks' = FreeBlocks
  BY <1>1 DEF FreeBlocks
<1>5. HeldBlocks' = HeldBlocks \union {b}
  BY <1>1, <1>2 DEF HeldBlocks, TypeOK
<1>6. \A p, q \in Ops : held'[p] = held'[q] /\ held'[p] # NoBlock => p = q
  BY <1>3, HeldBlocksMembers DEF BlockInOnePlace, TypeOK
<1>7. BlockInOnePlace'
  BY <1>1, <1>4, <1>5, <1>6 DEF BlockInOnePlace
<1>8. FreeInv'
  BY <1>1, <1>3, FreeBlocksMembers DEF FreeInv, TypeOK
<1> QED
  BY <1>7, <1>8

(* Where upstream has no memory left, the chunk of the call that succeeded *)
(* is lost.                                                                *)
LEMMA EnqueueBlocks ==
  ASSUME IndInv, NEW o \in Ops, Enqueue(o)
  PROVE  BlockInOnePlace' /\ FreeInv'
<1> TypeOK /\ FreeInv /\ BlockInOnePlace
  BY DEF IndInv
<1>2. /\ UNCHANGED <<returned, freeList, held, header>>
      /\ leaked' = leaked \union fresh
      /\ fresh' = {}
  BY DEF Enqueue
<1>3. FreeBlocks' = FreeBlocks /\ HeldBlocks' = HeldBlocks
  BY <1>2 DEF FreeBlocks, HeldBlocks
<1>4. BlockInOnePlace'
  BY <1>2, <1>3 DEF BlockInOnePlace
<1>5. FreeInv'
  BY <1>2 DEF FreeInv
<1> QED
  BY <1>4, <1>5

(* A block goes from the use that gives it back to the first waiter.       *)
LEMMA HandOverBlocks ==
  ASSUME IndInv, NEW p \in Ops, NEW q \in Ops, p # q,
         held[p] # NoBlock, held[q] = NoBlock,
         held' = [held EXCEPT ![p] = NoBlock, ![q] = held[p]],
         UNCHANGED <<fresh, leaked, returned, header, freeList>>
  PROVE  BlockInOnePlace' /\ FreeInv'
<1> TypeOK /\ FreeInv /\ BlockInOnePlace
  BY DEF IndInv
<1>1. /\ held'[p] = NoBlock
      /\ held'[q] = held[p]
      /\ \A o \in Ops : o # p /\ o # q => held'[o] = held[o]
  BY DEF TypeOK
<1>2. FreeBlocks' = FreeBlocks
  BY DEF FreeBlocks
<1>3. HeldBlocks' = HeldBlocks
  BY <1>1 DEF HeldBlocks
<1>4. \A r, s \in Ops : held'[r] = held'[s] /\ held'[r] # NoBlock => r = s
  BY <1>1 DEF BlockInOnePlace
<1>5. BlockInOnePlace'
  BY <1>2, <1>3, <1>4 DEF BlockInOnePlace
<1>6. FreeInv'
  BY DEF FreeInv
<1> QED
  BY <1>5, <1>6

(* A block goes to the free list of its class when nobody waits for it.    *)
LEMMA PutFreeBlocks ==
  ASSUME IndInv, NEW p \in Ops, PutFree(p)
  PROVE  BlockInOnePlace' /\ FreeInv'
<1> DEFINE b == held[p]
           c == header[held[p]]
<1> TypeOK /\ HoldInv /\ FreeInv /\ BlockInOnePlace
  BY DEF IndInv
<1>1. b # NoBlock /\ b \in Blocks
  BY DEF PutFree, HoldInv, TypeOK
<1>2. c \in Classes
  BY <1>1, ClassOfType DEF HoldInv
<1>3. b \in HeldBlocks
  BY <1>1, HeldBlocksMembers
<1>4. b \notin FreeBlocks /\ \A d \in Classes : b \notin Elements(freeList[d])
  BY <1>3, FreeBlocksMembers DEF BlockInOnePlace
<1>5. freeList[c] \in Seq(Blocks) /\ NoDuplicates(freeList[c])
  BY <1>2 DEF TypeOK, BlockInOnePlace
<1>6. /\ Elements(<<b>> \o freeList[c]) = {b} \union Elements(freeList[c])
      /\ NoDuplicates(<<b>> \o freeList[c])
  BY <1>1, <1>2, <1>4, <1>5, PushFrontElements
<1>7. /\ held' = [held EXCEPT ![p] = NoBlock]
      /\ freeList' = [freeList EXCEPT ![c] = <<b>> \o freeList[c]]
      /\ UNCHANGED <<fresh, leaked, returned, header>>
  BY DEF PutFree
<1> HIDE DEF b, c
<1>8. /\ Elements(freeList'[c]) = {b} \union Elements(freeList[c])
      /\ NoDuplicates(freeList'[c])
      /\ \A d \in Classes : d # c => freeList'[d] = freeList[d]
  BY <1>2, <1>6, <1>7 DEF TypeOK
<1>9. FreeBlocks' = FreeBlocks \union {b}
  BY <1>2, <1>8 DEF FreeBlocks
<1>10. /\ held'[p] = NoBlock
       /\ \A o \in Ops : o # p => held'[o] = held[o] /\ held[o] # b
  BY <1>1, <1>7 DEF TypeOK, BlockInOnePlace, b
<1>11. HeldBlocks' = HeldBlocks \ {b}
  BY <1>1, <1>10 DEF HeldBlocks, b
<1>12. \A r, s \in Ops : held'[r] = held'[s] /\ held'[r] # NoBlock => r = s
  BY <1>10 DEF BlockInOnePlace
<1>13. BlockInOnePlace'
  <2>1. \A d, e \in Classes : d # e =>
          Elements(freeList'[d]) \intersect Elements(freeList'[e]) = {}
    BY <1>2, <1>4, <1>8 DEF BlockInOnePlace
  <2>2. \A d \in Classes : NoDuplicates(freeList'[d])
    BY <1>8 DEF BlockInOnePlace
  <2>3. FreeBlocks' \union HeldBlocks' = FreeBlocks \union HeldBlocks
    BY <1>3, <1>9, <1>11
  <2>4. FreeBlocks' \intersect HeldBlocks' = {}
    BY <1>9, <1>11 DEF BlockInOnePlace
  <2>5. UNCHANGED <<fresh, leaked, returned>>
    BY <1>7
  <2> QED
    BY <1>12, <2>1, <2>2, <2>3, <2>4, <2>5 DEF BlockInOnePlace
<1>14. header[b] = c
  BY DEF b, c
<1>15. FreeInv'
  BY <1>7, <1>8, <1>14 DEF FreeInv
<1> QED
  BY <1>13, <1>15

(* The destructor gives the free blocks back.                              *)
LEMMA DestroyBlocks ==
  ASSUME IndInv, Destroy
  PROVE  BlockInOnePlace' /\ FreeInv'
<1> TypeOK /\ BlockInOnePlace
  BY DEF IndInv
<1>1. /\ returned' = returned \union FreeBlocks
      /\ \A c \in Classes : freeList'[c] = <<>>
      /\ UNCHANGED <<fresh, leaked, held>>
  BY DEF Destroy, FreeBlocks
<1>2. \A c \in Classes : Elements(freeList[c])' = {} /\ NoDuplicates(freeList[c])'
  BY <1>1, EmptyListElements
<1>3. FreeBlocks' = {} /\ HeldBlocks' = HeldBlocks
  BY <1>1, <1>2 DEF FreeBlocks, HeldBlocks
<1>4. BlockInOnePlace'
  BY <1>1, <1>2, <1>3 DEF BlockInOnePlace
<1>5. FreeInv'
  BY <1>2 DEF FreeInv
<1> QED
  BY <1>4, <1>5

(* A step that moves no block keeps the blocks where they are.             *)
LEMMA BlocksUnmoved ==
  ASSUME IndInv, UNCHANGED <<fresh, leaked, returned, header, freeList, held>>
  PROVE  BlockInOnePlace' /\ FreeInv'
BY DEF IndInv, BlockInOnePlace, FreeInv, FreeBlocks, HeldBlocks

-----------------------------------------------------------------------------
(* The invariant that holds whatever the waiting lists have become, one    *)
(* lemma per kind of step.                                                 *)

(* An operation can be linked in the list of its class, nullptr in none.   *)
LEMMA OfClassMembers ==
  /\ \A o \in Ops : ClassOf[o] \in Classes /\ o \in OfClass(ClassOf[o])
  /\ \A c : OfClass(c) \subseteq Ops /\ Null \notin OfClass(c)
BY NullAssumption, ClassOfType DEF OfClass

(* A waiting list can change as its member functions change it.            *)
LEMMA PendingTyped ==
  ASSUME TypeOK, NEW c \in Classes, NEW l \in IntrusiveLists(OfClass(c)),
         pending' = [pending EXCEPT ![c] = l]
  PROVE  /\ DOMAIN pending' = Classes
         /\ \A d \in Classes : pending'[d] \in IntrusiveLists(OfClass(d))
         /\ pending'[c] = l
         /\ \A d \in Classes : d # c => pending'[d] = pending[d]
BY DEF TypeOK

(* It holds when the pool is constructed.                                  *)
LEMMA InitInv == Init => IndInv
<1> SUFFICES ASSUME Init PROVE IndInv
  OBVIOUS
<1> USE DEF Init
<1>1. /\ <<>> \in Seq(Blocks)
      /\ \A c \in Classes : EmptyList(OfClass(c)) \in IntrusiveLists(OfClass(c))
  BY DEF EmptyList, IntrusiveLists
<1>2. TypeOK
  BY <1>1 DEF TypeOK, PCs, CallbackStates
<1>3. HoldInv
  BY DEF HoldInv
<1>4. FreeInv
  BY EmptyListElements DEF FreeInv
<1>5. TargetInv /\ CallbackInv
  BY DEF TargetInv, CallbackInv
<1>6. FreeBlocks = {} /\ HeldBlocks = {}
  BY EmptyListElements DEF FreeBlocks, HeldBlocks
<1>7. BlockInOnePlace
  BY <1>6, EmptyListElements DEF BlockInOnePlace
<1> QED
  BY <1>2, <1>3, <1>4, <1>5, <1>7 DEF IndInv

(* The head of a free list is taken.                                       *)
LEMMA TakeFreeInv ==
  ASSUME IndInv, NEW o \in Ops, TakeFree(o)
  PROVE  IndInv'
<1> DEFINE c == ClassOf[o]
           b == Head(freeList[c])
<1> TypeOK /\ HoldInv /\ FreeInv /\ TargetInv /\ CallbackInv
  BY DEF IndInv
<1>1. /\ pc[o] = "idle"
      /\ pc' = [pc EXCEPT ![o] = "granted"]
      /\ held' = [held EXCEPT ![o] = b]
      /\ freeList' = [freeList EXCEPT ![c] = Tail(freeList[c])]
      /\ UNCHANGED <<fresh, leaked, returned, header, pending, target,
                     callback, completions>>
  BY DEF TakeFree
<1>2. c \in Classes
  BY ClassOfType
<1>3. /\ b \in Blocks
      /\ b \in Elements(freeList[c])
      /\ Tail(freeList[c]) \in Seq(Blocks)
  BY <1>2, PopFrontElements DEF TypeOK, IndInv, BlockInOnePlace, TakeFree
<1>4. header[b] = c
  BY <1>2, <1>3 DEF FreeInv
<1> HIDE DEF b
<1>5. TypeOK'
  BY <1>1, <1>2, <1>3 DEF TypeOK, PCs
<1>6. HoldInv'
  BY <1>1, <1>3, <1>4, NullAssumption DEF HoldInv, TypeOK
<1>7. TargetInv' /\ CallbackInv'
  BY <1>1 DEF TargetInv, CallbackInv, TypeOK
<1> QED
  BY <1>5, <1>6, <1>7, TakeFreeBlocks DEF IndInv

(* A block is allocated from the upstream.                                 *)
LEMMA TakeUpstreamInv ==
  ASSUME IndInv, NEW o \in Ops, TakeUpstream(o)
  PROVE  IndInv'
<1> TypeOK /\ HoldInv /\ TargetInv /\ BlockInOnePlace /\ CallbackInv
  BY DEF IndInv
<1> PICK b \in fresh :
      /\ header' = [header EXCEPT ![b] = ClassOf[o]]
      /\ held' = [held EXCEPT ![o] = b]
  BY DEF TakeUpstream
<1>1. /\ pc[o] = "idle"
      /\ pc' = [pc EXCEPT ![o] = "granted"]
      /\ UNCHANGED <<returned, freeList, pending, target, callback,
                     completions>>
      /\ fresh' \subseteq Blocks
      /\ leaked' \subseteq Blocks
  BY DEF TakeUpstream, TypeOK
<1>2. b \in Blocks /\ ClassOf[o] \in Classes
  BY ClassOfType DEF TypeOK
<1>3. \A p \in Ops : held[p] # b
  BY <1>2, NullAssumption, HeldBlocksMembers DEF BlockInOnePlace
<1>4. TypeOK'
  BY <1>1, <1>2 DEF TypeOK, PCs
<1>5. HoldInv'
  BY <1>1, <1>2, <1>3, NullAssumption DEF HoldInv, TypeOK
<1>6. TargetInv' /\ CallbackInv'
  BY <1>1 DEF TargetInv, CallbackInv, TypeOK
<1> QED
  BY <1>4, <1>5, <1>6, TakeUpstreamBlocks DEF IndInv

(* An allocation that finds no memory is appended to the list of its class.*)
LEMMA EnqueueInv ==
  ASSUME IndInv, NEW o \in Ops, Enqueue(o)
  PROVE  IndInv'
<1> DEFINE c == ClassOf[o]
<1> TypeOK /\ HoldInv /\ TargetInv /\ CallbackInv
  BY DEF IndInv
<1>1. /\ pc[o] = "idle"
      /\ \E s \in {"waiting", "self_deadlock"} : pc' = [pc EXCEPT ![o] = s]
      /\ \E k \in {"running", "registered"} :
           callback' = [callback EXCEPT ![o] = k]
      /\ pending' = [pending EXCEPT ![c] = push_back(pending[c], o)]
      /\ UNCHANGED <<returned, header, freeList, held, target, completions>>
      /\ fresh' \subseteq Blocks
      /\ leaked' \subseteq Blocks
  BY DEF Enqueue, TypeOK
<1>2. /\ c \in Classes
      /\ push_back(pending[c], o) \in IntrusiveLists(OfClass(c))
  BY OfClassMembers, CallsTyped DEF TypeOK
<1>3. TypeOK'
  <2>1. /\ DOMAIN pending' = Classes
        /\ \A d \in Classes : pending'[d] \in IntrusiveLists(OfClass(d))
    BY <1>1, <1>2, PendingTyped
  <2> QED
    BY <1>1, <2>1 DEF TypeOK, PCs, CallbackStates
<1>4. HoldInv' /\ TargetInv' /\ CallbackInv'
  BY <1>1 DEF HoldInv, TargetInv, CallbackInv, TypeOK
<1> QED
  BY <1>3, <1>4, EnqueueBlocks DEF IndInv

(* reclaim_memory pops the head of a waiting list, an operation that waits,*)
(* and gives it the block.                                                 *)
LEMMA HandOverInv ==
  ASSUME IndInv, NEW p \in Ops, HandOver(p)
  PROVE  IndInv'
<1> DEFINE c == header[held[p]]
           q == pending[c].head
<1> TypeOK /\ HoldInv /\ TargetInv /\ CallbackInv
  BY DEF IndInv
<1>1. /\ pc[p] \in {"owner", "broken"}
      /\ q # Null
      /\ pc[q] = "waiting"
      /\ pending' = [pending EXCEPT ![c] = pop_front(pending[c])]
      /\ held' = [held EXCEPT ![p] = NoBlock, ![q] = held[p]]
      /\ target' = [target EXCEPT ![p] = q]
      /\ pc' = [pc EXCEPT ![p] = "completing", ![q] = "handed"]
      /\ UNCHANGED <<fresh, leaked, returned, header, freeList, callback,
                     completions>>
  BY DEF HandOver
<1>2. held[p] # NoBlock /\ held[p] \in Blocks /\ c = ClassOf[p] /\ c \in Classes
  BY <1>1, ClassOfType DEF HoldInv, TypeOK
<1>3. q \in OfClass(c) /\ q \in Ops /\ ClassOf[q] = c
  BY <1>1, <1>2 DEF TypeOK, IntrusiveLists, OfClass
<1>4. pop_front(pending[c]) \in IntrusiveLists(OfClass(c))
  BY <1>1, <1>2, <1>3, CallsTyped, OfClassMembers DEF TypeOK
<1>5. held[q] = NoBlock /\ p # q
  BY <1>1, <1>3 DEF HoldInv
<1> HIDE DEF q
<1>6. /\ pc'[p] = "completing" /\ pc'[q] = "handed"
      /\ held'[p] = NoBlock /\ held'[q] = held[p]
      /\ target'[p] = q
      /\ \A o \in Ops : o # p => target'[o] = target[o]
      /\ \A o \in Ops : o # p /\ o # q =>
           pc'[o] = pc[o] /\ held'[o] = held[o]
  BY <1>1, <1>3, <1>5 DEF TypeOK
<1>7. TypeOK'
  <2>1. /\ DOMAIN pending' = Classes
        /\ \A d \in Classes : pending'[d] \in IntrusiveLists(OfClass(d))
    BY <1>1, <1>2, <1>4, PendingTyped
  <2> QED
    BY <1>1, <1>2, <1>3, <2>1 DEF TypeOK, PCs
<1>8. HoldInv'
  <2> SUFFICES ASSUME NEW o \in Ops
               PROVE  /\ pc'[o] # "dangling" =>
                           (held'[o] # NoBlock <=>
                              pc'[o] \in {"granted", "handed", "allocated",
                                          "owner", "broken"})
                      /\ held'[o] # NoBlock => header[held'[o]] = ClassOf[o]
    BY <1>1 DEF HoldInv
  <2>1. CASE o = p
    BY <1>6, <2>1
  <2>2. CASE o = q
    BY <1>2, <1>3, <1>6, <2>2
  <2>3. CASE o # p /\ o # q
    BY <1>6, <2>3 DEF HoldInv
  <2> QED
    BY <2>1, <2>2, <2>3
<1>9. TargetInv'
  <2>1. ASSUME NEW r \in Ops, r # p, pc'[r] = "completing"
        PROVE  /\ pc[r] = "completing"
               /\ target'[r] = target[r]
               /\ target[r] \in Ops
               /\ target[r] # p /\ target[r] # q
               /\ pc'[target[r]] = "handed"
    <3>1. pc[r] = "completing" /\ target'[r] = target[r]
      BY <1>6, <2>1
    <3>2. target[r] \in Ops /\ pc[target[r]] = "handed"
      BY <3>1 DEF TargetInv
    <3>3. target[r] # p /\ target[r] # q
      BY <1>1, <3>2 DEF q
    <3> QED
      BY <1>6, <3>1, <3>2, <3>3
  <2>2. \A r \in Ops : pc'[r] = "completing" =>
          target'[r] \in Ops /\ pc'[target'[r]] = "handed"
    BY <1>3, <1>6, <2>1
  <2>3. \A r, s \in Ops : pc'[r] = "completing" /\ pc'[s] = "completing"
                             /\ target'[r] = target'[s] => r = s
    BY <1>6, <2>1 DEF TargetInv
  <2> QED
    BY <2>2, <2>3 DEF TargetInv
<1>10. BlockInOnePlace' /\ FreeInv'
  BY <1>1, <1>2, <1>3, <1>5, HandOverBlocks
<1>11. CallbackInv'
  <2> SUFFICES ASSUME NEW o \in Ops
               PROVE  /\ pc'[o] \in {"idle", "granted"} =>
                           callback[o] = "none" /\ completions[o] = 0
                      /\ callback[o] \in {"registered", "running", "erased"} =>
                           /\ pc'[o] \in {"waiting", "handed", "self_deadlock"}
                           /\ completions[o] = 0
    BY <1>1 DEF CallbackInv
  <2>1. CASE o = p
    BY <1>1, <1>6, <2>1 DEF CallbackInv
  <2>2. CASE o = q
    BY <1>6, <2>2 DEF CallbackInv
  <2>3. CASE o # p /\ o # q
    BY <1>6, <2>3 DEF CallbackInv
  <2> QED
    BY <2>1, <2>2, <2>3
<1> QED
  BY <1>7, <1>8, <1>9, <1>10, <1>11 DEF IndInv

(* reclaim_memory puts the block on the free list.                         *)
LEMMA PutFreeInv ==
  ASSUME IndInv, NEW p \in Ops, PutFree(p)
  PROVE  IndInv'
<1> DEFINE c == header[held[p]]
           b == held[p]
<1> TypeOK /\ HoldInv /\ TargetInv /\ CallbackInv
  BY DEF IndInv
<1>1. /\ pc[p] \in {"owner", "broken"}
      /\ freeList' = [freeList EXCEPT ![c] = <<b>> \o freeList[c]]
      /\ held' = [held EXCEPT ![p] = NoBlock]
      /\ pc' = [pc EXCEPT ![p] = "finishing"]
      /\ UNCHANGED <<fresh, leaked, returned, header, pending, target, callback,
                     completions>>
  BY DEF PutFree
<1>2. b \in Blocks /\ c \in Classes
  BY <1>1, ClassOfType DEF HoldInv, TypeOK
<1>3. <<b>> \o freeList[c] \in Seq(Blocks)
  BY <1>2 DEF TypeOK
<1>4. TypeOK'
  BY <1>1, <1>2, <1>3 DEF TypeOK, PCs
<1>5. HoldInv'
  BY <1>1 DEF HoldInv, TypeOK
<1>6. TargetInv' /\ CallbackInv'
  BY <1>1 DEF TargetInv, CallbackInv, TypeOK
<1> QED
  BY <1>4, <1>5, <1>6, PutFreeBlocks DEF IndInv

(* The waiter that was given a block is completed by the one who gave it.  *)
LEMMA CompleteTargetInv ==
  ASSUME IndInv, NEW p \in Ops, CompleteTarget(p)
  PROVE  IndInv'
<1> DEFINE q == target[p]
<1> TypeOK /\ HoldInv /\ TargetInv /\ CallbackInv
  BY DEF IndInv
<1>1. /\ pc[p] = "completing"
      /\ callback' = [callback EXCEPT ![q] = "reset"]
      /\ completions' = [completions EXCEPT ![q] = completions[q] + 1]
      /\ pc' = [pc EXCEPT ![p] = "finishing", ![q] = "allocated"]
      /\ target' = [target EXCEPT ![p] = Null]
      /\ UNCHANGED <<fresh, leaked, returned, header, freeList, pending, held>>
  BY DEF CompleteTarget
<1>2. q \in Ops /\ pc[q] = "handed" /\ p # q
  BY <1>1 DEF TargetInv
<1> HIDE DEF q
<1>3. /\ pc'[p] = "finishing" /\ pc'[q] = "allocated"
      /\ callback'[q] = "reset"
      /\ \A o \in Ops : o # p => target'[o] = target[o]
      /\ \A o \in Ops : o # q => /\ callback'[o] = callback[o]
                                 /\ completions'[o] = completions[o]
      /\ \A o \in Ops : o # p /\ o # q => pc'[o] = pc[o]
  BY <1>1, <1>2 DEF TypeOK
<1>4. TypeOK'
  <2>1. completions' \in [Ops -> Nat]
    BY <1>1, <1>2 DEF TypeOK
  <2> QED
    BY <1>1, <1>2, <2>1 DEF TypeOK, PCs, CallbackStates
<1>5. HoldInv'
  BY <1>1, <1>2, <1>3 DEF HoldInv
<1>6. TargetInv'
  <2>1. ASSUME NEW r \in Ops, pc'[r] = "completing"
        PROVE  /\ r # p
               /\ pc[r] = "completing"
               /\ target'[r] = target[r]
               /\ target[r] # p /\ target[r] # q
    BY <1>1, <1>2, <1>3, <2>1 DEF TargetInv, q
  <2> QED
    BY <1>3, <2>1 DEF TargetInv
<1>7. CallbackInv'
  <2> SUFFICES ASSUME NEW o \in Ops
               PROVE  /\ pc'[o] \in {"idle", "granted"} =>
                           callback'[o] = "none" /\ completions'[o] = 0
                      /\ callback'[o] \in {"registered", "running", "erased"} =>
                           /\ pc'[o] \in {"waiting", "handed", "self_deadlock"}
                           /\ completions'[o] = 0
    BY DEF CallbackInv
  <2>1. CASE o = p
    <3>1. callback'[p] = callback[p]
      BY <1>2, <1>3
    <3> QED
      BY <1>1, <1>3, <2>1, <3>1 DEF CallbackInv
  <2>2. CASE o = q
    BY <1>3, <2>2
  <2>3. CASE o # p /\ o # q
    BY <1>3, <2>3 DEF CallbackInv
  <2> QED
    BY <2>1, <2>2, <2>3
<1>8. BlockInOnePlace' /\ FreeInv'
  BY <1>1, BlocksUnmoved
<1> QED
  BY <1>4, <1>5, <1>6, <1>7, <1>8 DEF IndInv

(* A step that only moves one use on, from a place where it neither waits  *)
(* nor was handed a block, keeps the invariant when it keeps having its    *)
(* block.                                                                  *)
LEMMA MoveOnInv ==
  ASSUME IndInv, NEW o \in Ops,
         NEW s \in {"allocated", "owner", "broken", "done", "dangling"},
         pc[o] \notin {"idle", "waiting", "handed", "self_deadlock"},
         pc' = [pc EXCEPT ![o] = s],
         s \in {"allocated", "owner", "broken"} =>
           pc[o] \in {"granted", "allocated"},
         s = "done" => pc[o] = "finishing",
         \/ UNCHANGED completions
         \/ completions' = [completions EXCEPT ![o] = completions[o] + 1],
         UNCHANGED <<fresh, leaked, returned, header, freeList, pending, held,
                     target, callback>>
  PROVE  IndInv'
<1> TypeOK /\ HoldInv /\ TargetInv /\ CallbackInv
  BY DEF IndInv
<1>1. /\ completions' \in [Ops -> Nat]
      /\ \A p \in Ops : p # o => completions'[p] = completions[p]
  <2>1. CASE UNCHANGED completions
    BY <2>1 DEF TypeOK
  <2>2. CASE completions' = [completions EXCEPT ![o] = completions[o] + 1]
    BY <2>2 DEF TypeOK
  <2> QED
    BY <2>1, <2>2
<1>2. pc'[o] = s /\ \A p \in Ops : p # o => pc'[p] = pc[p]
  BY DEF TypeOK
<1>3. TypeOK'
  BY <1>1 DEF TypeOK, PCs
<1>4. HoldInv'
  BY <1>2 DEF HoldInv
<1>5. TargetInv'
  BY <1>2 DEF TargetInv
<1>6. CallbackInv'
  BY <1>1, <1>2 DEF CallbackInv
<1>7. BlockInOnePlace' /\ FreeInv'
  BY BlocksUnmoved
<1> QED
  BY <1>3, <1>4, <1>5, <1>6, <1>7 DEF IndInv

(* A stop request changes nothing but the state of the callback.           *)
LEMMA RequestStopInv ==
  ASSUME IndInv, NEW o \in Ops, RequestStop(o)
  PROVE  IndInv'
<1> TypeOK /\ HoldInv /\ TargetInv /\ CallbackInv
  BY DEF IndInv
<1>1. /\ \/ callback' = [callback EXCEPT ![o] = callback[o]]
         \/ /\ callback[o] = "registered"
            /\ callback' = [callback EXCEPT ![o] = "running"]
      /\ UNCHANGED <<fresh, leaked, returned, header, freeList, pending, pc,
                     held, target, completions>>
  BY DEF RequestStop
<1>2. TypeOK'
  BY <1>1 DEF TypeOK, CallbackStates
<1>3. HoldInv' /\ TargetInv' /\ CallbackInv'
  BY <1>1 DEF HoldInv, TargetInv, CallbackInv, TypeOK
<1>4. BlockInOnePlace' /\ FreeInv'
  BY <1>1, BlocksUnmoved
<1> QED
  BY <1>2, <1>3, <1>4 DEF IndInv

(* on_receiver_stop erases the allocation from the list of its class, by   *)
(* the links it has.                                                       *)
LEMMA StopEraseInv ==
  ASSUME IndInv, NEW o \in Ops, StopErase(o)
  PROVE  IndInv'
<1> DEFINE c == ClassOf[o]
<1> TypeOK /\ HoldInv /\ TargetInv /\ CallbackInv
  BY DEF IndInv
<1>1. /\ callback[o] = "running"
      /\ callback' = [callback EXCEPT ![o] = "erased"]
      /\ pending' = [pending EXCEPT ![c] = erase(pending[c], o)]
      /\ UNCHANGED <<fresh, leaked, returned, header, freeList, pc, held, target,
                     completions>>
  BY DEF StopErase
<1>2. c \in Classes /\ erase(pending[c], o) \in IntrusiveLists(OfClass(c))
  BY OfClassMembers, CallsTyped DEF TypeOK
<1>3. /\ DOMAIN pending' = Classes
      /\ \A d \in Classes : pending'[d] \in IntrusiveLists(OfClass(d))
  BY <1>1, <1>2, PendingTyped
<1>4. TypeOK'
  BY <1>1, <1>3 DEF TypeOK, CallbackStates
<1>5. HoldInv' /\ TargetInv' /\ CallbackInv'
  BY <1>1 DEF HoldInv, TargetInv, CallbackInv, TypeOK
<1>6. BlockInOnePlace' /\ FreeInv'
  BY <1>1, BlocksUnmoved
<1> QED
  BY <1>4, <1>5, <1>6 DEF IndInv

(* on_receiver_stop completes the allocation it erased.                    *)
LEMMA StopCompleteInv ==
  ASSUME IndInv, NEW o \in Ops, StopComplete(o)
  PROVE  IndInv'
<1> TypeOK /\ HoldInv /\ TargetInv /\ CallbackInv
  BY DEF IndInv
<1>1. /\ callback[o] = "erased"
      /\ callback' = [callback EXCEPT ![o] = "reset"]
      /\ completions' = [completions EXCEPT ![o] = completions[o] + 1]
      /\ pc' = [pc EXCEPT ![o] = IF pc[o] = "waiting" THEN "stopped"
                                                      ELSE pc[o]]
      /\ UNCHANGED <<fresh, leaked, returned, header, freeList, pending, held,
                     target>>
  BY DEF StopComplete
<1>2. /\ \A p \in Ops :
           \/ pc'[p] = pc[p]
           \/ p = o /\ pc[p] = "waiting" /\ pc'[p] = "stopped"
      /\ callback'[o] = "reset"
      /\ \A p \in Ops : p # o => /\ callback'[p] = callback[p]
                                 /\ completions'[p] = completions[p]
      /\ completions' \in [Ops -> Nat]
  BY <1>1 DEF TypeOK
<1>3. TypeOK'
  BY <1>1, <1>2 DEF TypeOK, PCs, CallbackStates
<1>4. HoldInv'
  BY <1>1, <1>2 DEF HoldInv
<1>5. TargetInv'
  BY <1>1, <1>2 DEF TargetInv
<1>6. CallbackInv'
  <2>1. pc[o] \notin {"idle", "granted"}
    BY <1>1 DEF CallbackInv
  <2> QED
    BY <1>2, <2>1 DEF CallbackInv
<1>7. BlockInOnePlace' /\ FreeInv'
  BY <1>1, BlocksUnmoved
<1> QED
  BY <1>3, <1>4, <1>5, <1>6, <1>7 DEF IndInv

(* The destructor gives the free blocks back.                              *)
LEMMA DestroyInv ==
  ASSUME IndInv, Destroy
  PROVE  IndInv'
<1> TypeOK /\ HoldInv /\ TargetInv /\ CallbackInv
  BY DEF IndInv
<1>1. /\ returned' = returned \union FreeBlocks
      /\ freeList' = [c \in Classes |-> <<>>]
      /\ UNCHANGED <<fresh, leaked, header, pending, pc, held, target, callback,
                     completions>>
  BY DEF Destroy, FreeBlocks
<1>2. FreeBlocks \subseteq Blocks
  BY ElementsTyped, FreeBlocksMembers DEF TypeOK
<1>3. <<>> \in Seq(Blocks)
  OBVIOUS
<1>4. TypeOK'
  BY <1>1, <1>2, <1>3 DEF TypeOK
<1>5. HoldInv' /\ TargetInv' /\ CallbackInv'
  BY <1>1 DEF HoldInv, TargetInv, CallbackInv
<1> QED
  BY <1>4, <1>5, DestroyBlocks DEF IndInv

(* Every step of Next and every stuttering step keeps the invariant.       *)
LEMMA NextInv == IndInv /\ [Next]_vars => IndInv'
<1> SUFFICES ASSUME IndInv, [Next]_vars PROVE IndInv'
  OBVIOUS
<1>1. ASSUME NEW o \in Ops, Start(o) PROVE IndInv'
  BY <1>1, TakeFreeInv, TakeUpstreamInv, EnqueueInv DEF Start
<1>2. ASSUME NEW o \in Ops, Deliver(o) PROVE IndInv'
  BY <1>2, MoveOnInv DEF Deliver
<1>3. ASSUME NEW o \in Ops, Construct(o) PROVE IndInv'
  <2> PICK s \in {"owner", "broken"} : pc' = [pc EXCEPT ![o] = s]
    BY <1>3 DEF Construct
  <2> QED
    BY <1>3, MoveOnInv DEF Construct
<1>4. ASSUME NEW o \in Ops, Reclaim(o) PROVE IndInv'
  <2>1. CASE HandOverStale(o)
    BY <2>1, MoveOnInv DEF HandOverStale
  <2> QED
    BY <1>4, <2>1, HandOverInv, PutFreeInv DEF Reclaim
<1>5. ASSUME NEW o \in Ops, CompleteTarget(o) PROVE IndInv'
  BY <1>5, CompleteTargetInv
<1>6. ASSUME NEW o \in Ops, CompleteTargetStale(o) PROVE IndInv'
  BY <1>6, MoveOnInv DEF CompleteTargetStale
<1>7. ASSUME NEW o \in Ops, Finish(o) PROVE IndInv'
  BY <1>7, MoveOnInv DEF Finish
<1>8. ASSUME NEW o \in Ops, StopErase(o) \/ StopComplete(o) PROVE IndInv'
  BY <1>8, StopEraseInv, StopCompleteInv
<1>9. ASSUME NEW o \in Ops, RequestStop(o) PROVE IndInv'
  BY <1>9, RequestStopInv
<1>10. CASE Destroy
  BY <1>10, DestroyInv
<1>11. CASE UNCHANGED vars
  <2>1. BlockInOnePlace' /\ FreeInv'
    BY <1>11, BlocksUnmoved DEF vars
  <2> QED
    BY <1>11, <2>1 DEF vars, IndInv, TypeOK, HoldInv, TargetInv, CallbackInv
<1> QED
  BY <1>1, <1>2, <1>3, <1>4, <1>5, <1>6, <1>7, <1>8, <1>9, <1>10, <1>11
  DEF Next, Step

(* The invariant holds in every state the pool can reach, whichever        *)
(* threads allocate, free and stop.                                        *)
LEMMA Invariant == SafeSpec => []IndInv
<1> QED
  BY InitInv, NextInv, PTL DEF SafeSpec

(* A block is never lost and never in two places: in two free lists, with  *)
(* two users, or free while it is used, whatever the classes requested and *)
(* however allocations, deallocations and stop requests interleave, up to  *)
(* the step by which a thread works on an operation that is not its own.   *)
THEOREM BlockInOnePlaceHolds == SafeSpec => []BlockInOnePlace
<1>1. IndInv => BlockInOnePlace
  BY DEF IndInv
<1> QED
  BY <1>1, Invariant, PTL

-----------------------------------------------------------------------------
(* What holds as long as no allocation is erased that is not in the list,  *)
(* one lemma per kind of step.                                             *)

(* It holds when the pool is constructed.                                  *)
LEMMA InitListed == Init => ListedInv
<1> SUFFICES ASSUME Init PROVE ListedInv
  OBVIOUS
<1> USE DEF Init
<1>1. WaitInv
  <2>1. \A c \in Classes : Denotes(pending[c], waiting[c])
    BY DEF Denotes, Linked, EmptyList
  <2>2. \A c \in Classes : waiting[c] \in Seq(OfClass(c)) /\ waiting[c] = <<>>
    OBVIOUS
  <2> QED
    BY <2>1, <2>2, EmptyListElements DEF WaitInv
<1>2. WaitersLeaveNothingFree
  BY DEF WaitersLeaveNothingFree
<1>3. CompletionInv
  BY DEF CompletionInv, Completed
<1> QED
  BY <1>1, <1>2, <1>3 DEF ListedInv

(* What is linked in a waiting list is an operation of its class.          *)
LEMMA LinkedOps ==
  ASSUME WaitInv, NEW c \in Classes
  PROVE  /\ \A o \in Elements(waiting[c]) : o \in Ops /\ ClassOf[o] = c
         /\ waiting[c] \in Seq(OfClass(c))
         /\ Null \notin OfClass(c)
<1>1. waiting[c] \in Seq(OfClass(c))
  BY DEF WaitInv
<1>2. Elements(waiting[c]) \subseteq OfClass(c)
  BY <1>1, ElementsTyped
<1> QED
  BY <1>1, <1>2, OfClassMembers DEF OfClass

(* A step that moves one use on before it is linked or after it was        *)
(* completed, and completes it when it was granted a block.                *)
LEMMA MoveOnListed ==
  ASSUME IndInv, ListedInv, NEW o \in Ops, NEW s,
         \/ pc[o] = "idle" /\ s = "granted"
         \/ pc[o] = "granted" /\ s = "allocated"
         \/ pc[o] \in Completed /\ s \in Completed,
         pc' = [pc EXCEPT ![o] = s],
         completions' = IF pc[o] = "granted"
                          THEN [completions EXCEPT ![o] = completions[o] + 1]
                          ELSE completions,
         UNCHANGED <<pending, waiting, callback>>,
         WaitersLeaveNothingFree'
  PROVE  ListedInv'
<1> USE DEF Completed
<1> TypeOK /\ WaitInv /\ CompletionInv
  BY DEF IndInv, ListedInv
<1>1. /\ pc'[o] = s
      /\ \A p \in Ops : p # o => pc'[p] = pc[p]
  BY DEF TypeOK
<1>2. \A p \in Ops : p # o => completions'[p] = completions[p]
  BY DEF TypeOK
<1>3. completions'[o] = IF s \in Completed THEN 1 ELSE 0
  <2>1. completions[o] = IF pc[o] \in Completed THEN 1 ELSE 0
    BY DEF CompletionInv
  <2>2. CASE pc[o] = "granted"
    BY <2>1, <2>2 DEF TypeOK
  <2>3. CASE pc[o] # "granted"
    BY <2>1, <2>3
  <2> QED
    BY <2>2, <2>3
<1>4. CompletionInv'
  <2>1. /\ pc'[o] \notin {"handed", "self_deadlock", "waiting", "dangling"}
        /\ completions'[o] = IF pc'[o] \in Completed THEN 1 ELSE 0
    BY <1>1, <1>3
  <2> QED
    BY <1>1, <1>2, <2>1 DEF CompletionInv
<1>5. WaitInv'
  <2>1. \A c \in Classes : \A p \in Elements(waiting[c]) : p \in Ops /\ p # o
    BY LinkedOps DEF WaitInv
  <2> QED
    BY <1>1, <2>1 DEF WaitInv
<1> QED
  BY <1>4, <1>5 DEF ListedInv

(* An allocation that has to wait is linked with its callback registered,  *)
(* and its class has nothing free.                                         *)
LEMMA EnqueueListed ==
  ASSUME IndInv, ListedInv, NEW o \in Ops, Enqueue(o)
  PROVE  ListedInv'
<1> USE DEF Completed
<1> DEFINE c == ClassOf[o]
           l == push_back(pending[c], o)
<1> TypeOK /\ WaitInv /\ CompletionInv /\ WaitersLeaveNothingFree
  BY DEF IndInv, ListedInv
<1>1. /\ pc[o] = "idle"
      /\ pending' = [pending EXCEPT ![c] = l]
      /\ waiting' = [waiting EXCEPT ![c] = Append(waiting[c], o)]
      /\ freeList[c] = <<>>
      /\ UNCHANGED <<freeList, completions, listIntact>>
  BY DEF Enqueue
<1>2. /\ \/ pc'[o] = "self_deadlock" /\ callback'[o] = "running"
         \/ pc'[o] = "waiting" /\ callback'[o] = "registered"
      /\ \A p \in Ops : p # o => pc'[p] = pc[p] /\ callback'[p] = callback[p]
  BY DEF Enqueue, TypeOK
<1>3. /\ c \in Classes /\ o \in OfClass(c) /\ Null \notin OfClass(c)
      /\ waiting[c] \in Seq(OfClass(c)) /\ NoDuplicates(waiting[c])
      /\ pending[c] \in IntrusiveLists(OfClass(c))
      /\ Denotes(pending[c], waiting[c])
  BY OfClassMembers DEF TypeOK, WaitInv
<1>4. \A d \in Classes : o \notin Elements(waiting[d])
  BY <1>1 DEF WaitInv
<1>5. /\ Append(waiting[c], o) \in Seq(OfClass(c))
      /\ Elements(Append(waiting[c], o)) = Elements(waiting[c]) \union {o}
      /\ NoDuplicates(Append(waiting[c], o))
  BY <1>3, <1>4, PushBackElements
<1>6. l \in IntrusiveLists(OfClass(c)) /\ Denotes(l, Append(waiting[c], o))
  BY <1>3, <1>4, PushBackDenotes
<1> HIDE DEF l
<1>7. /\ pending'[c] = l /\ waiting'[c] = Append(waiting[c], o)
      /\ DOMAIN waiting' = Classes
      /\ \A d \in Classes : d # c => /\ pending'[d] = pending[d]
                                     /\ waiting'[d] = waiting[d]
  BY <1>1, <1>3 DEF TypeOK, WaitInv
<1>8. WaitInv'
  <2> SUFFICES ASSUME NEW d \in Classes
               PROVE  /\ waiting'[d] \in Seq(OfClass(d))
                      /\ NoDuplicates(waiting'[d])
                      /\ Denotes(pending'[d], waiting'[d])
                      /\ \A p \in Elements(waiting'[d]) :
                           /\ pc'[p] \in {"waiting", "self_deadlock"}
                           /\ callback'[p] # "erased"
    BY <1>7 DEF WaitInv
  <2>1. \A p \in Elements(waiting[d]) : p \in Ops /\ p # o
    BY <1>4, LinkedOps
  <2>2. \A p \in Elements(waiting[d]) :
          /\ pc'[p] \in {"waiting", "self_deadlock"}
          /\ callback'[p] # "erased"
    BY <1>2, <2>1 DEF WaitInv
  <2>3. CASE d = c
    BY <1>2, <1>5, <1>6, <1>7, <2>2, <2>3
  <2>4. CASE d # c
    BY <1>7, <2>2, <2>4 DEF WaitInv
  <2> QED
    BY <2>3, <2>4
<1>9. CompletionInv'
  <2>1. o \in Elements(waiting'[c])
    BY <1>5, <1>7
  <2>2. \A d \in Classes : Elements(waiting[d]) \subseteq Elements(waiting'[d])
    BY <1>5, <1>7
  <2>3. \A p \in Ops : ClassOf[p] \in Classes
    BY ClassOfType
  <2> SUFFICES ASSUME NEW p \in Ops
               PROVE  /\ completions'[p] = IF pc'[p] \in Completed THEN 1 ELSE 0
                      /\ pc'[p] # "dangling"
                      /\ pc'[p] = "handed" => callback'[p] \in {"registered", "running"}
                      /\ pc'[p] = "self_deadlock" => callback'[p] = "running"
                      /\ pc'[p] = "waiting" =>
                           \/ callback'[p] = "erased"
                           \/ /\ callback'[p] \in {"registered", "running"}
                              /\ p \in Elements(waiting'[ClassOf[p]])
    BY DEF CompletionInv
  <2>4. CASE p = o
    BY <1>1, <1>2, <2>1, <2>4 DEF CompletionInv
  <2>5. CASE p # o
    BY <1>1, <1>2, <2>2, <2>3, <2>5 DEF CompletionInv
  <2> QED
    BY <2>4, <2>5
<1>10. WaitersLeaveNothingFree'
  BY <1>1, <1>3, <1>7 DEF WaitersLeaveNothingFree
<1> QED
  BY <1>8, <1>9, <1>10 DEF ListedInv

(* A step that gives no class its first waiter, nor frees a block.         *)
LEMMA ShorterListsListed ==
  ASSUME ListedInv, listIntact, UNCHANGED freeList,
         \A c \in Classes : waiting'[c] # <<>> => waiting[c] # <<>>
  PROVE  WaitersLeaveNothingFree'
BY DEF ListedInv, WaitersLeaveNothingFree

(* The head of the list that is popped is the first that waits, and its    *)
(* stop callback has not erased it.                                        *)
LEMMA HandOverListed ==
  ASSUME IndInv, ListedInv, listIntact, NEW p \in Ops, HandOver(p)
  PROVE  ListedInv'
<1> USE DEF Completed
<1> DEFINE c == header[held[p]]
           q == pending[c].head
           l == pop_front(pending[c])
<1> TypeOK /\ HoldInv /\ WaitInv /\ CompletionInv
  BY DEF IndInv, ListedInv
<1>1. /\ pc[p] \in {"owner", "broken"}
      /\ q # Null
      /\ pc[q] = "waiting"
      /\ pending' = [pending EXCEPT ![c] = l]
      /\ waiting' = [waiting EXCEPT ![c] = Tail(waiting[c])]
      /\ pc' = [pc EXCEPT ![p] = "completing", ![q] = "handed"]
      /\ UNCHANGED <<freeList, callback, completions, listIntact>>
  BY DEF HandOver
<1>2. c = ClassOf[p] /\ c \in Classes
  BY <1>1, ClassOfType DEF HoldInv
<1>3. /\ waiting[c] \in Seq(OfClass(c)) /\ NoDuplicates(waiting[c])
      /\ pending[c] \in IntrusiveLists(OfClass(c))
      /\ Denotes(pending[c], waiting[c])
      /\ Null \notin OfClass(c)
  BY <1>2, OfClassMembers DEF TypeOK, WaitInv
<1>4. waiting[c] # <<>> /\ q = Head(waiting[c])
  BY <1>1, <1>3 DEF Denotes, Linked
<1>5. /\ q \in Elements(waiting[c])
      /\ Tail(waiting[c]) \in Seq(OfClass(c))
      /\ Elements(Tail(waiting[c])) = Elements(waiting[c]) \ {q}
      /\ NoDuplicates(Tail(waiting[c]))
  BY <1>3, <1>4, PopFrontElements
<1>6. l \in IntrusiveLists(OfClass(c)) /\ Denotes(l, Tail(waiting[c]))
  BY <1>3, <1>4, PopFrontDenotes
<1>7. q \in Ops /\ ClassOf[q] = c /\ p # q
  BY <1>1, <1>2, <1>5, LinkedOps
<1>8. callback[q] \in {"registered", "running"}
  BY <1>1, <1>2, <1>5, <1>7 DEF CompletionInv, WaitInv
<1> HIDE DEF q, l
<1>9. /\ pc'[p] = "completing" /\ pc'[q] = "handed"
      /\ \A r \in Ops : r # p /\ r # q => pc'[r] = pc[r]
  BY <1>1, <1>7 DEF TypeOK
<1> HIDE DEF c
<1>10. /\ pending'[c] = l /\ waiting'[c] = Tail(waiting[c])
       /\ DOMAIN waiting' = Classes
       /\ \A d \in Classes : d # c => /\ pending'[d] = pending[d]
                                      /\ waiting'[d] = waiting[d]
  BY <1>1, <1>2 DEF TypeOK, WaitInv
<1>11. WaitInv'
  <2> SUFFICES ASSUME NEW d \in Classes
               PROVE  /\ waiting'[d] \in Seq(OfClass(d))
                      /\ NoDuplicates(waiting'[d])
                      /\ Denotes(pending'[d], waiting'[d])
                      /\ \A o \in Elements(waiting'[d]) :
                           /\ pc'[o] \in {"waiting", "self_deadlock"}
                           /\ callback[o] # "erased"
    BY <1>1, <1>10 DEF WaitInv
  <2>1. \A o \in Elements(waiting[d]) : o \in Ops /\ ClassOf[o] = d /\ o # p
    BY <1>1, LinkedOps DEF WaitInv
  <2>2. \A o \in Elements(waiting[d]) : o # q =>
          /\ pc'[o] \in {"waiting", "self_deadlock"}
          /\ callback[o] # "erased"
    BY <1>9, <2>1 DEF WaitInv
  <2>3. CASE d = c
    BY <1>5, <1>6, <1>10, <2>2, <2>3
  <2>4. CASE d # c
    BY <1>7, <1>10, <2>1, <2>2, <2>4 DEF WaitInv
  <2> QED
    BY <2>3, <2>4
<1>12. CompletionInv'
  <2>1. \A d \in Classes : Elements(waiting[d]) \ {q} \subseteq Elements(waiting'[d])
    BY <1>5, <1>10
  <2>2. \A r \in Ops : ClassOf[r] \in Classes
    BY ClassOfType
  <2> SUFFICES ASSUME NEW r \in Ops
               PROVE  /\ completions[r] = IF pc'[r] \in Completed THEN 1 ELSE 0
                      /\ pc'[r] # "dangling"
                      /\ pc'[r] = "handed" => callback[r] \in {"registered", "running"}
                      /\ pc'[r] = "self_deadlock" => callback[r] = "running"
                      /\ pc'[r] = "waiting" =>
                           \/ callback[r] = "erased"
                           \/ /\ callback[r] \in {"registered", "running"}
                              /\ r \in Elements(waiting'[ClassOf[r]])
    BY <1>1 DEF CompletionInv
  <2>3. CASE r = p
    BY <1>1, <1>9, <2>3 DEF CompletionInv
  <2>4. CASE r = q
    BY <1>1, <1>7, <1>8, <1>9, <2>4 DEF CompletionInv
  <2>5. CASE r # p /\ r # q
    BY <1>9, <2>1, <2>2, <2>5 DEF CompletionInv
  <2> QED
    BY <2>3, <2>4, <2>5
<1>13. WaitersLeaveNothingFree'
  BY <1>1, <1>4, <1>10, ShorterListsListed
<1> QED
  BY <1>11, <1>12, <1>13 DEF ListedInv

(* The popped waiter is completed and its callback reset.                  *)
LEMMA CompleteTargetListed ==
  ASSUME IndInv, ListedInv, listIntact, NEW p \in Ops, CompleteTarget(p)
  PROVE  ListedInv'
<1> USE DEF Completed
<1> DEFINE q == target[p]
<1> TypeOK /\ TargetInv /\ WaitInv /\ CompletionInv
  BY DEF IndInv, ListedInv
<1>1. /\ pc[p] = "completing"
      /\ callback' = [callback EXCEPT ![q] = "reset"]
      /\ completions' = [completions EXCEPT ![q] = completions[q] + 1]
      /\ pc' = [pc EXCEPT ![p] = "finishing", ![q] = "allocated"]
      /\ UNCHANGED <<freeList, pending, waiting, listIntact>>
      /\ completions[q] = 0
  BY DEF CompleteTarget
<1>2. q \in Ops /\ pc[q] = "handed" /\ p # q
  BY <1>1 DEF TargetInv
<1> HIDE DEF q
<1>3. /\ pc'[p] = "finishing" /\ pc'[q] = "allocated"
      /\ completions'[q] = 1
      /\ \A r \in Ops : r # q => /\ callback'[r] = callback[r]
                                 /\ completions'[r] = completions[r]
      /\ \A r \in Ops : r # p /\ r # q => pc'[r] = pc[r]
  BY <1>1, <1>2 DEF TypeOK
<1>4. WaitInv'
  <2>1. \A c \in Classes : \A o \in Elements(waiting[c]) :
          o \in Ops /\ o # p /\ o # q
    BY <1>1, <1>2, LinkedOps DEF WaitInv
  <2>2. \A c \in Classes : \A o \in Elements(waiting[c]) :
          pc'[o] = pc[o] /\ callback'[o] = callback[o]
    BY <1>3, <2>1
  <2> QED
    BY <1>1, <2>2 DEF WaitInv
<1>5. CompletionInv'
  <2> SUFFICES ASSUME NEW r \in Ops
               PROVE  /\ completions'[r] = IF pc'[r] \in Completed THEN 1 ELSE 0
                      /\ pc'[r] # "dangling"
                      /\ pc'[r] = "handed" => callback'[r] \in {"registered", "running"}
                      /\ pc'[r] = "self_deadlock" => callback'[r] = "running"
                      /\ pc'[r] = "waiting" =>
                           \/ callback'[r] = "erased"
                           \/ /\ callback'[r] \in {"registered", "running"}
                              /\ r \in Elements(waiting[ClassOf[r]])
    BY <1>1 DEF CompletionInv
  <2>1. CASE r = p
    BY <1>1, <1>2, <1>3, <2>1 DEF CompletionInv
  <2>2. CASE r = q
    BY <1>3, <2>2
  <2>3. CASE r # p /\ r # q
    BY <1>3, <2>3 DEF CompletionInv
  <2> QED
    BY <2>1, <2>2, <2>3
<1>6. WaitersLeaveNothingFree'
  BY <1>1, ShorterListsListed
<1> QED
  BY <1>4, <1>5, <1>6 DEF ListedInv

(* A callback begins whose use is linked or was popped.                    *)
LEMMA RequestStopListed ==
  ASSUME IndInv, ListedInv, listIntact, NEW o \in Ops, RequestStop(o)
  PROVE  ListedInv'
<1> TypeOK /\ WaitInv /\ CompletionInv
  BY DEF IndInv, ListedInv
<1>1. /\ \/ callback'[o] = callback[o]
         \/ callback[o] = "registered" /\ callback'[o] = "running"
      /\ \A p \in Ops : p # o => callback'[p] = callback[p]
      /\ UNCHANGED <<freeList, pending, waiting, pc, completions, listIntact>>
  BY DEF RequestStop, TypeOK
<1>2. CompletionInv'
  BY <1>1 DEF CompletionInv
<1>3. WaitInv'
  <2>1. \A c \in Classes : \A p \in Elements(waiting[c]) : callback'[p] # "erased"
    BY <1>1, LinkedOps DEF WaitInv
  <2> QED
    BY <1>1, <2>1 DEF WaitInv
<1>4. WaitersLeaveNothingFree'
  BY <1>1, ShorterListsListed
<1> QED
  BY <1>2, <1>3, <1>4 DEF ListedInv

(* The callback finds its use linked and unlinks it.                       *)
LEMMA StopEraseListed ==
  ASSUME IndInv, ListedInv, listIntact, listIntact', NEW o \in Ops, StopErase(o)
  PROVE  ListedInv'
<1> USE DEF Completed
<1> DEFINE c == ClassOf[o]
           l == erase(pending[c], o)
<1> TypeOK /\ WaitInv /\ CompletionInv
  BY DEF IndInv, ListedInv
<1>1. /\ MutexFree
      /\ callback' = [callback EXCEPT ![o] = "erased"]
      /\ pending' = [pending EXCEPT ![c] = l]
      /\ UNCHANGED <<freeList, pc, completions>>
  BY DEF StopErase
<1>2. PICK k \in 1..Len(waiting[c]) :
        /\ waiting[c][k] = o
        /\ waiting' = [waiting EXCEPT ![c] = Without(waiting[c], k)]
  BY DEF StopErase
<1> DEFINE s == Without(waiting[c], k)
<1>3. /\ c \in Classes /\ Null \notin OfClass(c)
      /\ waiting[c] \in Seq(OfClass(c)) /\ NoDuplicates(waiting[c])
      /\ pending[c] \in IntrusiveLists(OfClass(c))
      /\ Denotes(pending[c], waiting[c])
  BY OfClassMembers DEF TypeOK, WaitInv
<1>4. /\ s \in Seq(OfClass(c))
      /\ Elements(s) = Elements(waiting[c]) \ {o}
      /\ NoDuplicates(s)
  BY <1>2, <1>3, WithoutElements
<1>5. Denotes(l, s)
  BY <1>2, <1>3, EraseDenotes
<1>6. o \in Elements(waiting[c]) /\ waiting[c] # <<>>
  BY <1>2, <1>3 DEF Elements
<1>7. pc[o] = "waiting"
  BY <1>1, <1>3, <1>6 DEF WaitInv, MutexFree
<1>8. /\ callback'[o] = "erased"
      /\ \A p \in Ops : p # o => callback'[p] = callback[p]
  BY <1>1 DEF TypeOK
<1> HIDE DEF l, s
<1>9. /\ pending'[c] = l /\ waiting'[c] = s
      /\ DOMAIN waiting' = Classes
      /\ \A d \in Classes : d # c => /\ pending'[d] = pending[d]
                                     /\ waiting'[d] = waiting[d]
  BY <1>1, <1>2, <1>3 DEF TypeOK, WaitInv, s
<1>10. WaitInv'
  <2> SUFFICES ASSUME NEW d \in Classes
               PROVE  /\ waiting'[d] \in Seq(OfClass(d))
                      /\ NoDuplicates(waiting'[d])
                      /\ Denotes(pending'[d], waiting'[d])
                      /\ \A p \in Elements(waiting'[d]) :
                           /\ pc[p] \in {"waiting", "self_deadlock"}
                           /\ callback'[p] # "erased"
    BY <1>1, <1>9 DEF WaitInv
  <2>1. \A p \in Elements(waiting[d]) : p \in Ops /\ ClassOf[p] = d
    BY LinkedOps
  <2>2. \A p \in Elements(waiting[d]) : p # o =>
          /\ pc[p] \in {"waiting", "self_deadlock"}
          /\ callback'[p] # "erased"
    BY <1>8, <2>1 DEF WaitInv
  <2>3. CASE d = c
    BY <1>4, <1>5, <1>9, <2>2, <2>3
  <2>4. CASE d # c
    BY <1>9, <2>1, <2>2, <2>4 DEF WaitInv
  <2> QED
    BY <2>3, <2>4
<1>11. CompletionInv'
  <2>1. \A d \in Classes : Elements(waiting[d]) \ {o} \subseteq Elements(waiting'[d])
    BY <1>4, <1>9
  <2>2. \A p \in Ops : ClassOf[p] \in Classes
    BY ClassOfType
  <2> SUFFICES ASSUME NEW p \in Ops
               PROVE  /\ completions[p] = IF pc[p] \in Completed THEN 1 ELSE 0
                      /\ pc[p] # "dangling"
                      /\ pc[p] = "handed" => callback'[p] \in {"registered", "running"}
                      /\ pc[p] = "self_deadlock" => callback'[p] = "running"
                      /\ pc[p] = "waiting" =>
                           \/ callback'[p] = "erased"
                           \/ /\ callback'[p] \in {"registered", "running"}
                              /\ p \in Elements(waiting'[ClassOf[p]])
    BY <1>1 DEF CompletionInv
  <2>3. CASE p = o
    BY <1>7, <1>8, <2>3 DEF CompletionInv
  <2>4. CASE p # o
    BY <1>8, <2>1, <2>2, <2>4 DEF CompletionInv
  <2> QED
    BY <2>3, <2>4
<1>12. WaitersLeaveNothingFree'
  BY <1>1, <1>6, <1>9, ShorterListsListed
<1> QED
  BY <1>10, <1>11, <1>12 DEF ListedInv

(* The callback completes the use it unlinked with set_stopped.            *)
LEMMA StopCompleteListed ==
  ASSUME IndInv, ListedInv, listIntact, NEW o \in Ops, StopComplete(o)
  PROVE  ListedInv'
<1> USE DEF Completed
<1> TypeOK /\ CallbackInv /\ WaitInv /\ CompletionInv
  BY DEF IndInv, ListedInv
<1>1. /\ callback[o] = "erased"
      /\ callback' = [callback EXCEPT ![o] = "reset"]
      /\ completions' = [completions EXCEPT ![o] = completions[o] + 1]
      /\ UNCHANGED <<freeList, pending, waiting, listIntact>>
  BY DEF StopComplete
<1>2. pc[o] = "waiting" /\ completions[o] = 0
  BY <1>1 DEF CallbackInv, CompletionInv
<1>3. pc' = [pc EXCEPT ![o] = "stopped"]
  BY <1>2 DEF StopComplete
<1>4. /\ pc'[o] = "stopped" /\ completions'[o] = 1
      /\ \A p \in Ops : p # o => /\ pc'[p] = pc[p]
                                 /\ callback'[p] = callback[p]
                                 /\ completions'[p] = completions[p]
  BY <1>1, <1>2, <1>3 DEF TypeOK
<1>5. WaitInv'
  <2>1. \A c \in Classes : \A p \in Elements(waiting[c]) : p \in Ops /\ p # o
    BY <1>1, LinkedOps DEF WaitInv
  <2>2. \A c \in Classes : \A p \in Elements(waiting[c]) :
          pc'[p] = pc[p] /\ callback'[p] = callback[p]
    BY <1>4, <2>1
  <2> QED
    BY <1>1, <2>2 DEF WaitInv
<1>6. CompletionInv'
  <2> SUFFICES ASSUME NEW r \in Ops
               PROVE  /\ completions'[r] = IF pc'[r] \in Completed THEN 1 ELSE 0
                      /\ pc'[r] # "dangling"
                      /\ pc'[r] = "handed" => callback'[r] \in {"registered", "running"}
                      /\ pc'[r] = "self_deadlock" => callback'[r] = "running"
                      /\ pc'[r] = "waiting" =>
                           \/ callback'[r] = "erased"
                           \/ /\ callback'[r] \in {"registered", "running"}
                              /\ r \in Elements(waiting[ClassOf[r]])
    BY <1>1 DEF CompletionInv
  <2>1. CASE r = o
    BY <1>4, <2>1
  <2>2. CASE r # o
    BY <1>4, <2>2 DEF CompletionInv
  <2> QED
    BY <2>1, <2>2
<1>7. WaitersLeaveNothingFree'
  BY <1>1, ShorterListsListed
<1> QED
  BY <1>5, <1>6, <1>7 DEF ListedInv

(* No thread is left with an operation that is not its own.                *)
LEMMA NothingStale ==
  ASSUME IndInv, ListedInv, listIntact, NEW p \in Ops
  PROVE  ~HandOverStale(p) /\ ~CompleteTargetStale(p)
<1> USE DEF Completed
<1> TypeOK /\ HoldInv /\ TargetInv /\ WaitInv /\ CompletionInv
  BY DEF IndInv, ListedInv
<1>1. ASSUME HandOverStale(p) PROVE FALSE
  <2> DEFINE c == header[held[p]]
             q == pending[c].head
  <2>1. /\ pc[p] \in {"owner", "broken"}
        /\ MutexFree
        /\ q # Null
        /\ pc[q] # "waiting"
    BY <1>1 DEF HandOverStale
  <2>2. c \in Classes
    BY <2>1, ClassOfType DEF HoldInv
  <2>3. waiting[c] # <<>> /\ q = waiting[c][1] /\ waiting[c] \in Seq(OfClass(c))
    BY <2>1, <2>2 DEF WaitInv, Denotes, Linked
  <2>4. q \in Elements(waiting[c])
    BY <2>3 DEF Elements
  <2>5. q \in Ops /\ pc[q] \in {"waiting", "self_deadlock"}
    BY <2>2, <2>4, LinkedOps DEF WaitInv
  <2> QED
    BY <2>1, <2>5 DEF MutexFree
<1>2. ASSUME CompleteTargetStale(p) PROVE FALSE
  <2>1. pc[p] = "completing" /\ completions[target[p]] > 0
    BY <1>2 DEF CompleteTargetStale
  <2>2. target[p] \in Ops /\ pc[target[p]] = "handed"
    BY <2>1 DEF TargetInv
  <2>3. completions[target[p]] = 0
    BY <2>2 DEF CompletionInv
  <2> QED
    BY <2>1, <2>3
<1> QED
  BY <1>1, <1>2

(* Every step keeps it, unless it erases what is not in the list.          *)
LEMMA NextListed ==
  IndInv /\ (listIntact => ListedInv) /\ [Next]_vars => (listIntact => ListedInv)'
<1> SUFFICES ASSUME IndInv, listIntact => ListedInv, [Next]_vars, listIntact'
             PROVE  ListedInv'
  OBVIOUS
<1> USE DEF Completed
<1>0. listIntact
  BY DEF Next, Step, Start, Reclaim, vars, TakeFree, TakeUpstream, Enqueue, Deliver,
         Construct, HandOver, HandOverStale, PutFree, CompleteTarget,
         CompleteTargetStale, Finish, RequestStop, StopErase, StopComplete, Destroy
<1> ListedInv /\ WaitersLeaveNothingFree /\ HoldInv
  BY <1>0 DEF ListedInv, IndInv
<1>1. ASSUME NEW o \in Ops, Start(o) PROVE ListedInv'
  <2>1. CASE TakeFree(o)
    <3>1. WaitersLeaveNothingFree'
      BY <1>0, <2>1, ClassOfType DEF TakeFree, WaitersLeaveNothingFree, IndInv, TypeOK
    <3> QED
      BY <2>1, <3>1, MoveOnListed DEF TakeFree
  <2>2. CASE TakeUpstream(o)
    <3>1. WaitersLeaveNothingFree'
      BY <1>0, <2>2, ShorterListsListed DEF TakeUpstream
    <3> QED
      BY <2>2, <3>1, MoveOnListed DEF TakeUpstream
  <2> QED
    BY <1>1, <2>1, <2>2, EnqueueListed DEF Start
<1>2. ASSUME NEW o \in Ops, Deliver(o) PROVE ListedInv'
  <2>1. WaitersLeaveNothingFree'
    BY <1>0, <1>2, ShorterListsListed DEF Deliver
  <2> QED
    BY <1>2, <2>1, MoveOnListed DEF Deliver
<1>3. ASSUME NEW o \in Ops, Construct(o) PROVE ListedInv'
  <2>1. WaitersLeaveNothingFree'
    BY <1>0, <1>3, ShorterListsListed DEF Construct
  <2> PICK s \in {"owner", "broken"} : pc' = [pc EXCEPT ![o] = s]
    BY <1>3 DEF Construct
  <2> QED
    BY <1>3, <2>1, MoveOnListed DEF Construct
<1>4. ASSUME NEW o \in Ops, Reclaim(o) PROVE ListedInv'
  <2>1. CASE PutFree(o)
    <3> DEFINE c == header[held[o]]
    <3>1. /\ c \in Classes
          /\ freeList' = [freeList EXCEPT ![c] = <<held[o]>> \o freeList[c]]
          /\ pending[c].head = Null
          /\ UNCHANGED <<pending, waiting, listIntact, callback, completions>>
      BY <2>1, ClassOfType DEF PutFree, HoldInv
    <3>2. waiting[c] = <<>>
      <4>1. /\ waiting[c] \in Seq(OfClass(c))
            /\ Denotes(pending[c], waiting[c])
            /\ Null \notin OfClass(c)
        BY <3>1, OfClassMembers DEF ListedInv, WaitInv
      <4>2. waiting[c] # <<>> => waiting[c][1] \in OfClass(c)
        BY <4>1
      <4>3. waiting[c] # <<>> => pending[c].head = waiting[c][1]
        BY <4>1 DEF Denotes, Linked
      <4> QED
        BY <3>1, <4>1, <4>2, <4>3
    <3>3. WaitersLeaveNothingFree'
      BY <1>0, <3>1, <3>2 DEF WaitersLeaveNothingFree, IndInv, TypeOK
    <3> QED
      BY <2>1, <3>1, <3>3, MoveOnListed DEF PutFree
  <2> QED
    BY <1>0, <1>4, <2>1, HandOverListed, NothingStale DEF Reclaim
<1>5. ASSUME NEW o \in Ops, CompleteTarget(o) PROVE ListedInv'
  BY <1>0, <1>5, CompleteTargetListed
<1>6. ASSUME NEW o \in Ops, Finish(o) PROVE ListedInv'
  <2>1. WaitersLeaveNothingFree'
    BY <1>0, <1>6, ShorterListsListed DEF Finish
  <2> QED
    BY <1>6, <2>1, MoveOnListed DEF Finish
<1>7. ASSUME NEW o \in Ops, StopErase(o) \/ StopComplete(o) PROVE ListedInv'
  BY <1>0, <1>7, StopEraseListed, StopCompleteListed
<1>8. ASSUME NEW o \in Ops, RequestStop(o) PROVE ListedInv'
  BY <1>0, <1>8, RequestStopListed
<1>9. CASE Destroy
  <2>1. /\ UNCHANGED <<pending, waiting, pc, callback, completions, listIntact>>
        /\ \A c \in Classes : freeList'[c] = <<>>
    BY <1>9 DEF Destroy
  <2> QED
    BY <2>1 DEF ListedInv, WaitInv, CompletionInv, WaitersLeaveNothingFree
<1>10. CASE UNCHANGED vars
  BY <1>10 DEF vars, ListedInv, WaitInv, CompletionInv, WaitersLeaveNothingFree
<1> QED
  BY <1>0, <1>1, <1>2, <1>3, <1>4, <1>5, <1>6, <1>7, <1>8, <1>9, <1>10, NothingStale
  DEF Next, Step

(* It holds as long as no allocation is erased that is not in the list.    *)
LEMMA ListedInvariant == SafeSpec => [](listIntact => ListedInv)
<1>1. Init => (listIntact => ListedInv)
  BY InitListed
<1> QED
  BY <1>1, NextListed, Invariant, PTL DEF SafeSpec

(* reclaim_memory and start() never leave an allocation waiting while a    *)
(* block of its class lies in the free list, whichever threads allocate,   *)
(* free and stop, until a stop callback erases an allocation that          *)
(* reclaim_memory has popped.                                              *)
THEOREM WaitersLeaveNothingFreeHolds == SafeSpec => []WaitersLeaveNothingFree
<1>1. (listIntact => ListedInv) => WaitersLeaveNothingFree
  BY DEF ListedInv, WaitersLeaveNothingFree
<1> QED
  BY <1>1, ListedInvariant, PTL

(* The receiver of an allocation is completed at most once, by set_value   *)
(* or by set_stopped, only after the operation left the waiting list, and  *)
(* no thread works on it afterwards, wherever a stop request falls: the    *)
(* one thing that must not happen is that a stop callback erases an        *)
(* allocation that reclaim_memory has popped.  Even then the callback runs *)
(* on an operation that is not completed.                                  *)
THEOREM CompletedOnceHolds == SafeSpec => []CompletedOnce
<1>1. IndInv /\ (listIntact => ListedInv) => CompletedOnce
  <2> SUFFICES ASSUME IndInv, listIntact => ListedInv PROVE CompletedOnce
    OBVIOUS
  <2> USE DEF Completed
  <2>1. ASSUME listIntact
        PROVE  /\ \A o \in Ops : completions[o] <= 1 /\ pc[o] # "dangling"
               /\ \A c \in Classes : \A o \in Elements(waiting[c]) : completions[o] = 0
               /\ \A o \in Ops : pc[o] \in {"allocated", "owner", "broken", "done"}
                                   => completions[o] = 1
    <3>1. WaitInv /\ CompletionInv
      BY <2>1 DEF ListedInv
    <3>2. \A c \in Classes : \A o \in Elements(waiting[c]) :
            o \in Ops /\ pc[o] \in {"waiting", "self_deadlock"}
      BY <3>1, LinkedOps DEF WaitInv
    <3>3. \A o \in Ops : completions[o] = IF pc[o] \in Completed THEN 1 ELSE 0
      BY <3>1 DEF CompletionInv
    <3> QED
      BY <3>1, <3>2, <3>3 DEF CompletionInv
  <2>2. \A o \in Ops : callback[o] \in {"running", "erased"} => completions[o] = 0
    BY DEF IndInv, CallbackInv
  <2> QED
    BY <2>1, <2>2 DEF CompletedOnce
<1> QED
  BY <1>1, Invariant, ListedInvariant, PTL

-----------------------------------------------------------------------------
(* The size of a class.                                                    *)

(* A shift by one more doubles the value.                                  *)
LEMMA ShiftedOneDoubles ==
  /\ ShiftedOne[0] = 1
  /\ \A n \in Nat : ShiftedOne[n + 1] = 2 * ShiftedOne[n]
  /\ \A n \in Nat : ShiftedOne[n] \in Nat
<1> DEFINE Body(f) == [n \in Nat |-> IF n = 0 THEN 1 ELSE 2 * f[n - 1]]
           double == [x \in Nat |-> 2 * x]
<1>1. PICK F : IteratesForever(F, Nat, 1, double)
  <2>1. double \in [Nat -> Nat] /\ 1 \in Nat
    OBVIOUS
  <2> HIDE DEF double
  <2> QED
    BY <2>1, RecursionOverNat, Zenon
<1>2. F = Body(F)
  <2>1. ASSUME NEW n \in Nat
        PROVE  F[n] = Body(F)[n]
    <3>1. CASE n = 0
      BY <1>1, <3>1 DEF IteratesForever
    <3>2. CASE n # 0
      <4>1. n - 1 \in Nat /\ (n - 1) + 1 = n
        BY <3>2
      <4>2. F[n] = double[F[n - 1]]
        BY <1>1, <4>1 DEF IteratesForever
      <4> QED
        BY <1>1, <3>2, <4>1, <4>2 DEF IteratesForever
    <3> QED
      BY <3>1, <3>2
  <2> QED
    BY <1>1, <2>1 DEF IteratesForever
<1>3. ShiftedOne = CHOOSE f : f = Body(f)
  BY DEF ShiftedOne
<1>4. ShiftedOne = Body(ShiftedOne)
  <2> HIDE DEF Body
  <2> QED
    BY <1>2, <1>3
<1>5. ShiftedOne[0] = 1
  BY <1>4
<1>6. \A n \in Nat : ShiftedOne[n + 1] = 2 * ShiftedOne[n]
  <2> TAKE n \in Nat
  <2>1. n + 1 \in Nat /\ n + 1 # 0 /\ (n + 1) - 1 = n
    OBVIOUS
  <2>2. ShiftedOne[n + 1] = Body(ShiftedOne)[n + 1]
    BY <1>4
  <2> QED
    BY <2>1, <2>2
<1> DEFINE S == {n \in Nat : ShiftedOne[n] \in Nat}
<1>7. 0 \in S
  BY <1>5
<1>8. \A n \in Nat : n \in S => n + 1 \in S
  BY <1>6
<1>9. Nat \subseteq S
  <2> HIDE DEF S
  <2> QED
    BY <1>7, <1>8, NatSetInduction
<1> QED
  BY <1>5, <1>6, <1>9

(* A shift by more gives at least twice as much.                           *)
LEMMA ShiftedOneGrows ==
  /\ \A n \in Nat : 1 <= ShiftedOne[n]
  /\ \A k, n \in Nat : k < n => ShiftedOne[k + 1] <= ShiftedOne[n]
<1> USE ShiftedOneDoubles
<1> DEFINE S == {n \in Nat : 1 <= ShiftedOne[n]}
<1>1. \A n \in Nat : 1 <= ShiftedOne[n]
  <2>1. 0 \in S
    OBVIOUS
  <2>2. \A n \in Nat : n \in S => n + 1 \in S
    OBVIOUS
  <2>3. Nat \subseteq S
    <3> HIDE DEF S
    <3> QED
      BY <2>1, <2>2, NatSetInduction
  <2> QED
    BY <2>3
<1> DEFINE T == {n \in Nat : \A k \in Nat : k < n => ShiftedOne[k + 1] <= ShiftedOne[n]}
<1>2. 0 \in T
  OBVIOUS
<1>3. ASSUME NEW n \in Nat, n \in T
      PROVE  n + 1 \in T
  <2> SUFFICES ASSUME NEW k \in Nat, k < n + 1
               PROVE  ShiftedOne[k + 1] <= ShiftedOne[n + 1]
    OBVIOUS
  <2>1. ShiftedOne[n] \in Nat /\ ShiftedOne[n + 1] = 2 * ShiftedOne[n]
    OBVIOUS
  <2>2. CASE k = n
    BY <2>1, <2>2
  <2>3. CASE k < n
    <3>1. ShiftedOne[k + 1] <= ShiftedOne[n]
      BY <1>3, <2>3
    <3>2. ShiftedOne[k + 1] \in Nat
      OBVIOUS
    <3> QED
      BY <2>1, <3>1, <3>2
  <2> QED
    BY <2>2, <2>3
<1>4. Nat \subseteq T
  <2> HIDE DEF T
  <2> QED
    BY <1>2, <1>3, NatSetInduction
<1> QED
  BY <1>1, <1>4

(* The highest bit of a number that has one.                               *)
Log2(n) == CHOOSE k \in Nat : ShiftedOne[k] <= n /\ n < ShiftedOne[k + 1]

(* Every number that is not 0 has a highest bit.                           *)
LEMMA Log2Exists ==
  \A n \in Nat \ {0} :
    /\ Log2(n) \in Nat
    /\ ShiftedOne[Log2(n)] <= n
    /\ n < ShiftedOne[Log2(n) + 1]
<1> USE ShiftedOneDoubles
<1> DEFINE Bit(n, k) == ShiftedOne[k] <= n /\ n < ShiftedOne[k + 1]
           S == {n \in Nat : \E k \in Nat : Bit(n + 1, k)}
<1>1. 0 \in S
  <2>1. Bit(0 + 1, 0)
    OBVIOUS
  <2> QED
    BY <2>1
<1>2. ASSUME NEW n \in Nat, n \in S
      PROVE  n + 1 \in S
  <2>1. PICK k \in Nat : Bit(n + 1, k)
    BY <1>2
  <2>2. /\ k + 1 \in Nat
        /\ ShiftedOne[k] \in Nat
        /\ ShiftedOne[k + 1] = 2 * ShiftedOne[k]
        /\ ShiftedOne[(k + 1) + 1] = 2 * ShiftedOne[k + 1]
    OBVIOUS
  <2>3. CASE n + 2 < ShiftedOne[k + 1]
    <3>1. Bit((n + 1) + 1, k)
      BY <2>1, <2>2, <2>3
    <3> QED
      BY <3>1
  <2>4. CASE n + 2 >= ShiftedOne[k + 1]
    <3>1. Bit((n + 1) + 1, k + 1)
      BY <2>1, <2>2, <2>4
    <3> QED
      BY <2>2, <3>1
  <2> QED
    BY <2>2, <2>3, <2>4
<1>3. Nat \subseteq S
  <2> HIDE DEF S
  <2> QED
    BY <1>1, <1>2, NatSetInduction
<1>4. ASSUME NEW n \in Nat \ {0}
      PROVE  Log2(n) \in Nat /\ Bit(n, Log2(n))
  <2>1. n - 1 \in Nat /\ (n - 1) + 1 = n
    OBVIOUS
  <2>2. \E k \in Nat : Bit(n, k)
    BY <1>3, <2>1
  <2>3. Log2(n) = CHOOSE k \in Nat : Bit(n, k)
    BY DEF Log2
  <2> HIDE DEF Bit
  <2> QED
    BY <2>2, <2>3
<1> QED
  BY <1>4

(* A number has only one highest bit.                                      *)
LEMMA Log2Unique ==
  ASSUME NEW n \in Nat, NEW k \in Nat, NEW j \in Nat,
         ShiftedOne[k] <= n, n < ShiftedOne[k + 1],
         ShiftedOne[j] <= n, n < ShiftedOne[j + 1]
  PROVE  k = j
<1>1. /\ ShiftedOne[k] \in Nat /\ ShiftedOne[j] \in Nat
      /\ ShiftedOne[k + 1] \in Nat /\ ShiftedOne[j + 1] \in Nat
  BY ShiftedOneDoubles
<1>2. ~(k < j)
  <2> SUFFICES ASSUME k < j PROVE FALSE
    OBVIOUS
  <2>1. ShiftedOne[k + 1] <= ShiftedOne[j]
    BY ShiftedOneGrows
  <2> QED
    BY <1>1, <2>1
<1>3. ~(j < k)
  <2> SUFFICES ASSUME j < k PROVE FALSE
    OBVIOUS
  <2>1. ShiftedOne[j + 1] <= ShiftedOne[k]
    BY ShiftedOneGrows
  <2> QED
    BY <1>1, <2>1
<1> QED
  BY <1>2, <1>3

(* log2_64 is the position of the highest bit: its power of two is not     *)
(* above the value, and the next one is.                                   *)
LEMMA Log2IsHighestBit ==
  \A n \in Nat : /\ log2_64[n] \in Nat
                 /\ n < ShiftedOne[log2_64[n] + 1]
                 /\ n # 0 => ShiftedOne[log2_64[n]] <= n
<1> DEFINE Body(f) == [n \in Nat |-> IF n < 2 THEN 0 ELSE 1 + f[n \div 2]]
           F == [n \in Nat |-> IF n = 0 THEN 0 ELSE Log2(n)]
<1>1. ShiftedOne[0] = 1 /\ ShiftedOne[1] = 2
  <2>1. 0 \in Nat /\ 0 + 1 = 1
    OBVIOUS
  <2> QED
    BY <2>1, ShiftedOneDoubles
<1>2. ASSUME NEW n \in Nat
      PROVE  F[n] = Body(F)[n]
  <2>1. CASE n = 0
    BY <2>1
  <2>2. CASE n = 1
    <3>1. Log2(1) = 0
      <4>1. 1 \in Nat \ {0} /\ 0 \in Nat /\ 0 + 1 = 1
        OBVIOUS
      <4>2. Log2(1) \in Nat /\ ShiftedOne[Log2(1)] <= 1
            /\ 1 < ShiftedOne[Log2(1) + 1]
        BY <4>1, Log2Exists
      <4> QED
        BY <1>1, <4>1, <4>2, Log2Unique
    <3> QED
      BY <2>2, <3>1
  <2>3. CASE n >= 2
    <3> DEFINE h == n \div 2
               k == Log2(h)
    <3>1. h \in Nat \ {0} /\ 2 * h <= n /\ n < 2 * h + 2
      BY <2>3
    <3> HIDE DEF h
    <3>2. k \in Nat /\ ShiftedOne[k] <= h /\ h < ShiftedOne[k + 1]
      BY <3>1, Log2Exists
    <3> HIDE DEF k
    <3>3. /\ k + 1 \in Nat
          /\ ShiftedOne[k] \in Nat
          /\ ShiftedOne[k + 1] = 2 * ShiftedOne[k]
          /\ ShiftedOne[(k + 1) + 1] = 2 * ShiftedOne[k + 1]
      BY <3>2, ShiftedOneDoubles
    <3>4. ShiftedOne[k + 1] <= n /\ n < ShiftedOne[(k + 1) + 1]
      BY <3>1, <3>2, <3>3
    <3>5. n \in Nat \ {0} /\ n # 0
      BY <2>3
    <3>6. Log2(n) \in Nat /\ ShiftedOne[Log2(n)] <= n
          /\ n < ShiftedOne[Log2(n) + 1]
      BY <3>5, Log2Exists
    <3>7. Log2(n) = k + 1
      BY <3>3, <3>4, <3>6, Log2Unique
    <3>8. F[h] = k
      BY <3>1 DEF k
    <3>9. F[n] = k + 1
      BY <3>5, <3>7
    <3>10. Body(F)[n] = 1 + F[h]
      BY <2>3 DEF h
    <3> QED
      BY <3>2, <3>8, <3>9, <3>10
  <2> QED
    BY <2>1, <2>2, <2>3
<1>3. F = Body(F)
  BY <1>2
<1>4. log2_64 = CHOOSE f : f = Body(f)
  BY DEF log2_64
<1>5. log2_64 = Body(log2_64)
  <2> HIDE DEF Body, F
  <2> QED
    BY <1>3, <1>4
<1>6. \A n \in Nat :
        log2_64[n] = IF n < 2 THEN 0 ELSE 1 + log2_64[n \div 2]
  BY <1>5
<1> HIDE DEF F, Body
<1> DEFINE Good(n) == /\ log2_64[n] \in Nat
                      /\ n < ShiftedOne[log2_64[n] + 1]
                      /\ n # 0 => ShiftedOne[log2_64[n]] <= n
           S == {m \in Nat : \A n \in 0..m : Good(n)}
<1>7. Good(0) /\ Good(1)
  BY <1>1, <1>6
<1>8. 0 \in S
  <2>1. \A n \in 0..0 : n = 0
    OBVIOUS
  <2> HIDE DEF Good
  <2> QED
    BY <1>7, <2>1
<1>9. ASSUME NEW m \in Nat, m \in S
      PROVE  m + 1 \in S
  <2>1. Good(m + 1)
    <3>1. CASE m = 0
      BY <1>7, <3>1
    <3>2. CASE m # 0
      <4> DEFINE h == (m + 1) \div 2
                 k == log2_64[h]
      <4>1. /\ h \in 0..m /\ h \in Nat /\ h # 0
            /\ m + 1 < 2 * h + 2 /\ 2 * h <= m + 1
        BY <3>2
      <4>2. Good(h)
        BY <1>9, <4>1
      <4>3. log2_64[m + 1] = 1 + k
        BY <1>6, <3>2
      <4>4. k \in Nat /\ h < ShiftedOne[k + 1] /\ ShiftedOne[k] <= h
        BY <4>1, <4>2
      <4> HIDE DEF h, k
      <4>5. /\ k + 1 \in Nat
            /\ ShiftedOne[k] \in Nat /\ ShiftedOne[k + 1] \in Nat
            /\ ShiftedOne[k + 1] = 2 * ShiftedOne[k]
            /\ ShiftedOne[(k + 1) + 1] = 2 * ShiftedOne[k + 1]
        BY <4>4, ShiftedOneDoubles
      <4>6. m + 1 < ShiftedOne[(k + 1) + 1] /\ ShiftedOne[k + 1] <= m + 1
        BY <4>1, <4>4, <4>5
      <4>7. log2_64[m + 1] = k + 1
        BY <4>3, <4>4
      <4> QED
        BY <4>5, <4>6, <4>7
    <3> QED
      BY <3>1, <3>2
  <2>2. \A n \in 0..(m + 1) : n \in 0..m \/ n = m + 1
    OBVIOUS
  <2> HIDE DEF Good
  <2> QED
    BY <1>9, <2>1, <2>2
<1>10. Nat \subseteq S
  <2> HIDE DEF S
  <2> QED
    BY <1>8, <1>9, NatSetInduction
<1>11. \A n \in Nat : n \in 0..n
  OBVIOUS
<1> QED
  BY <1>10, <1>11

(* A block is at least as large as the header and the object of the use    *)
(* that holds it, whichever use had it allocated: log2_64 rounds down, the *)
(* block is taken one power of two larger, and a block only goes to a use  *)
(* of its class.  Below the bound of SizeAssumption the shift gives an     *)
(* int.                                                                    *)
THEOREM BlockFitsHolds == SafeSpec => []BlockFits
<1>1. IndInv => BlockFits
  <2> SUFFICES ASSUME IndInv, NEW o \in Ops, held[o] # NoBlock
               PROVE  BlockBytes(header[held[o]]) \in (Size[o] + HeaderSize)..INT_MAX
    BY DEF BlockFits
  <2> DEFINE n == Size[o] + HeaderSize
             k == log2_64[n]
  <2>1. header[held[o]] = k
    BY DEF IndInv, HoldInv, ClassOf
  <2>2. n \in Nat /\ n # 0 /\ 2 * n <= INT_MAX /\ INT_MAX \in Nat
    BY SizeAssumption DEF HeaderSize, INT_MAX
  <2> HIDE DEF n
  <2>3. k \in Nat /\ n < ShiftedOne[k + 1] /\ ShiftedOne[k] <= n
    BY <2>2, Log2IsHighestBit
  <2> HIDE DEF k
  <2>4. /\ ShiftedOne[k] \in Nat /\ ShiftedOne[k + 1] \in Nat
        /\ ShiftedOne[k + 1] = 2 * ShiftedOne[k]
    BY <2>3, ShiftedOneDoubles
  <2>5. BlockBytes(header[held[o]]) \in n..INT_MAX
    <3> HIDE DEF INT_MAX
    <3> QED
      BY <2>1, <2>2, <2>3, <2>4 DEF BlockBytes
  <2> QED
    BY <2>5 DEF n
<1> QED
  BY <1>1, Invariant, PTL
=============================================================================
