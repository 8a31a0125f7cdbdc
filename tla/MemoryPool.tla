----------------------------- MODULE MemoryPool -----------------------------
(***************************************************************************)
(* sio::memory_pool and memory_pool_allocator (memory_pool.hpp and .cpp).  *)
(*                                                                         *)
(* A pool keeps, per size class, a list of free blocks and a list of       *)
(* allocations that wait because the upstream resource had no memory left. *)
(* A block that is given back goes to the first waiter of its class, or to *)
(* the free list.  The sections under mutex_ are atomic; what is done      *)
(* after the unlock (completing receivers, resetting stop callbacks) is a  *)
(* step of its own that interleaves with other threads.                    *)
(*                                                                         *)
(* A stop callback erases its operation although reclaim_memory may have   *)
(* popped it meanwhile.  erase goes by the stale links of the operation    *)
(* and can drop waiters from the list or put back one that has left it.    *)
(* What is modelled ends where a thread then works on an operation that is *)
(* another thread's or already completed: it is dangling.                  *)
(*                                                                         *)
(* Each member of Ops is one use of the pool: async_new, then async_delete *)
(* if the constructor did not throw.                                       *)
(***************************************************************************)
EXTENDS Lists, ListLinks

CONSTANTS
  Ops,         \* the uses of the pool
  Blocks,      \* the chunks the upstream resource can give, each once
  NoBlock,     \* the null pointer
  Size,        \* the size each use asks for
  Stoppable    \* the uses whose receiver's stop token can be stopped

ASSUME NullAssumption == Null \notin Ops /\ NoBlock \notin Blocks

ASSUME StopAssumption == Stoppable \subseteq Ops

(* sizeof(memory_block): the next pointer and the class index.             *)
HeaderSize == 16

(* The largest int.                                                        *)
INT_MAX == 2147483647

(* For more bytes than these the int 1 << (index + 1) of start() overflows.*)
ASSUME SizeAssumption ==
  Size \in [Ops -> Nat] /\ \A o \in Ops : 2 * (Size[o] + HeaderSize) <= INT_MAX

(* log2_64: the position of the highest bit that is set.                   *)
log2_64[n \in Nat] == IF n < 2 THEN 0 ELSE 1 + log2_64[n \div 2]

(* Mutant of ClassOf: the header is forgotten.                             *)
ClassOfPayload == [o \in Ops |-> log2_64[Size[o]]]

(* memory_pool::allocate: the class of a request.                          *)
ClassOf == [o \in Ops |-> log2_64[Size[o] + HeaderSize]]

Classes == {ClassOf[o] : o \in Ops}

(* The uses that can be linked in the waiting list of a class.             *)
OfClass(c) == {o \in Ops : ClassOf[o] = c}

(* 1 << n                                                                  *)
ShiftedOne[n \in Nat] == IF n = 0 THEN 1 ELSE 2 * ShiftedOne[n - 1]

(* 1 << (index + 1): the bytes taken from upstream for a block of a class. *)
BlockBytes(c) == ShiftedOne[c + 1]

VARIABLES
  fresh,         \* chunks still at the upstream resource
  leaked,        \* chunks upstream handed out and nobody points to
  returned,      \* chunks given back to upstream by ~memory_pool
  header,        \* memory_block::index of each block
  freeList,      \* block_lists_, per class
  pending,       \* pending_allocation_, per class
  waiting,       \* what is linked in it, as long as listIntact
  pc,            \* where each use is
  held,          \* the block a use was given and has not given back
  target,        \* the waiter that reclaim_memory popped and must complete
  callback,      \* the state of stop_callback_ of each allocation
  stopRequested, \* uses whose stop token was stopped
  completions,   \* how often the receiver of each allocation was completed
  listIntact,    \* no allocation was erased that was not in the list
  destroyed      \* ~memory_pool has run

vars == <<fresh, leaked, returned, header, freeList, pending, waiting, pc, held,
          target, callback, stopRequested, completions, listIntact, destroyed>>

PCs == {"idle", "granted", "waiting", "handed", "allocated", "owner",
        "broken", "completing", "finishing", "done", "stopped",
        "self_deadlock", "dangling"}

CallbackStates == {"none", "registered", "running", "erased", "reset"}

Init ==
  /\ fresh = Blocks
  /\ leaked = {}
  /\ returned = {}
  /\ header = [b \in Blocks |-> 0]
  /\ freeList = [c \in Classes |-> <<>>]
  /\ pending = [c \in Classes |-> EmptyList(OfClass(c))]
  /\ waiting = [c \in Classes |-> <<>>]
  /\ pc = [o \in Ops |-> "idle"]
  /\ held = [o \in Ops |-> NoBlock]
  /\ target = [o \in Ops |-> Null]
  /\ callback = [o \in Ops |-> "none"]
  /\ stopRequested = {}
  /\ completions = [o \in Ops |-> 0]
  /\ listIntact = TRUE
  /\ destroyed = FALSE

(* mutex_ is free between atomic sections unless start() waits for itself. *)
MutexFree == \A o \in Ops : pc[o] # "self_deadlock"

(* No destructor has run and no thread works on what is not its own.       *)
Defined == ~destroyed /\ \A o \in Ops : pc[o] # "dangling"

-----------------------------------------------------------------------------
(* Mutant of TakeFree: the head of the list is not advanced.               *)
TakeFreeWithoutPop(o) ==
  /\ pc[o] = "idle"
  /\ MutexFree
  /\ freeList[ClassOf[o]] # <<>>
  /\ held' = [held EXCEPT ![o] = Head(freeList[ClassOf[o]])]
  /\ pc' = [pc EXCEPT ![o] = "granted"]
  /\ UNCHANGED <<fresh, leaked, returned, header, freeList, pending, waiting, target,
                 callback, stopRequested, completions, listIntact, destroyed>>

(* allocate_operation::start(): the head of the free list.                 *)
TakeFree(o) ==
  /\ pc[o] = "idle"
  /\ MutexFree
  /\ LET c == ClassOf[o] IN
       /\ freeList[c] # <<>>
       /\ held' = [held EXCEPT ![o] = Head(freeList[c])]
       /\ freeList' = [freeList EXCEPT ![c] = Tail(@)]
  /\ pc' = [pc EXCEPT ![o] = "granted"]
  /\ UNCHANGED <<fresh, leaked, returned, header, pending, waiting, target, callback,
                 stopRequested, completions, listIntact, destroyed>>

(* The chunk that upstream hands out: any will do, they are all alike.     *)
NextChunk(chunks) == CHOOSE b \in chunks : TRUE

(* allocate_operation::start(): a new block.  memory_resource::allocate    *)
(* calls do_allocate twice and returns the second chunk.                   *)
TakeUpstream(o) ==
  /\ pc[o] = "idle"
  /\ MutexFree
  /\ freeList[ClassOf[o]] = <<>>
  /\ \E first \in fresh : \E b \in fresh \ {first} :
       /\ first = NextChunk(fresh)
       /\ b = NextChunk(fresh \ {first})
       /\ leaked' = leaked \union {first}
       /\ fresh' = fresh \ {first, b}
       /\ header' = [header EXCEPT ![b] = ClassOf[o]]
       /\ held' = [held EXCEPT ![o] = b]
  /\ pc' = [pc EXCEPT ![o] = "granted"]
  /\ UNCHANGED <<returned, freeList, pending, waiting, target, callback,
                 stopRequested, completions, listIntact, destroyed>>

(* allocate_operation::start(): one of the two do_allocate calls fails,    *)
(* the operation is queued and its stop callback registered.  If stop was  *)
(* requested before, the callback runs inside emplace, on this thread, and *)
(* waits for the mutex this thread holds.                                  *)
Enqueue(o) ==
  /\ pc[o] = "idle"
  /\ MutexFree
  /\ LET c == ClassOf[o] IN
       /\ freeList[c] = <<>>
       /\ pending' = [pending EXCEPT ![c] = push_back(@, o)]
       /\ waiting' = [waiting EXCEPT ![c] = Append(@, o)]
  /\ \A a, b \in fresh : a = b
  /\ leaked' = leaked \union fresh
  /\ fresh' = {}
  /\ pc' = [pc EXCEPT ![o] = IF o \in stopRequested THEN "self_deadlock"
                                                    ELSE "waiting"]
  /\ callback' = [callback EXCEPT ![o] = IF o \in stopRequested
                                           THEN "running" ELSE "registered"]
  /\ UNCHANGED <<returned, header, freeList, held, target, stopRequested,
                 completions, listIntact, destroyed>>

(* The end of allocate_operation::start(), after the unlock: set_value.    *)
Deliver(o) ==
  /\ pc[o] = "granted"
  /\ completions' = [completions EXCEPT ![o] = @ + 1]
  /\ pc' = [pc EXCEPT ![o] = "allocated"]
  /\ UNCHANGED <<fresh, leaked, returned, header, freeList, pending, waiting, held,
                 target, callback, stopRequested, listIntact, destroyed>>

(* memory_pool_allocator::async_new: the constructor returns or throws, in *)
(* which case let_error gives the block back before the error is passed on.*)
Construct(o) ==
  /\ pc[o] = "allocated"
  /\ \E outcome \in {"owner", "broken"} : pc' = [pc EXCEPT ![o] = outcome]
  /\ UNCHANGED <<fresh, leaked, returned, header, freeList, pending, waiting, held,
                 target, callback, stopRequested, completions, listIntact,
                 destroyed>>

(* deallocate_operation::start() for async_delete or for a constructor     *)
(* that threw: reclaim_memory pops a waiter of the block's class...        *)
HandOver(p) ==
  /\ pc[p] \in {"owner", "broken"}
  /\ MutexFree
  /\ LET c == header[held[p]]
         q == pending[c].head
     IN /\ q # Null
        /\ pc[q] = "waiting"
        /\ pending' = [pending EXCEPT ![c] = pop_front(@)]
        /\ waiting' = [waiting EXCEPT ![c] = IF listIntact THEN Tail(@) ELSE @]
        /\ held' = [held EXCEPT ![p] = NoBlock, ![q] = held[p]]
        /\ target' = [target EXCEPT ![p] = q]
        /\ pc' = [pc EXCEPT ![p] = "completing", ![q] = "handed"]
  /\ UNCHANGED <<fresh, leaked, returned, header, freeList, callback,
                 stopRequested, completions, listIntact, destroyed>>

(* ... or one that does not wait any more, which an erase has put back.    *)
HandOverStale(p) ==
  /\ pc[p] \in {"owner", "broken"}
  /\ MutexFree
  /\ LET q == pending[header[held[p]]].head IN q # Null /\ pc[q] # "waiting"
  /\ pc' = [pc EXCEPT ![p] = "dangling"]
  /\ UNCHANGED <<fresh, leaked, returned, header, freeList, pending, waiting, held,
                 target, callback, stopRequested, completions, listIntact,
                 destroyed>>

(* Mutant of PutFree: the free list is preferred to the waiters.           *)
PutFreeFirst(p) ==
  /\ pc[p] \in {"owner", "broken"}
  /\ MutexFree
  /\ freeList' = [freeList EXCEPT ![header[held[p]]] = <<held[p]>> \o @]
  /\ held' = [held EXCEPT ![p] = NoBlock]
  /\ pc' = [pc EXCEPT ![p] = "finishing"]
  /\ UNCHANGED <<fresh, leaked, returned, header, pending, waiting, target, callback,
                 stopRequested, completions, listIntact, destroyed>>

(* ... or puts the block on the free list.                                 *)
PutFree(p) ==
  /\ pc[p] \in {"owner", "broken"}
  /\ MutexFree
  /\ LET c == header[held[p]] IN
       /\ pending[c].head = Null
       /\ freeList' = [freeList EXCEPT ![c] = <<held[p]>> \o @]
  /\ held' = [held EXCEPT ![p] = NoBlock]
  /\ pc' = [pc EXCEPT ![p] = "finishing"]
  /\ UNCHANGED <<fresh, leaked, returned, header, pending, waiting, target, callback,
                 stopRequested, completions, listIntact, destroyed>>

(* op->complete_(op), after the unlock: stop_callback_.reset() waits for a *)
(* callback that runs on another thread, then set_value...                 *)
CompleteTarget(p) ==
  /\ pc[p] = "completing"
  /\ LET q == target[p] IN
       /\ callback[q] \notin {"running", "erased"}
       /\ completions[q] = 0
       /\ callback' = [callback EXCEPT ![q] = "reset"]
       /\ completions' = [completions EXCEPT ![q] = @ + 1]
       /\ pc' = [pc EXCEPT ![p] = "finishing", ![q] = "allocated"]
  /\ target' = [target EXCEPT ![p] = Null]
  /\ UNCHANGED <<fresh, leaked, returned, header, freeList, pending, waiting, held,
                 stopRequested, listIntact, destroyed>>

(* ... of an operation that its stop callback has completed.               *)
CompleteTargetStale(p) ==
  /\ pc[p] = "completing"
  /\ completions[target[p]] > 0
  /\ pc' = [pc EXCEPT ![p] = "dangling"]
  /\ UNCHANGED <<fresh, leaked, returned, header, freeList, pending, waiting, held,
                 target, callback, stopRequested, completions, listIntact,
                 destroyed>>

(* The end of deallocate_operation::start(): set_value, which finishes     *)
(* async_delete or lets async_new complete with the constructor's error.   *)
Finish(p) ==
  /\ pc[p] = "finishing"
  /\ pc' = [pc EXCEPT ![p] = "done"]
  /\ UNCHANGED <<fresh, leaked, returned, header, freeList, pending, waiting, held,
                 target, callback, stopRequested, completions, listIntact,
                 destroyed>>

-----------------------------------------------------------------------------
(* Someone requests stop: a registered callback begins on that thread.     *)
RequestStop(o) ==
  /\ o \in Stoppable \ stopRequested
  /\ stopRequested' = stopRequested \union {o}
  /\ callback' = [callback EXCEPT ![o] = IF @ = "registered" THEN "running"
                                                             ELSE @]
  /\ UNCHANGED <<fresh, leaked, returned, header, freeList, pending, waiting, pc, held,
                 target, completions, listIntact, destroyed>>

(* Mutant of StopErase: the operation stays in the list.                   *)
StopWithoutErase(o) ==
  /\ callback[o] = "running"
  /\ MutexFree
  /\ callback' = [callback EXCEPT ![o] = "erased"]
  /\ UNCHANGED <<fresh, leaked, returned, header, freeList, pending, waiting, pc, held,
                 target, stopRequested, completions, listIntact, destroyed>>

(* on_receiver_stop: the operation is erased from the list under the       *)
(* mutex, whether it is linked or was popped meanwhile.                    *)
StopErase(o) ==
  /\ callback[o] = "running"
  /\ MutexFree
  /\ LET c == ClassOf[o] IN
       /\ pending' = [pending EXCEPT ![c] = erase(@, o)]
       /\ \/ \E i \in 1..Len(waiting[c]) :
               /\ waiting[c][i] = o
               /\ waiting' = [waiting EXCEPT ![c] = Without(@, i)]
               /\ UNCHANGED listIntact
          \/ /\ o \notin Elements(waiting[c])
             /\ listIntact' = FALSE
             /\ UNCHANGED waiting
  /\ callback' = [callback EXCEPT ![o] = "erased"]
  /\ UNCHANGED <<fresh, leaked, returned, header, freeList, pc, held, target,
                 stopRequested, completions, destroyed>>

(* on_receiver_stop, after the unlock: stop_callback_.reset(), set_stopped.*)
StopComplete(o) ==
  /\ callback[o] = "erased"
  /\ callback' = [callback EXCEPT ![o] = "reset"]
  /\ completions' = [completions EXCEPT ![o] = @ + 1]
  /\ pc' = [pc EXCEPT ![o] = IF @ = "waiting" THEN "stopped" ELSE @]
  /\ UNCHANGED <<fresh, leaked, returned, header, freeList, pending, waiting, held,
                 target, stopRequested, listIntact, destroyed>>

(* ~memory_pool, once every use is over: the free lists go back upstream.  *)
Destroy ==
  /\ \A o \in Ops : pc[o] \in {"idle", "done", "stopped"}
  /\ returned' = returned \union UNION {Elements(freeList[c]) : c \in Classes}
  /\ freeList' = [c \in Classes |-> <<>>]
  /\ destroyed' = TRUE
  /\ UNCHANGED <<fresh, leaked, header, pending, waiting, pc, held, target, callback,
                 stopRequested, completions, listIntact>>

-----------------------------------------------------------------------------
Start(o) == Defined /\ (TakeFree(o) \/ TakeUpstream(o) \/ Enqueue(o))

Reclaim(p) == HandOver(p) \/ HandOverStale(p) \/ PutFree(p)

(* What a thread does once a use has started.                              *)
Step(o) ==
  /\ Defined
  /\ \/ Deliver(o)
     \/ Construct(o)
     \/ Reclaim(o)
     \/ CompleteTarget(o) \/ CompleteTargetStale(o)
     \/ Finish(o)
     \/ StopErase(o)
     \/ StopComplete(o)

Next ==
  \/ \E o \in Ops : Start(o)
  \/ \E o \in Ops : Step(o)
  \/ Defined /\ (Destroy \/ \E o \in Ops : RequestStop(o))

SafeSpec == Init /\ [][Next]_vars

(* Threads keep running and owners give their blocks back.                 *)
Spec == SafeSpec /\ \A o \in Ops : WF_vars(Step(o))

-----------------------------------------------------------------------------
(* The places a block can be found in.                                     *)
HeldBlocks == {held[o] : o \in Ops} \ {NoBlock}

FreeBlocks == UNION {Elements(freeList[c]) : c \in Classes}

(* No block is lost and none is in two places: not handed to two users,    *)
(* not free while somebody uses it, not twice in a free list.              *)
BlockInOnePlace ==
  /\ fresh \union leaked \union returned \union FreeBlocks \union HeldBlocks
       = Blocks
  /\ \A o, p \in Ops : held[o] = held[p] /\ held[o] # NoBlock => o = p
  /\ \A c, d \in Classes : c # d =>
       Elements(freeList[c]) \intersect Elements(freeList[d]) = {}
  /\ \A c \in Classes : NoDuplicates(freeList[c])
  /\ FreeBlocks \intersect HeldBlocks = {}
  /\ (fresh \union leaked \union returned)
       \intersect (FreeBlocks \union HeldBlocks) = {}
  /\ fresh \intersect leaked = {}
  /\ (fresh \union leaked) \intersect returned = {}

(* An allocation never waits while a block of its class lies unused: a     *)
(* block that comes back goes to a waiter before it goes to the free list. *)
(* It is so until an allocation is erased that is not in the list.         *)
WaitersLeaveNothingFree ==
  listIntact => \A c \in Classes : waiting[c] # <<>> => freeList[c] = <<>>

(* At most one of set_value and set_stopped reaches the receiver of an     *)
(* allocation, none while the operation is linked, and nobody works on an  *)
(* operation after it, until one is erased that is not in the list.  In    *)
(* any case a stop callback runs on an operation that is not completed.    *)
CompletedOnce ==
  /\ listIntact =>
       /\ \A o \in Ops : completions[o] <= 1 /\ pc[o] # "dangling"
       /\ \A c \in Classes : \A o \in Elements(waiting[c]) : completions[o] = 0
       /\ \A o \in Ops : pc[o] \in {"allocated", "owner", "broken", "done"}
                           => completions[o] = 1
  /\ \A o \in Ops : callback[o] \in {"running", "erased"} => completions[o] = 0

(* The block a use gets is large enough for the header and the object,     *)
(* also when the block served a different request before, and its size is  *)
(* an int.                                                                 *)
BlockFits ==
  \A o \in Ops : held[o] # NoBlock =>
    BlockBytes(header[held[o]]) \in (Size[o] + HeaderSize)..INT_MAX

(* Blocks of a class that are being used and will come back.               *)
InCirculation(c) == {o \in Ops : held[o] # NoBlock /\ header[held[o]] = c}

(* A waiter whose class has a block in circulation does not wait forever,  *)
(* unless an allocation is erased that is not in the list or start() waits *)
(* for the mutex it holds.                                                 *)
WaiterIsServed ==
  \A o \in Ops :
    pc[o] = "waiting" /\ InCirculation(ClassOf[o]) # {}
      ~> pc[o] # "waiting" \/ ~listIntact \/ ~MutexFree

-----------------------------------------------------------------------------
(* The inductive invariant behind BlockInOnePlace and BlockFits, which     *)
(* holds whatever the waiting lists have become.                           *)
TypeOK ==
  /\ fresh \subseteq Blocks
  /\ leaked \subseteq Blocks
  /\ returned \subseteq Blocks
  /\ header \in [Blocks -> Classes \union {0}]
  /\ freeList \in [Classes -> Seq(Blocks)]
  /\ DOMAIN pending = Classes
  /\ \A c \in Classes : pending[c] \in IntrusiveLists(OfClass(c))
  /\ pc \in [Ops -> PCs]
  /\ held \in [Ops -> Blocks \union {NoBlock}]
  /\ target \in [Ops -> Ops \union {Null}]
  /\ callback \in [Ops -> CallbackStates]
  /\ completions \in [Ops -> Nat]

(* A use has a block from the moment it is granted one until it gives it   *)
(* back, and the block is of the class it asked for.                       *)
HoldInv ==
  \A o \in Ops :
    /\ pc[o] # "dangling" =>
         (held[o] # NoBlock <=>
            pc[o] \in {"granted", "handed", "allocated", "owner", "broken"})
    /\ held[o] # NoBlock => header[held[o]] = ClassOf[o]

(* The free blocks of a class are of this class.                           *)
FreeInv == \A c \in Classes : \A b \in Elements(freeList[c]) : header[b] = c

(* Whoever must complete a waiter is the only one to do so.                *)
TargetInv ==
  /\ \A p \in Ops : pc[p] = "completing" =>
       target[p] \in Ops /\ pc[target[p]] = "handed"
  /\ \A p, q \in Ops : pc[p] = "completing" /\ pc[q] = "completing"
                           /\ target[p] = target[q] => p = q

(* A stop callback belongs to an allocation that had to wait and is not    *)
(* completed.                                                              *)
CallbackInv ==
  \A o \in Ops :
    /\ pc[o] \in {"idle", "granted"} => callback[o] = "none" /\ completions[o] = 0
    /\ callback[o] \in {"registered", "running", "erased"} =>
         pc[o] \in {"waiting", "handed", "self_deadlock"} /\ completions[o] = 0

IndInv ==
  TypeOK /\ HoldInv /\ FreeInv /\ TargetInv /\ BlockInOnePlace /\ CallbackInv

(* What more is true as long as listIntact: the links of a waiting list    *)
(* are those of the allocations in it, each of them linked once, until it  *)
(* is erased...                                                            *)
WaitInv ==
  /\ DOMAIN waiting = Classes
  /\ \A c \in Classes :
       /\ waiting[c] \in Seq(OfClass(c))
       /\ NoDuplicates(waiting[c])
       /\ Denotes(pending[c], waiting[c])
       /\ \A o \in Elements(waiting[c]) :
            /\ pc[o] \in {"waiting", "self_deadlock"}
            /\ callback[o] # "erased"

(* The uses whose receiver was completed.                                  *)
Completed == {"allocated", "owner", "broken", "completing", "finishing",
              "done", "stopped"}

(* ... and an allocation is completed once, by the callback that unlinked  *)
(* it or by the use that popped it.                                        *)
CompletionInv ==
  \A o \in Ops :
    /\ completions[o] = IF pc[o] \in Completed THEN 1 ELSE 0
    /\ pc[o] # "dangling"
    /\ pc[o] = "handed" => callback[o] \in {"registered", "running"}
    /\ pc[o] = "self_deadlock" => callback[o] = "running"
    /\ pc[o] = "waiting" =>
         \/ callback[o] = "erased"
         \/ /\ callback[o] \in {"registered", "running"}
            /\ o \in Elements(waiting[ClassOf[o]])

ListedInv == WaitInv /\ WaitersLeaveNothingFree /\ CompletionInv
=============================================================================
