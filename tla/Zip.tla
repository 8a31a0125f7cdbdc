--------------------------------- MODULE Zip ---------------------------------
(***************************************************************************)
(* sio::zip (sequence/zip.hpp): N child sequences whose items are put into *)
(* one queue per child.  When every queue has an item, the operation that  *)
(* noticed it pops one item of each and starts the zipped operation, which *)
(* passes the tuple to the receiver; the items complete when it does.      *)
(*                                                                         *)
(* A section under the mutexes is one step, and so is every access to an   *)
(* atomic or to the stop source.  Between these steps any other may occur, *)
(* be it of another thread or of the same one: a zipped operation or a     *)
(* stop callback that completes inline runs other handlers.                *)
(*                                                                         *)
(* A child whose item was stopped produces no further items, and completes *)
(* when all of its items have.  In lock step (~Overlapping) a child starts *)
(* an item when the one before it is done, as iterate and the resources    *)
(* do; merge_each and fork are children whose items overlap.               *)
(*                                                                         *)
(* pc, on: the call of notify_result_completion that the thread of an item *)
(* makes, and the item operation the call is made on.                      *)
(***************************************************************************)
EXTENDS Integers, Sequences, FiniteSets

CONSTANTS
  N,           \* the number of child sequences
  K,           \* how many items each child can produce (a bound)
  Overlapping  \* TRUE: a child may have several items under way

ASSUME BoundAssumption == N \in Nat \ {0} /\ K \in Nat

ASSUME ModeAssumption == Overlapping \in BOOLEAN

Children == 1..N

(* The items: the k-th item of child c is <<c, k>>.                        *)
Items == Children \X (1..K)

ChildOf(i) == i[1]

NoTuple == <<>>

VARIABLES
  nextToStart, \* start() starts the children one after the other
  child,       \* where the completion of each child is
  ending,      \* with what each child completes
  item,        \* where each item operation is
  stopped,     \* the items that were completed with set_stopped
  pc, on,      \* the call of notify_result_completion of each thread
  queue,       \* item_queues_
  n_ready,     \* n_ready_next_items_
  n_pending,   \* n_pending_operations_
  stop,        \* stop_source_ was asked to stop
  outerStop,   \* the receiver's stop token was stopped
  error,       \* errors_ holds an error
  collected,   \* the items whose results a call has collected
  tuple,       \* item_ops_: the items an operation has popped
  zip,         \* where the zipped operation of each item operation is
  pushed,      \* the items of each child in the order of push_back (history)
  late,        \* the items pushed after a stop was requested (history)
  zipped,      \* the tuples given to set_next, in order (history)
  delivered    \* the completions of the receiver, in order

vars == <<nextToStart, child, ending, item, stopped, pc, on, queue, n_ready,
          n_pending, stop, outerStop, error, collected, tuple, zip, pushed,
          late, zipped, delivered>>

ChildStates == {"idle", "running", "stopping", "draining", "last", "done"}

Endings == {"value", "stopped", "error"}

(* again, twice: set_stopped was called once or twice on an item whose     *)
(* results could not be stored.                                            *)
ItemStates == {"idle", "running", "pushing", "queued", "zipped", "drained",
               "draining", "done", "throwing", "again", "twice"}

Completed == {"done", "again", "twice"}

(* null_front, null_next: a null front() was dereferenced.                 *)
PCs == {"none", "push", "notify", "collect", "pop", "test_stop", "count",
        "start", "start_next", "next", "null_front", "null_next"}

ZipStates == {"none", "running", "draining", "releasing", "done"}

Init ==
  /\ nextToStart = 1
  /\ child = [c \in Children |-> "idle"]
  /\ ending = [c \in Children |-> "value"]
  /\ item = [i \in Items |-> "idle"]
  /\ stopped = {}
  /\ pc = [i \in Items |-> "none"]
  /\ on = [i \in Items |-> i]
  /\ queue = [c \in Children |-> <<>>]
  /\ n_ready = 0
  /\ n_pending = N
  /\ stop = FALSE
  /\ outerStop = FALSE
  /\ error = FALSE
  /\ collected = [i \in Items |-> NoTuple]
  /\ tuple = [i \in Items |-> NoTuple]
  /\ zip = [i \in Items |-> "none"]
  /\ pushed = [c \in Children |-> <<>>]
  /\ late = {}
  /\ zipped = <<>>
  /\ delivered = <<>>

AllFronts == \A c \in Children : queue[c] # <<>>

Fronts == [c \in Children |-> Head(queue[c])]

Queued == UNION {{queue[c][n] : n \in 1..Len(queue[c])} : c \in Children}

-----------------------------------------------------------------------------
(* operation::start(): registers the stop callback, which runs at once if  *)
(* the receiver was stopped before, then starts the children in order.     *)
StartNext ==
  /\ nextToStart \in Children
  /\ stop' = (stop \/ outerStop)
  /\ child' = [child EXCEPT ![nextToStart] = "running"]
  /\ nextToStart' = nextToStart + 1
  /\ UNCHANGED <<ending, item, stopped, pc, on, queue, n_ready, n_pending,
                 outerStop, error, collected, tuple, zip, pushed, late,
                 zipped, delivered>>

(* The receiver's stop token is stopped: on_stop_requested asks            *)
(* stop_source_ to stop and leaves the queues alone.                       *)
OuterStop ==
  /\ ~outerStop
  /\ outerStop' = TRUE
  /\ stop' = (stop \/ nextToStart # 1)
  /\ UNCHANGED <<nextToStart, child, ending, item, stopped, pc, on, queue,
                 n_ready, n_pending, error, collected, tuple, zip, pushed,
                 late, zipped, delivered>>

(* The child produces its next item: receiver's set_next, item_sender and  *)
(* item_operation::start().                                                *)
StartItem(i) ==
  /\ child[ChildOf(i)] = "running"
  /\ item[i] = "idle"
  /\ \A j \in Items : ChildOf(j) = ChildOf(i) =>
       /\ j[2] < i[2] => item[j] \in (IF Overlapping THEN ItemStates \ {"idle"}
                                                     ELSE Completed)
       /\ j \notin stopped
  /\ item' = [item EXCEPT ![i] = "running"]
  /\ UNCHANGED <<nextToStart, child, ending, stopped, pc, on, queue, n_ready,
                 n_pending, stop, outerStop, error, collected, tuple, zip,
                 pushed, late, zipped, delivered>>

-----------------------------------------------------------------------------
(* item_receiver::set_value: the result is stored and push_back_item_op    *)
(* asks whether stop was requested.  If so the item is stopped ...         *)
RefuseItem(i) ==
  /\ item[i] = "running"
  /\ stop
  /\ item' = [item EXCEPT ![i] = "done"]
  /\ stopped' = stopped \union {i}
  /\ UNCHANGED <<nextToStart, child, ending, pc, on, queue, n_ready,
                 n_pending, stop, outerStop, error, collected, tuple, zip,
                 pushed, late, zipped, delivered>>

(* ... and if not, it will be pushed.                                      *)
AcceptItem(i) ==
  /\ item[i] = "running"
  /\ ~stop
  /\ item' = [item EXCEPT ![i] = "pushing"]
  /\ pc' = [pc EXCEPT ![i] = "push"]
  /\ UNCHANGED <<nextToStart, child, ending, stopped, on, queue, n_ready,
                 n_pending, stop, outerStop, error, collected, tuple, zip,
                 pushed, late, zipped, delivered>>

(* push_back_item_op, under the mutex of the child's queue.                *)
Push(i) ==
  /\ pc[i] = "push"
  /\ queue' = [queue EXCEPT ![ChildOf(i)] = Append(@, i)]
  /\ pushed' = [pushed EXCEPT ![ChildOf(i)] = Append(@, i)]
  /\ late' = IF stop THEN late \union {i} ELSE late
  /\ item' = [item EXCEPT ![i] = "queued"]
  /\ pc' = [pc EXCEPT ![i] = "notify"]
  /\ UNCHANGED <<nextToStart, child, ending, stopped, on, n_ready, n_pending,
                 stop, outerStop, error, collected, tuple, zip, zipped,
                 delivered>>

(* item_receiver::set_value: storing the result throws.  notify_error up   *)
(* to request_stop(), the drain (DrainByItem) and set_stopped follow, ...  *)
ItemThrows(i) ==
  /\ item[i] = "running"
  /\ error' = TRUE
  /\ stop' = TRUE
  /\ item' = [item EXCEPT ![i] = "throwing"]
  /\ UNCHANGED <<nextToStart, child, ending, stopped, pc, on, queue, n_ready,
                 n_pending, outerStop, collected, tuple, zip, pushed, late,
                 zipped, delivered>>

(* ... and then push_back_item_op refuses the item, which is stopped again.*)
RefuseAgain(i) ==
  /\ item[i] = "again"
  /\ stop
  /\ item' = [item EXCEPT ![i] = "twice"]
  /\ UNCHANGED <<nextToStart, child, ending, stopped, pc, on, queue, n_ready,
                 n_pending, stop, outerStop, error, collected, tuple, zip,
                 pushed, late, zipped, delivered>>

(* item_receiver::set_stopped and set_error: notify_stop or notify_error,  *)
(* up to request_stop().                                                   *)
ItemFails(i) ==
  /\ item[i] = "running"
  /\ error' \in {error, TRUE}
  /\ stop' = TRUE
  /\ item' = [item EXCEPT ![i] = "draining"]
  /\ UNCHANGED <<nextToStart, child, ending, stopped, pc, on, queue, n_ready,
                 n_pending, outerStop, collected, tuple, zip, pushed, late,
                 zipped, delivered>>

-----------------------------------------------------------------------------
(* notify_stop(), under all the mutexes: the queues are emptied.           *)
Drain ==
  /\ n_ready' = 0
  /\ queue' = [c \in Children |-> <<>>]

(* The items that notify_stop() took out of the queues.                    *)
WithDrained == [i \in Items |-> IF i \in Queued THEN "drained" ELSE item[i]]

(* notify_stop() of an item that was stopped or failed, then set_stopped.  *)
DrainByItem(i) ==
  /\ item[i] \in {"draining", "throwing"}
  /\ Drain
  /\ item' = [WithDrained EXCEPT ![i] = IF item[i] = "throwing" THEN "again"
                                                               ELSE "done"]
  /\ stopped' = stopped \union {i}
  /\ UNCHANGED <<nextToStart, child, ending, pc, on, n_pending, stop,
                 outerStop, error, collected, tuple, zip, pushed, late,
                 zipped, delivered>>

(* notify_stop(), after the unlock: the items it took are completed.  The  *)
(* queues are local, so nothing else is touched.                           *)
CompleteDrained(i) ==
  /\ item[i] = "drained"
  /\ item' = [item EXCEPT ![i] = "done"]
  /\ stopped' = IF stop THEN stopped \union {i} ELSE stopped
  /\ UNCHANGED <<nextToStart, child, ending, pc, on, queue, n_ready,
                 n_pending, stop, outerStop, error, collected, tuple, zip,
                 pushed, late, zipped, delivered>>

-----------------------------------------------------------------------------
(* Mutant of Notify: the new value of the counter is compared.             *)
NotifyNewValue(t) ==
  /\ pc[t] = "notify"
  /\ LET q == queue[ChildOf(on[t])]
         atFront == q # <<>> /\ Head(q) = on[t]
     IN /\ n_ready' = IF atFront THEN n_ready + 1 ELSE n_ready
        /\ pc' = [pc EXCEPT ![t] = IF atFront /\ n_ready + 1 = N - 1
                                     THEN "collect" ELSE "none"]
  /\ UNCHANGED <<nextToStart, child, ending, item, stopped, on, queue,
                 n_pending, stop, outerStop, error, collected, tuple, zip,
                 pushed, late, zipped, delivered>>

(* notify_result_completion(), under the mutex of the item's queue: counts *)
(* the item if it is the front of its queue; the one that makes the count  *)
(* complete goes on.                                                       *)
Notify(t) ==
  /\ pc[t] = "notify"
  /\ LET q == queue[ChildOf(on[t])]
         atFront == q # <<>> /\ Head(q) = on[t]
     IN /\ n_ready' = IF atFront THEN n_ready + 1 ELSE n_ready
        /\ pc' = [pc EXCEPT ![t] = IF atFront /\ n_ready = N - 1
                                     THEN "collect" ELSE "none"]
  /\ UNCHANGED <<nextToStart, child, ending, item, stopped, on, queue,
                 n_pending, stop, outerStop, error, collected, tuple, zip,
                 pushed, late, zipped, delivered>>

(* 1. The results of the fronts are moved into one tuple.                  *)
Collect(t) ==
  /\ pc[t] = "collect"
  /\ pc' = [pc EXCEPT ![t] = IF AllFronts THEN "pop" ELSE "null_front"]
  /\ collected' = [collected EXCEPT ![on[t]] = IF AllFronts THEN Fronts ELSE @]
  /\ UNCHANGED <<nextToStart, child, ending, item, stopped, on, queue,
                 n_ready, n_pending, stop, outerStop, error, tuple, zip,
                 pushed, late, zipped, delivered>>

(* Mutant of Pop: front() is called instead of pop_front().                *)
PopKeepsQueues(t) ==
  /\ pc[t] = "pop"
  /\ AllFronts
  /\ tuple' = [tuple EXCEPT ![on[t]] = Fronts]
  /\ item' = [i \in Items |-> IF i = Fronts[ChildOf(i)] THEN "zipped"
                                                        ELSE item[i]]
  /\ n_ready' = -1
  /\ pc' = [pc EXCEPT ![t] = "test_stop"]
  /\ UNCHANGED <<nextToStart, child, ending, stopped, on, queue, n_pending,
                 stop, outerStop, error, collected, zip, pushed, late,
                 zipped, delivered>>

(* 2. The fronts are popped into item_ops_.                                *)
Pop(t) ==
  /\ pc[t] = "pop"
  /\ IF AllFronts
       THEN /\ tuple' = [tuple EXCEPT ![on[t]] = Fronts]
            /\ queue' = [c \in Children |-> Tail(queue[c])]
            /\ item' = [i \in Items |-> IF i = Fronts[ChildOf(i)] THEN "zipped"
                                                                  ELSE item[i]]
            /\ n_ready' = -1
            /\ pc' = [pc EXCEPT ![t] = "test_stop"]
       ELSE /\ pc' = [pc EXCEPT ![t] = "null_front"]
            /\ UNCHANGED <<tuple, queue, item, n_ready>>
  /\ UNCHANGED <<nextToStart, child, ending, stopped, on, n_pending, stop,
                 outerStop, error, collected, zip, pushed, late, zipped,
                 delivered>>

(* 3. If stop was requested the items are completed and the call returns.  *)
TestStop(t) ==
  /\ pc[t] = "test_stop"
  /\ pc' = [pc EXCEPT ![t] = IF stop THEN "none" ELSE "count"]
  /\ zip' = [zip EXCEPT ![on[t]] = IF stop THEN "releasing" ELSE @]
  /\ UNCHANGED <<nextToStart, child, ending, item, stopped, on, queue,
                 n_ready, n_pending, stop, outerStop, error, collected,
                 tuple, pushed, late, zipped, delivered>>

(* Mutant of Count: the count is stored only when every queue has an item. *)
CountOnlyIfAllReady(t) ==
  /\ pc[t] = "count"
  /\ LET count == Cardinality({c \in Children : queue[c] # <<>>})
     IN /\ n_ready' = IF count = N THEN count - 1 ELSE n_ready
        /\ pc' = [pc EXCEPT ![t] = IF count = N THEN "start_next" ELSE "start"]
  /\ UNCHANGED <<nextToStart, child, ending, item, stopped, on, queue,
                 n_pending, stop, outerStop, error, collected, tuple, zip,
                 pushed, late, zipped, delivered>>

(* 4. Counts the queues that have an item again.  If all have one, this    *)
(* call will start the next zipped operation, too.                         *)
Count(t) ==
  /\ pc[t] = "count"
  /\ LET count == Cardinality({c \in Children : queue[c] # <<>>})
     IN /\ n_ready' = IF count = N THEN count - 1 ELSE count
        /\ pc' = [pc EXCEPT ![t] = IF count = N THEN "start_next" ELSE "start"]
  /\ UNCHANGED <<nextToStart, child, ending, item, stopped, on, queue,
                 n_pending, stop, outerStop, error, collected, tuple, zip,
                 pushed, late, zipped, delivered>>

(* 5. Starts the zipped operation with the results that were collected.    *)
StartZipped(t) ==
  /\ pc[t] \in {"start", "start_next"}
  /\ zipped' = Append(zipped, collected[on[t]])
  /\ zip' = [zip EXCEPT ![on[t]] = "running"]
  /\ pc' = [pc EXCEPT ![t] = IF @ = "start_next" THEN "next" ELSE "none"]
  /\ UNCHANGED <<nextToStart, child, ending, item, stopped, on, queue,
                 n_ready, n_pending, stop, outerStop, error, collected,
                 tuple, pushed, late, delivered>>

(* 5. set_next or connect throws: notify_error, then the items complete.   *)
ZippedThrows(t) ==
  /\ pc[t] \in {"start", "start_next"}
  /\ error' = TRUE
  /\ stop' = TRUE
  /\ zip' = [zip EXCEPT ![on[t]] = "draining"]
  /\ pc' = [pc EXCEPT ![t] = "none"]
  /\ UNCHANGED <<nextToStart, child, ending, item, stopped, on, queue,
                 n_ready, n_pending, outerStop, collected, tuple, pushed,
                 late, zipped, delivered>>

(* 6. notify_result_completion() on the front of the own queue.            *)
NotifyNext(t) ==
  /\ pc[t] = "next"
  /\ LET q == queue[ChildOf(on[t])]
     IN /\ pc' = [pc EXCEPT ![t] = IF q = <<>> THEN "null_next" ELSE "notify"]
        /\ on' = [on EXCEPT ![t] = IF q = <<>> THEN @ ELSE Head(q)]
  /\ UNCHANGED <<nextToStart, child, ending, item, stopped, queue, n_ready,
                 n_pending, stop, outerStop, error, collected, tuple, zip,
                 pushed, late, zipped, delivered>>

-----------------------------------------------------------------------------
(* zipped_receiver::set_value.                                             *)
ZippedValue(o) ==
  /\ zip[o] = "running"
  /\ zip' = [zip EXCEPT ![o] = "releasing"]
  /\ UNCHANGED <<nextToStart, child, ending, item, stopped, pc, on, queue,
                 n_ready, n_pending, stop, outerStop, error, collected,
                 tuple, pushed, late, zipped, delivered>>

(* zipped_receiver::set_stopped: notify_stop() up to request_stop().       *)
ZippedStopped(o) ==
  /\ zip[o] = "running"
  /\ stop' = TRUE
  /\ zip' = [zip EXCEPT ![o] = "draining"]
  /\ UNCHANGED <<nextToStart, child, ending, item, stopped, pc, on, queue,
                 n_ready, n_pending, outerStop, error, collected, tuple,
                 pushed, late, zipped, delivered>>

DrainByZipped(o) ==
  /\ zip[o] = "draining"
  /\ Drain
  /\ item' = WithDrained
  /\ zip' = [zip EXCEPT ![o] = "releasing"]
  /\ UNCHANGED <<nextToStart, child, ending, stopped, pc, on, n_pending,
                 stop, outerStop, error, collected, tuple, pushed, late,
                 zipped, delivered>>

(* complete_all_item_ops(): completes the items of the tuple in order of   *)
(* their children; complete() asks each time whether stop was requested.   *)
Release(o) ==
  /\ zip[o] = "releasing"
  /\ \E c \in Children :
       /\ item[tuple[o][c]] = "zipped"
       /\ \A d \in 1..(c - 1) : item[tuple[o][d]] = "done"
       /\ item' = [item EXCEPT ![tuple[o][c]] = "done"]
       /\ stopped' = IF stop THEN stopped \union {tuple[o][c]} ELSE stopped
       /\ zip' = [zip EXCEPT ![o] = IF c = N THEN "done" ELSE @]
  /\ UNCHANGED <<nextToStart, child, ending, pc, on, queue, n_ready,
                 n_pending, stop, outerStop, error, collected, tuple, pushed,
                 late, zipped, delivered>>

-----------------------------------------------------------------------------
(* Mutant of ChildEnds: the child that leaves one other behind completes.  *)
ChildEndsOffByOne(c) ==
  /\ child[c] = "running"
  /\ \A i \in Items : ChildOf(i) = c => item[i] \in Completed \union {"idle"}
  /\ ending' \in {[ending EXCEPT ![c] = e] : e \in Endings}
  /\ n_pending' = n_pending - 1
  /\ child' = [child EXCEPT ![c] = IF n_pending > 2 THEN "stopping" ELSE "last"]
  /\ UNCHANGED <<nextToStart, item, stopped, pc, on, queue, n_ready, stop,
                 outerStop, error, collected, tuple, zip, pushed, late,
                 zipped, delivered>>

(* A child completes when its items have: set_value, set_stopped or        *)
(* set_error, up to n_pending_operations_.fetch_sub(1).                    *)
ChildEnds(c) ==
  /\ child[c] = "running"
  /\ \A i \in Items : ChildOf(i) = c => item[i] \in Completed \union {"idle"}
  /\ ending' \in {[ending EXCEPT ![c] = e] : e \in Endings}
  /\ n_pending' = n_pending - 1
  /\ child' = [child EXCEPT ![c] = IF n_pending > 1 THEN "stopping" ELSE "last"]
  /\ UNCHANGED <<nextToStart, item, stopped, pc, on, queue, n_ready, stop,
                 outerStop, error, collected, tuple, zip, pushed, late,
                 zipped, delivered>>

(* Other children are pending: notify_stop() or notify_error().            *)
ChildRequestStop(c) ==
  /\ child[c] = "stopping"
  /\ error' = (error \/ ending[c] = "error")
  /\ stop' = TRUE
  /\ child' = [child EXCEPT ![c] = "draining"]
  /\ UNCHANGED <<nextToStart, ending, item, stopped, pc, on, queue, n_ready,
                 n_pending, outerStop, collected, tuple, zip, pushed, late,
                 zipped, delivered>>

(* Mutant of DrainByChild: a child that ends leaves the queues alone.      *)
ChildOnlyRequestsStop(c) ==
  /\ child[c] = "draining"
  /\ child' = [child EXCEPT ![c] = "done"]
  /\ UNCHANGED <<nextToStart, ending, item, stopped, pc, on, queue, n_ready,
                 n_pending, stop, outerStop, error, collected, tuple, zip,
                 pushed, late, zipped, delivered>>

DrainByChild(c) ==
  /\ child[c] = "draining"
  /\ Drain
  /\ item' = WithDrained
  /\ child' = [child EXCEPT ![c] = "done"]
  /\ UNCHANGED <<nextToStart, ending, stopped, pc, on, n_pending, stop,
                 outerStop, error, collected, tuple, zip, pushed, late,
                 zipped, delivered>>

(* What the last child's set_value, set_stopped or set_error tells the     *)
(* receiver; set_stopped does not look at errors_.                         *)
Result(c) ==
  CASE ending[c] = "error" -> "error"
    [] ending[c] = "value" ->
         IF outerStop THEN "stopped" ELSE IF error THEN "error" ELSE "value"
    [] ending[c] = "stopped" ->
         IF outerStop \/ ~stop THEN "stopped" ELSE "value"

(* The last child: stop_callback_.reset() and the completion.              *)
Deliver(c) ==
  /\ child[c] = "last"
  /\ delivered' = Append(delivered, Result(c))
  /\ child' = [child EXCEPT ![c] = "done"]
  /\ UNCHANGED <<nextToStart, ending, item, stopped, pc, on, queue, n_ready,
                 n_pending, stop, outerStop, error, collected, tuple, zip,
                 pushed, late, zipped>>

-----------------------------------------------------------------------------
(* What the thread of an item does.                                        *)
ItemStep(i) ==
  \/ RefuseItem(i)
  \/ AcceptItem(i)
  \/ Push(i)
  \/ ItemThrows(i)
  \/ RefuseAgain(i)
  \/ ItemFails(i)
  \/ DrainByItem(i)
  \/ CompleteDrained(i)
  \/ Notify(i)
  \/ Collect(i)
  \/ Pop(i)
  \/ TestStop(i)
  \/ Count(i)
  \/ StartZipped(i)
  \/ ZippedThrows(i)
  \/ NotifyNext(i)

ZippedStep(o) ==
  \/ ZippedValue(o)
  \/ ZippedStopped(o)
  \/ DrainByZipped(o)
  \/ Release(o)

ChildStep(c) ==
  \/ ChildEnds(c)
  \/ ChildRequestStop(c)
  \/ DrainByChild(c)
  \/ Deliver(c)

Terminated ==
  /\ delivered # <<>>
  /\ UNCHANGED vars

Next ==
  \/ StartNext
  \/ OuterStop
  \/ \E i \in Items : StartItem(i)
  \/ \E i \in Items : ItemStep(i)
  \/ \E i \in Items : ZippedStep(i)
  \/ \E c \in Children : ChildStep(c)
  \/ Terminated

SafeSpec == Init /\ [][Next]_vars

(* start() runs to its end, items, zipped operations and children complete *)
(* when they can, and threads keep running.                                *)
Spec ==
  /\ SafeSpec
  /\ WF_vars(StartNext)
  /\ \A i \in Items : WF_vars(ItemStep(i)) /\ WF_vars(ZippedStep(i))
  /\ \A c \in Children : WF_vars(ChildStep(c))

-----------------------------------------------------------------------------
(* Whoever completes the count finds an item in every queue: unless a stop *)
(* was requested since, front() is not null in steps 1 and 2 of            *)
(* notify_result_completion.                                               *)
FrontsPresent == \A i \in Items : pc[i] = "null_front" => stop

(* The m-th tuple that reaches the receiver is made of the m-th items that *)
(* arrived from each child: none is skipped, doubled or paired with an     *)
(* item of another round, and its results are those of the popped items.   *)
TuplesAligned ==
  /\ \A m \in 1..Len(zipped) : \A c \in Children :
       m <= Len(pushed[c]) /\ zipped[m][c] = pushed[c][m]
  /\ \A i \in Items : tuple[i] # NoTuple => tuple[i] = collected[i]

(* An item is in one place: in its queue exactly while it is queued, and   *)
(* in at most one tuple, so that it is completed once.                     *)
ItemInOnePlace ==
  /\ Queued = {i \in Items : item[i] = "queued"}
  /\ \A c \in Children : \A m, n \in 1..Len(queue[c]) :
       queue[c][m] = queue[c][n] => m = n
  /\ \A i, j \in Items : i # j /\ tuple[i] # NoTuple /\ tuple[j] # NoTuple =>
       \A c \in Children : tuple[i][c] # tuple[j][c]

(* The receiver is completed at most once, by the last of the children to  *)
(* decrement n_pending_operations_, when no item is under way.             *)
CompletedByLastChild ==
  /\ Len(delivered) <= 1
  /\ delivered # <<>> =>
       /\ n_pending = 0
       /\ \A c \in Children : child[c] \notin {"idle", "running"}
       /\ \A i \in Items : item[i] \in Completed \union {"idle"}

(* The children whose front item went through notify_result_completion.    *)
Counted == {c \in Children : queue[c] # <<>> /\ pc[Head(queue[c])] # "notify"}

(* The calls that have popped a tuple and not yet counted what is left.    *)
Popping == {t \in Items : pc[t] \in {"test_stop", "count"}}

(* The calls that handle a tuple and have not started its operation.       *)
Handling ==
  {t \in Items : pc[t] \in {"collect", "pop", "test_stop", "count", "start"}}

(* n_ready_next_items_ counts the items that are ready, -1 standing for a  *)
(* tuple just popped, and at most one call handles a tuple: as long as     *)
(* nobody asks to stop.                                                    *)
ReadyIsCounted ==
  ~stop =>
    /\ n_ready = IF Popping # {} THEN -1 ELSE Cardinality(Counted)
    /\ \A s, t \in Handling : s = t

(* step 6 of notify_result_completion finds the item that step 4 counted:  *)
(* "Since there is no other candidate to complete the ready items, we can  *)
(* safely assume that we will be the one to start the next zipped          *)
(* operation, too."                                                        *)
NextFrontPresent == \A i \in Items : pc[i] # "null_next"

(* When items and children complete, so does the zipped sequence.          *)
EventuallyCompletes == <>(delivered # <<>>)

(* The zipped sequence completes, unless an item that was accepted before  *)
(* a stop request and pushed after it stays behind in its queue, or a null *)
(* front() was dereferenced.                                               *)
CompletesOrStrands ==
  \/ <>(delivered # <<>>)
  \/ <>[](\E i \in late : item[i] = "queued")
  \/ <>[](\E i \in Items : pc[i] = "null_front")
=============================================================================
