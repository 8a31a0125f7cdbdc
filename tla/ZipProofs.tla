------------------------------- MODULE ZipProofs -------------------------------
(***************************************************************************)
(* Proofs about Zip for any number of children and items, with handlers    *)
(* that interleave in any way: first what holds for all children, then     *)
(* what holds when each child has one item under way at a time.            *)
(***************************************************************************)
EXTENDS Zip, ListLemmas, FiniteSetTheorems

(* A tuple has one item of each child.                                     *)
Tuples == [Children -> Items]

TypeOK ==
  /\ nextToStart \in 1..(N + 1)
  /\ child \in [Children -> ChildStates]
  /\ ending \in [Children -> Endings]
  /\ item \in [Items -> ItemStates]
  /\ pc \in [Items -> PCs]
  /\ on \in [Items -> Items]
  /\ queue \in [Children -> Seq(Items)]
  /\ n_ready \in Int
  /\ n_pending \in Int
  /\ collected \in [Items -> Tuples \union {NoTuple}]
  /\ tuple \in [Items -> Tuples \union {NoTuple}]
  /\ zip \in [Items -> ZipStates]
  /\ pushed \in [Children -> Seq(Items)]
  /\ zipped \in Seq(Tuples \union {NoTuple})
  /\ delivered \in Seq(Endings)

(* The queue of a child holds its items that are queued, each once; what   *)
(* was popped into a tuple is in no queue and in no other tuple.           *)
PlaceInv ==
  /\ \A c \in Children :
       /\ Elements(queue[c]) = {i \in Items : ChildOf(i) = c /\ item[i] = "queued"}
       /\ NoDuplicates(queue[c])
  /\ \A i \in Items : pc[i] = "push" => item[i] = "pushing"
  /\ \A i \in Items : tuple[i] # NoTuple =>
       \A c \in Children : item[tuple[i][c]] \in {"zipped", "done"}
  /\ \A i, j \in Items : i # j /\ tuple[i] # NoTuple /\ tuple[j] # NoTuple =>
       \A c \in Children : tuple[i][c] # tuple[j][c]

(* The children that have not completed yet.                               *)
Pending == {c \in Children : child[c] \in {"idle", "running"}}

(* n_pending_operations_ counts the children, the one that takes it to     *)
(* zero is the last, and a child that was counted has no item under way.   *)
CompletionInv ==
  /\ \A c \in Children : c >= nextToStart => child[c] = "idle"
  /\ n_pending = Cardinality(Pending)
  /\ \A c \in Children : child[c] = "last" =>
       n_pending = 0 /\ delivered = <<>> /\ \A d \in Children \ {c} : child[d] # "last"
  /\ Len(delivered) <= 1
  /\ delivered # <<>> => n_pending = 0 /\ \A c \in Children : child[c] # "last"
  /\ \A i \in Items : child[ChildOf(i)] \notin {"idle", "running"} =>
       item[i] \in Completed \union {"idle"}

(* j comes before i in the sequence of their child.                        *)
Earlier(j, i) == ChildOf(j) = ChildOf(i) /\ j[2] < i[2]

(* A child that produces no more items: one was stopped or will be.        *)
Dead(c) ==
  \E i \in Items : ChildOf(i) = c /\ (item[i] = "drained" \/ i \in stopped)

(* A child has one item under way at a time, and none when one of its      *)
(* items was stopped.                                                      *)
OrderInv ==
  /\ \A i, j \in Items :
       Earlier(j, i) /\ item[i] # "idle" => item[j] \in Completed
  /\ \A i, j \in Items : i \in stopped /\ ChildOf(j) = ChildOf(i) =>
       item[j] \in Completed \union {"idle"}

(* What happens only after a stop request.                                 *)
StopInv ==
  ~stop =>
    /\ stopped = {}
    /\ \A i \in Items :
         /\ item[i] \notin {"drained", "draining", "throwing", "again", "twice"}
         /\ zip[i] # "draining"
    /\ \A c \in Children : child[c] # "draining"

(* The thread of an item makes its call on the item itself, and item_ops_  *)
(* and the zipped operation come with the call.                            *)
CallInv ==
  \A i \in Items :
    /\ on[i] = i
    /\ item[i] \in {"idle", "running"} => pc[i] = "none" /\ tuple[i] = NoTuple
    /\ item[i] = "pushing" => pc[i] = "push"
    /\ pc[i] \in {"push", "notify", "collect", "pop"} => tuple[i] = NoTuple
    /\ item[i] \in {"idle", "running"} \/ pc[i] # "none" => zip[i] = "none"
    /\ zip[i] # "none" => tuple[i] # NoTuple
    /\ pc[i] \notin {"start_next", "next", "null_next"}

(* The row of the m-th items.                                              *)
Row(m) == [c \in Children |-> <<c, m>>]

(* The items of a child are pushed in their order, and the tuples are      *)
(* rows, each with the results that were collected for it.                 *)
RowsInv ==
  /\ \A m \in 1..Len(zipped) : zipped[m] = Row(m)
  /\ \A c \in Children :
       /\ Len(pushed[c]) \in {Len(zipped), Len(zipped) + 1}
       /\ \A m \in 1..Len(pushed[c]) : pushed[c][m] = <<c, m>>
  /\ \A i \in Items : tuple[i] # NoTuple =>
       tuple[i] = collected[i] /\ \E m \in 1..K : tuple[i] = Row(m)

(* The item that its child will push next.                                 *)
Coming(i) ==
  /\ ~Dead(ChildOf(i))
  /\ item[i] \in {"idle", "running", "pushing"}
  /\ \A j \in Items : Earlier(j, i) => item[j] \in Completed

(* A call that handles the tuple z + 1 after its items were popped.        *)
HandlesRow(t, z) ==
  /\ tuple[t] = Row(z + 1)
  /\ \A c \in Children : item[tuple[t][c]] = "zipped" /\ Len(pushed[c]) = z + 1

(* The zipped operation of the tuple z, some of whose items are still to   *)
(* complete.                                                               *)
ZipsRow(o, z) ==
  /\ tuple[o] = Row(z)
  /\ item[tuple[o][N]] = "zipped"
  /\ \A c \in Children : item[tuple[o][c]] = "zipped" => Len(pushed[c]) = z

(* Which row an item belongs to follows from where it is, when z tuples    *)
(* were given to the receiver.                                             *)
PlacedInv(z) ==
  \A i \in Items :
    /\ Coming(i) => i[2] = z + 1 /\ Len(pushed[ChildOf(i)]) = z
    /\ item[i] = "queued" => i[2] = z + 1 /\ Len(pushed[ChildOf(i)]) = z + 1
    /\ pc[i] = "pop" => collected[i] = Row(z + 1)
    /\ pc[i] \in {"test_stop", "count", "start"} => HandlesRow(i, z)
    /\ ~stop /\ zip[i] \in {"running", "releasing"} => ZipsRow(i, z)

(* One call handles a tuple.  Until it has popped the items, each child    *)
(* has a front that was counted or has none any more.                      *)
HandInv ==
  /\ \A s, t \in Handling : s = t
  /\ \A t \in Items : pc[t] \in {"collect", "pop"} =>
       \A c \in Children : Dead(c) \/ c \in Counted
  /\ \A t \in Items : pc[t] = "null_front" => stop

(* The counter, of which a stop request leaves an upper bound.             *)
CountInv ==
  /\ n_ready <= Cardinality(Counted)
  /\ ~stop =>
       /\ \A t \in Items : pc[t] = "notify" => item[t] = "queued"
       /\ n_ready = IF Popping # {} THEN -1 ELSE Cardinality(Counted)

LockInv ==
  /\ OrderInv
  /\ StopInv
  /\ CallInv
  /\ RowsInv
  /\ PlacedInv(Len(zipped))
  /\ HandInv
  /\ CountInv

IndInv == TypeOK /\ PlaceInv /\ CompletionInv /\ (~Overlapping => LockInv)

-----------------------------------------------------------------------------
(* Every item belongs to a child.                                          *)
LEMMA ItemChild == \A i \in Items : ChildOf(i) \in Children
BY DEF Items, ChildOf

(* The fronts of the queues, when no queue is empty.                       *)
LEMMA FrontsTyped ==
  ASSUME TypeOK, AllFronts
  PROVE  /\ Fronts \in Tuples
         /\ Fronts # NoTuple
         /\ \A c \in Children : Fronts[c] = Head(queue[c])
<1>1. \A c \in Children : Head(queue[c]) \in Items
  BY DEF TypeOK, AllFronts
<1>2. Fronts \in Tuples
  BY <1>1 DEF Fronts, Tuples
<1>3. Children # {}
  BY BoundAssumption DEF Children
<1>4. DOMAIN Fronts = Children /\ DOMAIN NoTuple = {}
  BY DEF Fronts, NoTuple
<1> QED
  BY <1>2, <1>3, <1>4 DEF Fronts

(* No tuple is the empty one.                                              *)
LEMMA TupleIsNotEmpty == NoTuple \notin Tuples
<1>1. Children # {}
  BY BoundAssumption DEF Children
<1> QED
  BY <1>1 DEF Tuples, NoTuple

(* What is in a tuple is an item.                                          *)
LEMMA TupleItems ==
  ASSUME TypeOK
  PROVE  \A i \in Items : tuple[i] # NoTuple =>
           \A c \in Children : tuple[i][c] \in Items
<1>1. \A i \in Items : tuple[i] # NoTuple => tuple[i] \in Tuples
  BY DEF TypeOK
<1> QED
  BY <1>1 DEF Tuples

(* The items that a drain takes are those of all the queues.               *)
LEMMA QueuedAre ==
  ASSUME TypeOK, PlaceInv
  PROVE  Queued = {i \in Items : item[i] = "queued"}
<1>1. Queued = UNION {Elements(queue[c]) : c \in Children}
  BY DEF Queued, Elements
<1> QED
  BY <1>1, ItemChild DEF PlaceInv

-----------------------------------------------------------------------------
(* Type correctness.                                                       *)

(* zip begins with typed state.                                            *)
LEMMA InitTypes == Init => TypeOK
<1> SUFFICES ASSUME Init PROVE TypeOK
  OBVIOUS
<1> USE DEF Init
<1>1. nextToStart \in 1..(N + 1) /\ n_pending \in Int
  BY BoundAssumption
<1>2. /\ child \in [Children -> ChildStates]
      /\ item \in [Items -> ItemStates]
      /\ pc \in [Items -> PCs]
      /\ zip \in [Items -> ZipStates]
      /\ ending \in [Children -> Endings]
  BY DEF Endings, ChildStates, ItemStates, PCs, ZipStates
<1>3. /\ on \in [Items -> Items]
      /\ collected \in [Items -> Tuples \union {NoTuple}]
      /\ tuple \in [Items -> Tuples \union {NoTuple}]
  OBVIOUS
<1>4. /\ queue \in [Children -> Seq(Items)]
      /\ pushed \in [Children -> Seq(Items)]
      /\ zipped \in Seq(Tuples \union {NoTuple})
      /\ delivered \in Seq(Endings)
  OBVIOUS
<1> QED
  BY <1>1, <1>2, <1>3, <1>4 DEF TypeOK

(* What a handler of an item leaves behind.                                *)
LEMMA ItemTypes ==
  ASSUME TypeOK, NEW i \in Items,
         StartItem(i) \/ RefuseItem(i) \/ AcceptItem(i) \/ ItemFails(i)
           \/ ItemThrows(i) \/ RefuseAgain(i) \/ CompleteDrained(i)
  PROVE  TypeOK'
<1> USE DEF TypeOK
<1>1. /\ item' \in [Items -> ItemStates]
      /\ pc' \in [Items -> PCs]
      /\ UNCHANGED <<nextToStart, child, ending, on, queue, n_ready, n_pending,
                     collected, tuple, zip, pushed, zipped, delivered>>
  BY DEF StartItem, RefuseItem, AcceptItem, ItemFails, ItemThrows, RefuseAgain,
         CompleteDrained, ItemStates, PCs
<1> QED
  BY <1>1

(* What the drains leave behind.                                           *)
LEMMA DrainTypes ==
  ASSUME TypeOK,
         \/ \E i \in Items : DrainByItem(i) \/ DrainByZipped(i)
         \/ \E c \in Children : DrainByChild(c)
  PROVE  TypeOK'
<1> USE DEF TypeOK
<1>1. WithDrained \in [Items -> ItemStates]
  BY DEF WithDrained, ItemStates
<1>2. /\ item' \in [Items -> ItemStates]
      /\ zip' \in [Items -> ZipStates]
      /\ child' \in [Children -> ChildStates]
      /\ UNCHANGED <<nextToStart, ending, pc, on, n_pending, collected, tuple,
                     pushed, zipped, delivered>>
  BY <1>1, ZenonT(30) DEF DrainByItem, DrainByZipped, DrainByChild, ItemStates, ZipStates,
              ChildStates
<1>3. n_ready' = 0 /\ queue' = [c \in Children |-> <<>>]
  BY DEF DrainByItem, DrainByZipped, DrainByChild, Drain
<1>4. queue' \in [Children -> Seq(Items)]
  BY <1>3
<1> QED
  BY <1>2, <1>3, <1>4

(* What push_back_item_op leaves behind.                                   *)
LEMMA PushTypes ==
  ASSUME TypeOK, NEW i \in Items, Push(i)
  PROVE  TypeOK'
<1> USE DEF TypeOK, Push
<1>1. ChildOf(i) \in Children
  BY ItemChild
<1>2. /\ Append(queue[ChildOf(i)], i) \in Seq(Items)
      /\ Append(pushed[ChildOf(i)], i) \in Seq(Items)
  BY <1>1
<1>3. /\ queue' \in [Children -> Seq(Items)]
      /\ pushed' \in [Children -> Seq(Items)]
  BY <1>2
<1>4. item' \in [Items -> ItemStates] /\ pc' \in [Items -> PCs]
  BY DEF ItemStates, PCs
<1> QED
  BY <1>3, <1>4

(* What the steps of notify_result_completion leave behind.                *)
LEMMA ThreadTypes ==
  ASSUME TypeOK, NEW t \in Items,
         Notify(t) \/ TestStop(t) \/ Count(t) \/ StartZipped(t)
           \/ ZippedThrows(t) \/ NotifyNext(t)
  PROVE  TypeOK'
<1> USE DEF TypeOK
<1>1. CASE Notify(t)
  BY <1>1 DEF Notify, PCs
<1>2. CASE TestStop(t)
  BY <1>2 DEF TestStop, PCs, ZipStates
<1>3. CASE Count(t)
  <2> DEFINE count == Cardinality({c \in Children : queue[c] # <<>>})
  <2>1. count \in Nat
    <3>1. IsFiniteSet(Children)
      BY FS_Interval, BoundAssumption DEF Children
    <3>2. IsFiniteSet({c \in Children : queue[c] # <<>>})
      BY <3>1, FS_Subset
    <3> QED
      BY <3>2, FS_CardinalityType
  <2>2. n_ready' \in {count - 1, count}
    BY <1>3 DEF Count
  <2>3. n_ready' \in Int
    BY <2>1, <2>2
  <2>4. pc' \in [Items -> PCs]
    BY <1>3 DEF Count, PCs
  <2> QED
    BY <1>3, <2>3, <2>4 DEF Count
<1>4. CASE StartZipped(t)
  BY <1>4 DEF StartZipped, PCs, ZipStates
<1>5. CASE ZippedThrows(t)
  BY <1>5 DEF ZippedThrows, PCs, ZipStates
<1>6. CASE NotifyNext(t)
  <2>1. ChildOf(on[t]) \in Children
    BY ItemChild
  <2>2. queue[ChildOf(on[t])] # <<>> => Head(queue[ChildOf(on[t])]) \in Items
    BY <2>1
  <2>3. on' \in [Items -> Items] /\ pc' \in [Items -> PCs]
    BY <1>6, <2>2 DEF NotifyNext, PCs
  <2> QED
    BY <1>6, <2>3 DEF NotifyNext
<1> QED
  BY <1>1, <1>2, <1>3, <1>4, <1>5, <1>6

(* What the steps that read the fronts leave behind.                       *)
LEMMA FrontsTypes ==
  ASSUME TypeOK, NEW t \in Items, Collect(t) \/ Pop(t)
  PROVE  TypeOK'
<1> USE DEF TypeOK
<1>1. AllFronts => Fronts \in Tuples
  BY FrontsTyped
<1>2. CASE Collect(t)
  <2>1. collected' \in [Items -> Tuples \union {NoTuple}]
    BY <1>1, <1>2 DEF Collect
  <2>2. pc' \in [Items -> PCs]
    BY <1>2 DEF Collect, PCs
  <2> QED
    BY <1>2, <2>1, <2>2 DEF Collect
<1>3. CASE Pop(t)
  <2>1. CASE AllFronts
    <3>0. /\ queue' = [c \in Children |-> Tail(queue[c])]
          /\ tuple' = [tuple EXCEPT ![on[t]] = Fronts]
          /\ pc' = [pc EXCEPT ![t] = "test_stop"]
          /\ n_ready' = -1
      BY <1>3, <2>1 DEF Pop
    <3>1. ASSUME NEW c \in Children PROVE Tail(queue[c]) \in Seq(Items)
      <4>1. queue[c] \in Seq(Items) /\ queue[c] # <<>>
        BY <2>1 DEF AllFronts
      <4> QED
        BY <4>1
    <3>2. queue' \in [Children -> Seq(Items)]
      BY <3>0, <3>1
    <3>3. tuple' \in [Items -> Tuples \union {NoTuple}]
      BY <1>1, <2>1, <3>0
    <3>4. item' \in [Items -> ItemStates]
      BY <1>3, <2>1 DEF Pop, ItemStates
    <3>5. pc' \in [Items -> PCs] /\ n_ready' \in Int
      BY <3>0 DEF PCs
    <3> QED
      BY <1>3, <3>2, <3>3, <3>4, <3>5 DEF Pop
  <2>2. CASE ~AllFronts
    BY <1>3, <2>2 DEF Pop, PCs
  <2> QED
    BY <2>1, <2>2
<1> QED
  BY <1>2, <1>3

(* What the other steps of the children and of the zipped operations leave *)
(* behind.                                                                 *)
LEMMA OtherTypes ==
  ASSUME TypeOK,
         \/ StartNext \/ OuterStop
         \/ \E o \in Items : ZippedValue(o) \/ ZippedStopped(o) \/ Release(o)
         \/ \E c \in Children : ChildEnds(c) \/ ChildRequestStop(c) \/ Deliver(c)
  PROVE  TypeOK'
<1> USE DEF TypeOK
<1>1. CASE StartNext
  <2>1. nextToStart' \in 1..(N + 1)
    BY <1>1, BoundAssumption DEF StartNext, Children
  <2>2. child' \in [Children -> ChildStates]
    BY <1>1 DEF StartNext, ChildStates
  <2> QED
    BY <1>1, <2>1, <2>2 DEF StartNext
<1>2. CASE OuterStop
  BY <1>2 DEF OuterStop
<1>3. ASSUME NEW o \in Items, ZippedValue(o) \/ ZippedStopped(o) \/ Release(o)
      PROVE  TypeOK'
  <2>1. zip' \in [Items -> ZipStates] /\ item' \in [Items -> ItemStates]
    BY <1>3, ZenonT(30) DEF ZippedValue, ZippedStopped, Release, ZipStates, ItemStates
  <2> QED
    BY <1>3, <2>1 DEF ZippedValue, ZippedStopped, Release
<1>4. ASSUME NEW c \in Children, ChildEnds(c) \/ ChildRequestStop(c)
      PROVE  TypeOK'
  <2>1. CASE ChildEnds(c)
    <3>1. /\ child' = [child EXCEPT ![c] = IF n_pending > 1 THEN "stopping"
                                                           ELSE "last"]
          /\ ending' \in {[ending EXCEPT ![c] = e] : e \in Endings}
          /\ n_pending' = n_pending - 1
      BY <2>1 DEF ChildEnds
    <3>2. child' \in [Children -> ChildStates]
      BY <3>1 DEF ChildStates
    <3>3. ending' \in [Children -> Endings]
      BY <3>1
    <3> QED
      BY <2>1, <3>1, <3>2, <3>3 DEF ChildEnds
  <2>2. CASE ChildRequestStop(c)
    BY <2>2 DEF ChildRequestStop, ChildStates
  <2> QED
    BY <1>4, <2>1, <2>2
<1>5. ASSUME NEW c \in Children, Deliver(c) PROVE TypeOK'
  <2>1. Result(c) \in Endings
    BY <1>5 DEF Result, Endings
  <2>2. delivered' \in Seq(Endings)
    BY <1>5, <2>1 DEF Deliver
  <2>3. child' \in [Children -> ChildStates]
    BY <1>5 DEF Deliver, ChildStates
  <2> QED
    BY <1>5, <2>2, <2>3 DEF Deliver
<1> QED
  BY <1>1, <1>2, <1>3, <1>4, <1>5

(* Every step keeps the types.                                             *)
LEMMA NextTypes == TypeOK /\ [Next]_vars => TypeOK'
<1> SUFFICES ASSUME TypeOK, [Next]_vars PROVE TypeOK'
  OBVIOUS
<1>1. CASE UNCHANGED vars
  BY <1>1 DEF vars, TypeOK
<1> QED
  BY <1>1, ItemTypes, DrainTypes, PushTypes, ThreadTypes, FrontsTypes, OtherTypes
  DEF Next, ItemStep, ZippedStep, ChildStep, Terminated
-----------------------------------------------------------------------------
(* Where the items are.                                                    *)

(* At the beginning no item is anywhere.                                   *)
LEMMA InitPlace == Init => PlaceInv
<1> SUFFICES ASSUME Init PROVE PlaceInv
  OBVIOUS
<1> USE DEF Init
<1>1. \A c \in Children :
        /\ Elements(queue[c]) = {}
        /\ NoDuplicates(queue[c])
  BY EmptyListElements
<1>2. \A c \in Children :
        {i \in Items : ChildOf(i) = c /\ item[i] = "queued"} = {}
  OBVIOUS
<1>3. \A i \in Items : pc[i] # "push" /\ tuple[i] = NoTuple
  OBVIOUS
<1> QED
  BY <1>1, <1>2, <1>3 DEF PlaceInv

(* A step that queues and releases nothing, and pops nothing.              *)
LEMMA PlaceUnmoved ==
  ASSUME TypeOK, PlaceInv, UNCHANGED <<queue, tuple>>,
         \A i \in Items :
           /\ item'[i] = "queued" <=> item[i] = "queued"
           /\ item[i] \in {"zipped", "done"} => item'[i] \in {"zipped", "done"}
           /\ pc'[i] = "push" => item'[i] = "pushing"
  PROVE  PlaceInv'
<1> USE DEF PlaceInv
<1>1. ASSUME NEW c \in Children
      PROVE  {i \in Items : ChildOf(i) = c /\ item'[i] = "queued"}
               = {i \in Items : ChildOf(i) = c /\ item[i] = "queued"}
  OBVIOUS
<1>2. \A i \in Items : tuple[i] # NoTuple =>
        \A c \in Children : tuple[i][c] \in Items
  BY TupleItems
<1>3. \A c \in Children :
        /\ Elements(queue'[c]) = {i \in Items : ChildOf(i) = c /\ item'[i] = "queued"}
        /\ NoDuplicates(queue'[c])
  BY <1>1
<1>4. \A i \in Items : tuple'[i] # NoTuple =>
        \A c \in Children : item'[tuple'[i][c]] \in {"zipped", "done"}
  BY <1>2
<1> QED
  BY <1>3, <1>4

(* The handlers of the items.                                              *)
LEMMA ItemPlace ==
  ASSUME TypeOK, PlaceInv, NEW i \in Items,
         StartItem(i) \/ RefuseItem(i) \/ AcceptItem(i) \/ ItemFails(i)
           \/ ItemThrows(i) \/ RefuseAgain(i) \/ CompleteDrained(i)
  PROVE  PlaceInv'
<1>1. /\ UNCHANGED <<queue, tuple>>
      /\ item[i] \in {"idle", "running", "drained", "again"}
      /\ \/ item[i] = "running" /\ pc' = [pc EXCEPT ![i] = "push"]
            /\ item' = [item EXCEPT ![i] = "pushing"]
         \/ \E s \in {"running", "done", "draining", "throwing", "twice"} :
              UNCHANGED pc /\ item' = [item EXCEPT ![i] = s]
  BY DEF StartItem, RefuseItem, AcceptItem, ItemFails, ItemThrows, RefuseAgain,
         CompleteDrained
<1>2. ASSUME NEW j \in Items
      PROVE  /\ item'[j] = "queued" <=> item[j] = "queued"
             /\ item[j] \in {"zipped", "done"} => item'[j] \in {"zipped", "done"}
             /\ pc'[j] = "push" => item'[j] = "pushing"
  BY <1>1 DEF TypeOK, PlaceInv
<1> QED
  BY <1>1, <1>2, PlaceUnmoved

(* push_back_item_op puts an item into its queue that was in none.         *)
LEMMA PushPlace ==
  ASSUME TypeOK, PlaceInv, NEW i \in Items, Push(i)
  PROVE  PlaceInv'
<1>1. /\ queue' = [queue EXCEPT ![ChildOf(i)] = Append(@, i)]
      /\ item' = [item EXCEPT ![i] = "queued"]
      /\ pc' = [pc EXCEPT ![i] = "notify"]
      /\ tuple' = tuple
      /\ item[i] = "pushing"
  BY DEF Push, PlaceInv
<1>2. ChildOf(i) \in Children
  BY ItemChild
<1>3. i \notin Elements(queue[ChildOf(i)])
  BY <1>1, <1>2 DEF PlaceInv
<1>4. queue[ChildOf(i)] \in Seq(Items)
  BY <1>2 DEF TypeOK
<1>5. /\ queue'[ChildOf(i)] = Append(queue[ChildOf(i)], i)
      /\ \A c \in Children : c # ChildOf(i) => queue'[c] = queue[c]
  BY <1>1, <1>2 DEF TypeOK
<1>6. \A j \in Items : item'[j] = IF j = i THEN "queued" ELSE item[j]
  BY <1>1 DEF TypeOK
<1>7. ASSUME NEW c \in Children
      PROVE  /\ Elements(queue'[c])
                  = {j \in Items : ChildOf(j) = c /\ item'[j] = "queued"}
             /\ NoDuplicates(queue'[c])
  <2>1. CASE c = ChildOf(i)
    <3>1. NoDuplicates(queue[c]) /\ i \notin Elements(queue[c])
      BY <1>3, <2>1 DEF PlaceInv
    <3>2. queue[c] \in Seq(Items) /\ queue'[c] = Append(queue[c], i)
      BY <1>4, <1>5, <2>1
    <3>3. /\ Elements(queue'[c]) = Elements(queue[c]) \union {i}
          /\ NoDuplicates(queue'[c])
      BY <3>1, <3>2, PushBackElements
    <3> QED
      BY <1>6, <2>1, <3>3 DEF PlaceInv
  <2>2. CASE c # ChildOf(i)
    BY <1>5, <1>6, <2>2 DEF PlaceInv
  <2> QED
    BY <2>1, <2>2
<1>8. \A j \in Items : pc'[j] = "push" => item'[j] = "pushing"
  BY <1>1, <1>6 DEF TypeOK, PlaceInv
<1>9. \A j \in Items : tuple'[j] # NoTuple =>
        \A c \in Children : item'[tuple'[j][c]] \in {"zipped", "done"}
  BY <1>1, <1>6, TupleItems DEF PlaceInv
<1> QED
  BY <1>1, <1>7, <1>8, <1>9 DEF PlaceInv

(* A drain empties the queues and takes what is in them.                   *)
LEMMA DrainPlace ==
  ASSUME TypeOK, PlaceInv,
         \/ \E i \in Items : DrainByItem(i) \/ DrainByZipped(i)
         \/ \E c \in Children : DrainByChild(c)
  PROVE  PlaceInv'
<1>1. /\ queue' = [c \in Children |-> <<>>]
      /\ pc' = pc
      /\ tuple' = tuple
      /\ \/ item' = WithDrained
         \/ \E i \in Items, s \in {"done", "again"} :
              item' = [WithDrained EXCEPT ![i] = s]
                /\ item[i] \in {"draining", "throwing"}
  BY DEF DrainByItem, DrainByZipped, DrainByChild, Drain
<1>2. ASSUME NEW j \in Items
      PROVE  /\ item[j] = "queued" => item'[j] = "drained"
             /\ item[j] # "queued" => item'[j] = item[j]
                  \/ (item[j] \in {"draining", "throwing"}
                        /\ item'[j] \in {"done", "again"})
  BY <1>1, QueuedAre DEF WithDrained
<1>3. ASSUME NEW c \in Children
      PROVE  /\ Elements(queue'[c]) = {}
             /\ NoDuplicates(queue'[c])
             /\ {j \in Items : ChildOf(j) = c /\ item'[j] = "queued"} = {}
  BY <1>1, <1>2, EmptyListElements
<1>4. \A j \in Items : pc'[j] = "push" => item'[j] = "pushing"
  BY <1>1, <1>2 DEF PlaceInv
<1>5. \A j \in Items : tuple'[j] # NoTuple =>
        \A c \in Children : item'[tuple'[j][c]] \in {"zipped", "done"}
  BY <1>1, <1>2, TupleItems DEF PlaceInv
<1> QED
  BY <1>1, <1>3, <1>4, <1>5 DEF PlaceInv

(* pop_front takes the fronts out of the queues into one tuple.            *)
LEMMA PopPlace ==
  ASSUME TypeOK, PlaceInv, NEW t \in Items, Pop(t)
  PROVE  PlaceInv'
<1>1. CASE ~AllFronts
  <2>1. /\ UNCHANGED <<tuple, queue, item>>
        /\ pc' = [pc EXCEPT ![t] = "null_front"]
    BY <1>1 DEF Pop
  <2>2. \A j \in Items : pc'[j] = "push" => item'[j] = "pushing"
    BY <2>1 DEF TypeOK, PlaceInv
  <2> QED
    BY <2>1, <2>2, PlaceUnmoved
<1>2. CASE AllFronts
  <2>1. /\ tuple' = [tuple EXCEPT ![on[t]] = Fronts]
        /\ queue' = [c \in Children |-> Tail(queue[c])]
        /\ item' = [i \in Items |-> IF i = Fronts[ChildOf(i)] THEN "zipped"
                                                              ELSE item[i]]
        /\ pc' = [pc EXCEPT ![t] = "test_stop"]
    BY <1>2 DEF Pop
  <2>2. /\ Fronts \in Tuples /\ Fronts # NoTuple
        /\ \A c \in Children : Fronts[c] = Head(queue[c])
    BY <1>2, FrontsTyped
  <2>3. ASSUME NEW c \in Children
        PROVE  /\ Fronts[c] \in Items
               /\ ChildOf(Fronts[c]) = c
               /\ item[Fronts[c]] = "queued"
               /\ Elements(queue'[c]) = Elements(queue[c]) \ {Fronts[c]}
               /\ NoDuplicates(queue'[c])
    <3>1. queue[c] \in Seq(Items) /\ queue[c] # <<>> /\ NoDuplicates(queue[c])
      BY <1>2 DEF AllFronts, TypeOK, PlaceInv
    <3>2. /\ Fronts[c] \in Elements(queue[c])
          /\ Elements(Tail(queue[c])) = Elements(queue[c]) \ {Fronts[c]}
          /\ NoDuplicates(Tail(queue[c]))
      BY <2>2, <3>1, PopFrontElements
    <3>3. Fronts[c] \in Items /\ ChildOf(Fronts[c]) = c /\ item[Fronts[c]] = "queued"
      BY <3>2 DEF PlaceInv
    <3> QED
      BY <2>1, <3>2, <3>3
  <2>4. ASSUME NEW c \in Children
        PROVE  Elements(queue'[c])
                 = {j \in Items : ChildOf(j) = c /\ item'[j] = "queued"}
    <3>1. \A j \in Items : ChildOf(j) = c =>
            item'[j] = IF j = Fronts[c] THEN "zipped" ELSE item[j]
      BY <2>1
    <3> QED
      BY <2>3, <3>1 DEF PlaceInv
  <2>5. \A j \in Items : pc'[j] = "push" => item'[j] = "pushing"
    BY <2>1, <2>3, ItemChild DEF TypeOK, PlaceInv
  <2>6. /\ tuple'[on[t]] = Fronts
        /\ \A j \in Items : j # on[t] => tuple'[j] = tuple[j]
    BY <2>1 DEF TypeOK
  <2>7. \A j \in Items : item[j] \in {"zipped", "done"} =>
          item'[j] \in {"zipped", "done"}
    BY <2>1
  <2>8. ASSUME NEW j \in Items, tuple'[j] # NoTuple, NEW c \in Children
        PROVE  item'[tuple'[j][c]] \in {"zipped", "done"}
    <3>1. CASE j = on[t]
      BY <2>1, <2>3, <2>6, <3>1
    <3>2. CASE j # on[t]
      <4>1. tuple'[j] = tuple[j] /\ tuple[j] # NoTuple
        BY <2>6, <2>8, <3>2
      <4> QED
        BY <2>7, <4>1, TupleItems DEF PlaceInv
    <3> QED
      BY <3>1, <3>2
  <2>9. ASSUME NEW i \in Items, NEW j \in Items, i # j, tuple'[i] # NoTuple,
               tuple'[j] # NoTuple, NEW c \in Children
        PROVE  tuple'[i][c] # tuple'[j][c]
    <3>1. \A k \in Items : k # on[t] /\ tuple[k] # NoTuple => tuple[k][c] # Fronts[c]
      BY <2>3 DEF PlaceInv
    <3>2. CASE i = on[t]
      <4>1. tuple'[i] = Fronts /\ tuple'[j] = tuple[j] /\ tuple[j][c] # Fronts[c]
        BY <2>6, <2>9, <3>1, <3>2
      <4> QED
        BY <4>1
    <3>3. CASE j = on[t]
      <4>1. tuple'[j] = Fronts /\ tuple'[i] = tuple[i] /\ tuple[i][c] # Fronts[c]
        BY <2>6, <2>9, <3>1, <3>3
      <4> QED
        BY <4>1
    <3>4. CASE i # on[t] /\ j # on[t]
      BY <2>6, <2>9, <3>4 DEF PlaceInv
    <3> QED
      BY <3>2, <3>3, <3>4
  <2> QED
    BY <2>3, <2>4, <2>5, <2>8, <2>9 DEF PlaceInv
<1> QED
  BY <1>1, <1>2

(* The steps that touch neither the queues nor an item that is in one.     *)
LEMMA OtherPlace ==
  ASSUME TypeOK, PlaceInv,
         \/ StartNext \/ OuterStop \/ Terminated
         \/ \E t \in Items :
              \/ Notify(t) \/ Collect(t) \/ TestStop(t) \/ Count(t)
              \/ StartZipped(t) \/ ZippedThrows(t) \/ NotifyNext(t)
              \/ ZippedValue(t) \/ ZippedStopped(t) \/ Release(t)
         \/ \E c \in Children : ChildEnds(c) \/ ChildRequestStop(c) \/ Deliver(c)
  PROVE  PlaceInv'
<1>1. CASE \E o \in Items : Release(o)
  <2>1. PICK o \in Items : Release(o)
    BY <1>1
  <2>2. /\ UNCHANGED <<queue, tuple, pc>>
        /\ \E i : item[i] = "zipped" /\ item' = [item EXCEPT ![i] = "done"]
    BY <2>1 DEF Release
  <2>3. ASSUME NEW j \in Items
        PROVE  /\ item'[j] = "queued" <=> item[j] = "queued"
               /\ item[j] \in {"zipped", "done"} => item'[j] \in {"zipped", "done"}
               /\ pc'[j] = "push" => item'[j] = "pushing"
    BY <2>2 DEF TypeOK, PlaceInv
  <2> QED
    BY <2>2, <2>3, PlaceUnmoved
<1>2. CASE ~\E o \in Items : Release(o)
  <2>1. /\ UNCHANGED <<queue, tuple, item>>
        /\ \/ UNCHANGED pc
           \/ \E t \in Items, s \in PCs \ {"push"} : pc' = [pc EXCEPT ![t] = s]
    BY <1>2
    DEF StartNext, OuterStop, Terminated, vars, Notify, Collect, TestStop, Count,
        StartZipped, ZippedThrows, NotifyNext, ZippedValue, ZippedStopped,
        ChildEnds, ChildRequestStop, Deliver, PCs
  <2>2. \A j \in Items : pc'[j] = "push" => item'[j] = "pushing"
    BY <2>1 DEF TypeOK, PlaceInv
  <2> QED
    BY <2>1, <2>2, PlaceUnmoved
<1> QED
  BY <1>1, <1>2

(* Every step keeps the items in place.                                    *)
LEMMA NextPlace == TypeOK /\ PlaceInv /\ [Next]_vars => PlaceInv'
<1> SUFFICES ASSUME TypeOK, PlaceInv, [Next]_vars PROVE PlaceInv'
  OBVIOUS
<1>1. CASE UNCHANGED vars
  BY <1>1 DEF vars, PlaceInv
<1> QED
  BY <1>1, ItemPlace, PushPlace, DrainPlace, PopPlace, OtherPlace
  DEF Next, ItemStep, ZippedStep, ChildStep

(* Whatever the threads do, an item is in one place: in its queue exactly  *)
(* while it is queued, and in at most one tuple.                           *)
THEOREM ItemInOnePlaceHolds == SafeSpec => []ItemInOnePlace
<1>1. Init => TypeOK /\ PlaceInv
  BY InitTypes, InitPlace
<1>2. TypeOK /\ PlaceInv /\ [Next]_vars => (TypeOK /\ PlaceInv)'
  BY NextTypes, NextPlace
<1>3. TypeOK /\ PlaceInv => ItemInOnePlace
  BY QueuedAre DEF ItemInOnePlace, PlaceInv, NoDuplicates
<1> QED
  BY <1>1, <1>2, <1>3, PTL DEF SafeSpec
-----------------------------------------------------------------------------
(* How the items move.                                                     *)

(* The ways of an item, and what stopped records of them.                  *)
Moves(j) ==
  /\ \/ item'[j] = item[j]
     \/ item[j] = "idle" /\ item'[j] = "running" /\ StartItem(j)
     \/ item[j] = "running" /\ item'[j] \in {"pushing", "draining", "throwing"}
     \/ item[j] = "running" /\ item'[j] = "done" /\ stop
     \/ item[j] = "pushing" /\ item'[j] = "queued" /\ Push(j)
     \/ item[j] = "queued" /\ item'[j] = "drained"
     \/ item[j] = "queued" /\ item'[j] = "zipped" /\ \E t \in Items : Pop(t)
     \/ item[j] = "zipped" /\ item'[j] = "done" /\ \E o \in Items : Release(o)
     \/ item[j] \in {"drained", "draining"} /\ item'[j] = "done"
     \/ item[j] = "throwing" /\ item'[j] = "again"
     \/ item[j] = "again" /\ item'[j] = "twice"
  /\ item'[j] \in Completed /\ item[j] \notin Completed /\ stop => j \in stopped'
  /\ j \in stopped => j \in stopped'
  /\ j \in stopped' /\ j \notin stopped =>
       item[j] \notin Completed \union {"idle"} /\ item'[j] \in Completed

(* The handlers of the items move one item.                                *)
LEMMA ItemMoves ==
  ASSUME TypeOK, PlaceInv, NEW i \in Items,
         StartItem(i) \/ RefuseItem(i) \/ AcceptItem(i) \/ ItemFails(i)
           \/ ItemThrows(i) \/ RefuseAgain(i) \/ CompleteDrained(i) \/ Push(i),
         NEW j \in Items
  PROVE  Moves(j)
<1>1. /\ \/ /\ item[i] = "idle" /\ StartItem(i)
            /\ item' = [item EXCEPT ![i] = "running"]
         \/ \E s \in {"pushing", "draining", "throwing"} :
              item[i] = "running" /\ item' = [item EXCEPT ![i] = s]
         \/ /\ item[i] = "pushing" /\ Push(i)
            /\ item' = [item EXCEPT ![i] = "queued"]
         \/ item[i] = "again" /\ item' = [item EXCEPT ![i] = "twice"]
      /\ stopped' = stopped
      \/ /\ item[i] \in {"running", "drained"}
         /\ item' = [item EXCEPT ![i] = "done"]
         /\ item[i] = "running" => stop
         /\ stopped' = IF stop THEN stopped \union {i} ELSE stopped
  BY DEF StartItem, RefuseItem, AcceptItem, ItemFails, ItemThrows, RefuseAgain,
         CompleteDrained, Push, PlaceInv
<1> QED
  BY <1>1 DEF Moves, Completed, TypeOK

(* The drains move the items in the queues, and the one that failed.       *)
LEMMA DrainMoves ==
  ASSUME TypeOK, PlaceInv,
         \/ \E i \in Items : DrainByItem(i) \/ DrainByZipped(i)
         \/ \E c \in Children : DrainByChild(c),
         NEW j \in Items
  PROVE  Moves(j)
<1>1. CASE \E i \in Items : DrainByItem(i)
  <2>1. PICK i \in Items : DrainByItem(i)
    BY <1>1
  <2>2. /\ item[i] \in {"draining", "throwing"}
        /\ item' = [WithDrained EXCEPT ![i] = IF item[i] = "throwing" THEN "again"
                                                                     ELSE "done"]
        /\ stopped' = stopped \union {i}
    BY <2>1 DEF DrainByItem
  <2>3. item'[j] = IF j = i THEN IF item[i] = "throwing" THEN "again" ELSE "done"
                   ELSE IF item[j] = "queued" THEN "drained" ELSE item[j]
    BY <2>2, QueuedAre DEF WithDrained
  <2> QED
    BY <2>2, <2>3 DEF Moves, Completed
<1>2. CASE ~\E i \in Items : DrainByItem(i)
  <2>1. item' = WithDrained /\ stopped' = stopped
    BY <1>2 DEF DrainByZipped, DrainByChild
  <2>2. item'[j] = IF item[j] = "queued" THEN "drained" ELSE item[j]
    BY <2>1, QueuedAre DEF WithDrained
  <2> QED
    BY <2>1, <2>2 DEF Moves, Completed
<1> QED
  BY <1>1, <1>2

(* A tuple is popped, and its items complete.                              *)
LEMMA TupleMoves ==
  ASSUME TypeOK, PlaceInv, NEW t \in Items, Pop(t) \/ Release(t), NEW j \in Items
  PROVE  Moves(j)
<1>1. CASE Pop(t) /\ AllFronts
  <2>1. /\ item'[j] = IF j = Fronts[ChildOf(j)] THEN "zipped" ELSE item[j]
        /\ stopped' = stopped
    BY <1>1 DEF Pop
  <2>2. j = Fronts[ChildOf(j)] => item[j] = "queued"
    <3>1. ChildOf(j) \in Children
      BY ItemChild
    <3>2. /\ queue[ChildOf(j)] \in Seq(Items) /\ queue[ChildOf(j)] # <<>>
          /\ NoDuplicates(queue[ChildOf(j)])
      BY <1>1, <3>1 DEF AllFronts, TypeOK, PlaceInv
    <3>3. Fronts[ChildOf(j)] \in Elements(queue[ChildOf(j)])
      BY <1>1, <3>1, <3>2, FrontsTyped, PopFrontElements
    <3> QED
      BY <3>1, <3>3 DEF PlaceInv
  <2>3. \E s \in Items : Pop(s)
    BY <1>1
  <2> QED
    BY <2>1, <2>2, <2>3 DEF Moves, Completed
<1>2. CASE Pop(t) /\ ~AllFronts
  BY <1>2 DEF Pop, Moves
<1>3. CASE Release(t)
  <2>1. \E k : /\ item[k] = "zipped" /\ item' = [item EXCEPT ![k] = "done"]
               /\ stopped' = IF stop THEN stopped \union {k} ELSE stopped
    BY <1>3 DEF Release
  <2>2. \E o \in Items : Release(o)
    BY <1>3
  <2> QED
    BY <2>1, <2>2 DEF Moves, Completed, TypeOK
<1> QED
  BY <1>1, <1>2, <1>3

(* The other steps move no item.                                           *)
LEMMA OtherMoves ==
  ASSUME \/ StartNext \/ OuterStop \/ UNCHANGED vars
         \/ \E t \in Items :
              \/ Notify(t) \/ Collect(t) \/ TestStop(t) \/ Count(t)
              \/ StartZipped(t) \/ ZippedThrows(t) \/ NotifyNext(t)
              \/ ZippedValue(t) \/ ZippedStopped(t)
         \/ \E c \in Children : ChildEnds(c) \/ ChildRequestStop(c) \/ Deliver(c),
         NEW j \in Items
  PROVE  Moves(j)
<1>1. UNCHANGED <<item, stopped>>
  BY DEF StartNext, OuterStop, vars, Notify, Collect, TestStop, Count, StartZipped,
         ZippedThrows, NotifyNext, ZippedValue, ZippedStopped, ChildEnds,
         ChildRequestStop, Deliver
<1> QED
  BY <1>1 DEF Moves

(* Every step moves the items in these ways.                               *)
LEMMA NextMoves ==
  ASSUME TypeOK, PlaceInv, [Next]_vars, NEW j \in Items
  PROVE  Moves(j)
BY ItemMoves, DrainMoves, TupleMoves, OtherMoves
DEF Next, ItemStep, ZippedStep, ChildStep, Terminated

-----------------------------------------------------------------------------
(* How the sequence completes.                                             *)

(* There are N children.                                                   *)
LEMMA ChildrenFinite == IsFiniteSet(Children) /\ Cardinality(Children) = N
BY FS_Interval, BoundAssumption DEF Children

(* The children that have not ended can be counted.                        *)
LEMMA PendingFinite ==
  /\ IsFiniteSet(Pending)
  /\ Cardinality(Pending) \in Nat
<1>1. Pending \subseteq Children
  BY DEF Pending
<1> QED
  BY <1>1, ChildrenFinite, FS_Subset, FS_CardinalityType

(* All children are pending at the beginning.                              *)
LEMMA InitCompletion == Init => CompletionInv
<1> SUFFICES ASSUME Init PROVE CompletionInv
  OBVIOUS
<1> USE DEF Init
<1>1. Pending = Children
  BY DEF Pending
<1>2. n_pending = Cardinality(Pending)
  BY <1>1, ChildrenFinite
<1>3. delivered = <<>> /\ \A c \in Children : child[c] = "idle"
  OBVIOUS
<1> QED
  BY <1>2, <1>3, ItemChild DEF CompletionInv

(* start() starts the next child.                                          *)
LEMMA StartNextCompletion ==
  ASSUME TypeOK, CompletionInv, StartNext
  PROVE  CompletionInv'
<1>1. /\ nextToStart \in Children /\ nextToStart \in Int
      /\ nextToStart' = nextToStart + 1
      /\ child' = [child EXCEPT ![nextToStart] = "running"]
      /\ UNCHANGED <<n_pending, delivered, item>>
  BY DEF StartNext, Children
<1>2. child[nextToStart] = "idle"
  BY <1>1 DEF CompletionInv
<1>3. /\ child'[nextToStart] = "running"
      /\ \A c \in Children \ {nextToStart} : child'[c] = child[c]
  BY <1>1 DEF TypeOK
<1>4. Pending' = Pending
  BY <1>1, <1>2, <1>3 DEF Pending
<1>5. \A c \in Children : c >= nextToStart' => child'[c] = "idle"
  BY <1>1, <1>3 DEF CompletionInv, Children
<1> QED
  BY <1>1, <1>3, <1>4, <1>5, ItemChild DEF CompletionInv

(* The child that takes the counter to zero is the only one that does.     *)
LEMMA ChildEndsCompletion ==
  ASSUME TypeOK, CompletionInv, NEW c \in Children, ChildEnds(c)
  PROVE  CompletionInv'
<1>1. /\ child[c] = "running"
      /\ n_pending' = n_pending - 1
      /\ child' = [child EXCEPT ![c] = IF n_pending > 1 THEN "stopping" ELSE "last"]
      /\ UNCHANGED <<nextToStart, delivered, item>>
      /\ \A i \in Items : ChildOf(i) = c => item[i] \in Completed \union {"idle"}
  BY DEF ChildEnds
<1>2. /\ child'[c] = IF n_pending > 1 THEN "stopping" ELSE "last"
      /\ \A d \in Children : d # c => child'[d] = child[d]
  BY <1>1 DEF TypeOK
<1>3. c \in Pending /\ Pending' = Pending \ {c}
  BY <1>1, <1>2 DEF Pending
<1>4. n_pending' = Cardinality(Pending') /\ n_pending \in Nat \ {0}
  <2>1. Cardinality(Pending') = Cardinality(Pending) - 1
    BY <1>3, PendingFinite, FS_RemoveElement
  <2>2. Cardinality(Pending) # 0
    BY <1>3, PendingFinite, FS_EmptySet
  <2> QED
    BY <1>1, <2>1, <2>2, PendingFinite DEF CompletionInv
<1>5. delivered = <<>> /\ \A d \in Children : child[d] # "last"
  BY <1>4 DEF CompletionInv
<1>6. c < nextToStart
  BY <1>1 DEF CompletionInv, TypeOK, Children
<1>7. \A d \in Children : d >= nextToStart => child'[d] = "idle"
  BY <1>2, <1>6 DEF CompletionInv, TypeOK, Children
<1>8. ASSUME NEW d \in Children, child'[d] = "last"
      PROVE  n_pending' = 0 /\ \A e \in Children \ {d} : child'[e] # "last"
  <2>1. d = c /\ ~(n_pending > 1)
    BY <1>2, <1>5, <1>8
  <2> QED
    BY <1>1, <1>2, <1>4, <1>5, <2>1
<1>9. \A i \in Items : child'[ChildOf(i)] \notin {"idle", "running"} =>
        item[i] \in Completed \union {"idle"}
  BY <1>1, <1>2, ItemChild DEF CompletionInv
<1> QED
  BY <1>1, <1>4, <1>5, <1>7, <1>8, <1>9 DEF CompletionInv

(* What a child does after it was counted.                                 *)
LEMMA ChildStepsCompletion ==
  ASSUME TypeOK, PlaceInv, CompletionInv, [Next]_vars, NEW c \in Children,
         ChildRequestStop(c) \/ DrainByChild(c) \/ Deliver(c)
  PROVE  CompletionInv'
<1>1. /\ child[c] \in {"stopping", "draining", "last"}
      /\ \E s \in {"draining", "done"} : child' = [child EXCEPT ![c] = s]
      /\ UNCHANGED <<nextToStart, n_pending>>
  BY DEF ChildRequestStop, DrainByChild, Deliver
<1>2. /\ child'[c] \in {"draining", "done"}
      /\ \A d \in Children : d # c => child'[d] = child[d]
  BY <1>1 DEF TypeOK
<1>3. Pending' = Pending
  BY <1>1, <1>2 DEF Pending
<1>4. \A d \in Children : d >= nextToStart' => child'[d] = "idle"
  BY <1>1, <1>2 DEF CompletionInv
<1>5. ASSUME NEW i \in Items, child'[ChildOf(i)] \notin {"idle", "running"}
      PROVE  item'[i] \in Completed \union {"idle"}
  <2>1. child[ChildOf(i)] \notin {"idle", "running"}
    BY <1>1, <1>2, <1>5, ItemChild
  <2>2. item[i] \in Completed \union {"idle"}
    BY <2>1 DEF CompletionInv
  <2> QED
    BY <2>1, <2>2, NextMoves DEF Moves, StartItem, Completed
<1>7. CASE Deliver(c)
  <2>1. /\ child[c] = "last" /\ delivered = <<>> /\ n_pending = 0
        /\ \A d \in Children \ {c} : child[d] # "last"
        /\ child'[c] = "done"
    BY <1>7 DEF Deliver, CompletionInv, TypeOK
  <2>2. delivered' = Append(<<>>, Result(c))
    BY <1>7, <2>1 DEF Deliver
  <2>3. Len(delivered') = 1
    BY <2>2
  <2>4. \A d \in Children : child'[d] # "last"
    BY <1>2, <2>1
  <2> QED
    BY <1>1, <1>3, <1>4, <1>5, <2>1, <2>3, <2>4 DEF CompletionInv
<1>8. CASE ~Deliver(c)
  <2>1. delivered' = delivered
    BY <1>8 DEF ChildRequestStop, DrainByChild
  <2>2. \A d \in Children : child'[d] = "last" => child[d] = "last"
    BY <1>2
  <2>3. \A d, e \in Children : child'[d] = "last" /\ child'[e] = "last" => d = e
    BY <2>2 DEF CompletionInv
  <2> QED
    BY <1>1, <1>3, <1>4, <1>5, <2>1, <2>2, <2>3 DEF CompletionInv
<1> QED
  BY <1>7, <1>8

(* The items of a child that was counted stay where they are.              *)
LEMMA ItemsCompletion ==
  ASSUME TypeOK, PlaceInv, CompletionInv, [Next]_vars, NEW i \in Items,
         StartItem(i) \/ ItemStep(i) \/ ZippedStep(i)
  PROVE  CompletionInv'
<1>1. UNCHANGED <<nextToStart, child, n_pending, delivered>>
  BY ZenonT(30)
  DEF StartItem, ItemStep, ZippedStep, RefuseItem, AcceptItem, Push, ItemFails,
      ItemThrows, RefuseAgain, DrainByItem, CompleteDrained, Notify, Collect, Pop,
      TestStop, Count, StartZipped, ZippedThrows, NotifyNext, ZippedValue,
      ZippedStopped, DrainByZipped, Release
<1>2. ASSUME NEW j \in Items, child[ChildOf(j)] \notin {"idle", "running"}
      PROVE  item'[j] \in Completed \union {"idle"}
  <2>1. item[j] \in Completed \union {"idle"}
    BY <1>2 DEF CompletionInv
  <2> QED
    BY <1>2, <2>1, NextMoves DEF Moves, StartItem, Completed
<1>3. Pending' = Pending
  BY <1>1 DEF Pending
<1> QED
  BY <1>1, <1>2, <1>3 DEF CompletionInv

(* Every step keeps it.                                                    *)
LEMMA NextCompletion ==
  TypeOK /\ PlaceInv /\ CompletionInv /\ [Next]_vars => CompletionInv'
<1> SUFFICES ASSUME TypeOK, PlaceInv, CompletionInv, [Next]_vars
             PROVE  CompletionInv'
  OBVIOUS
<1>1. CASE OuterStop \/ UNCHANGED vars
  BY <1>1 DEF OuterStop, vars, CompletionInv, Pending
<1> QED
  BY <1>1, StartNextCompletion, ChildEndsCompletion, ChildStepsCompletion,
     ItemsCompletion
  DEF Next, ChildStep, Terminated
-----------------------------------------------------------------------------
(* Children in lock step: the order of the items, and stop requests.       *)

(* What a step in lock step starts from.                                   *)
LockStep ==
  /\ TypeOK /\ TypeOK'
  /\ PlaceInv /\ PlaceInv'
  /\ ~Overlapping
  /\ LockInv
  /\ [Next]_vars

(* Of two items of a child one comes first.                                *)
LEMMA ItemOrder ==
  \A i, j \in Items :
    /\ i = <<ChildOf(i), i[2]>> /\ i[2] \in 1..K
    /\ ChildOf(i) = ChildOf(j) /\ i # j => Earlier(i, j) \/ Earlier(j, i)
BY DEF Items, ChildOf, Earlier

(* A stop request is not taken back.                                       *)
LEMMA StopStays == stop /\ [Next]_vars => stop'
<1> SUFFICES ASSUME stop, [Next]_vars PROVE stop'
  OBVIOUS
<1>1. CASE \E i \in Items : StartItem(i) \/ ItemStep(i)
  BY <1>1, ZenonT(30)
  DEF StartItem, ItemStep, RefuseItem, AcceptItem, Push, ItemFails, ItemThrows,
      RefuseAgain, DrainByItem, CompleteDrained, Notify, Collect, Pop, TestStop,
      Count, StartZipped, ZippedThrows, NotifyNext
<1>2. CASE \E i \in Items : ZippedStep(i)
  BY <1>2 DEF ZippedStep, ZippedValue, ZippedStopped, DrainByZipped, Release
<1>3. CASE \E c \in Children : ChildStep(c)
  BY <1>3 DEF ChildStep, ChildEnds, ChildRequestStop, DrainByChild, Deliver
<1>4. CASE StartNext \/ OuterStop \/ UNCHANGED vars
  BY <1>4 DEF StartNext, OuterStop, vars
<1> QED
  BY <1>1, <1>2, <1>3, <1>4 DEF Next, Terminated

(* The order of the items of a child.                                      *)
LEMMA OrderKept == LockStep => OrderInv'
<1> SUFFICES ASSUME LockStep PROVE OrderInv'
  OBVIOUS
<1>1. \A j \in Items : Moves(j)
  BY NextMoves DEF LockStep
<1>2. OrderInv /\ ~Overlapping
  BY DEF LockStep, LockInv
<1>3. \A j \in Items : item[j] \in Completed => item'[j] \in Completed
  BY <1>1 DEF Moves, Completed
<1>4. ASSUME NEW i \in Items, StartItem(i)
      PROVE  \A j \in Items : ChildOf(j) = ChildOf(i) =>
               /\ j[2] < i[2] => item[j] \in Completed
               /\ j \notin stopped
  BY <1>2, <1>4 DEF StartItem
<1>5. \A i \in Items : item'[i] # "idle" => item[i] # "idle" \/ StartItem(i)
  BY <1>1 DEF Moves
<1>6. \A i, j \in Items : Earlier(j, i) /\ item'[i] # "idle" => item'[j] \in Completed
  BY <1>2, <1>3, <1>4, <1>5 DEF OrderInv, Earlier
<1>7. ASSUME NEW i \in Items, NEW j \in Items, i \in stopped', ChildOf(j) = ChildOf(i)
      PROVE  item'[j] \in Completed \union {"idle"}
  <2>1. CASE i \in stopped
    <3>1. item[j] \in Completed \union {"idle"}
      BY <1>2, <1>7, <2>1 DEF OrderInv
    <3>2. ~StartItem(j)
      BY <1>4, <1>7, <2>1
    <3> QED
      BY <1>3, <1>5, <3>1, <3>2
  <2>2. CASE i \notin stopped
    <3>1. item[i] \notin Completed \union {"idle"} /\ item'[i] \in Completed
      BY <1>1, <1>7, <2>2 DEF Moves
    <3>2. CASE Earlier(j, i)
      BY <1>6, <3>1, <3>2 DEF Completed
    <3>3. CASE Earlier(i, j)
      <4>1. item[j] = "idle"
        BY <1>2, <3>1, <3>3 DEF OrderInv
      <4>2. ~StartItem(j)
        BY <1>4, <1>7, <3>1, <3>3 DEF Earlier
      <4> QED
        BY <1>5, <4>1, <4>2
    <3> QED
      BY <1>7, <3>1, <3>2, <3>3, ItemOrder
  <2> QED
    BY <2>1, <2>2
<1> QED
  BY <1>6, <1>7 DEF OrderInv

(* Nothing drains, and no item is refused, without a stop request.         *)
LEMMA StopKept == LockStep => StopInv'
<1> SUFFICES ASSUME LockStep, ~stop' PROVE StopInv'
  BY DEF StopInv
<1>1. ~stop
  BY StopStays DEF LockStep
<1>2. /\ stopped = {}
      /\ \A i \in Items :
           /\ item[i] \notin {"drained", "draining", "throwing", "again", "twice"}
           /\ zip[i] # "draining"
      /\ \A c \in Children : child[c] # "draining"
  BY <1>1 DEF LockStep, LockInv, StopInv
<1>3. ASSUME NEW i \in Items
      PROVE  ~DrainByItem(i) /\ ~DrainByZipped(i) /\ ~CompleteDrained(i)
               /\ ~ZippedStopped(i) /\ ~ZippedThrows(i) /\ ~RefuseItem(i)
               /\ ~RefuseAgain(i) /\ ~ItemFails(i) /\ ~ItemThrows(i)
  BY <1>1, <1>2 DEF DrainByItem, DrainByZipped, CompleteDrained, ZippedStopped,
     ZippedThrows, RefuseItem, RefuseAgain, ItemFails, ItemThrows
<1>4. \A c \in Children : ~DrainByChild(c) /\ ~ChildRequestStop(c)
  BY <1>2 DEF DrainByChild, ChildRequestStop
<1>5. CASE \/ \E i \in Items : StartItem(i) \/ AcceptItem(i) \/ Push(i)
           \/ \E i \in Items : Pop(i) \/ Release(i)
  <2>1. /\ UNCHANGED <<stopped, child>>
        /\ \/ UNCHANGED zip
           \/ \E o \in Items : zip' = [zip EXCEPT ![o] = "done"]
    BY <1>1, <1>5 DEF StartItem, AcceptItem, Push, Pop, Release, LockStep, TypeOK
  <2>2. ASSUME NEW j \in Items
        PROVE  item'[j] \notin {"drained", "draining", "throwing", "again", "twice"}
    <3>1. CASE \E i \in Items : StartItem(i) \/ AcceptItem(i) \/ Push(i)
      BY <1>2, <3>1 DEF StartItem, AcceptItem, Push, LockStep, TypeOK
    <3>2. CASE \E i \in Items : Pop(i) \/ Release(i)
      <4>1. \/ item' = item
            \/ item'[j] \in {item[j], "zipped"}
            \/ \E k : item' = [item EXCEPT ![k] = "done"]
        BY <3>2 DEF Pop, Release
      <4> QED
        BY <1>2, <4>1 DEF LockStep, TypeOK
    <3> QED
      BY <1>5, <3>1, <3>2
  <2> QED
    BY <1>2, <2>1, <2>2 DEF StopInv, LockStep, TypeOK
<1>6. CASE \/ StartNext \/ OuterStop \/ UNCHANGED vars
           \/ \E i \in Items :
                \/ Notify(i) \/ Collect(i) \/ TestStop(i) \/ Count(i)
                \/ StartZipped(i) \/ NotifyNext(i) \/ ZippedValue(i)
           \/ \E c \in Children : ChildEnds(c) \/ Deliver(c)
  <2>1. UNCHANGED <<stopped, item>>
    BY <1>6
    DEF StartNext, OuterStop, vars, Notify, Collect, TestStop, Count, StartZipped,
        NotifyNext, ZippedValue, ChildEnds, Deliver
  <2>2. \A i \in Items : zip'[i] # "draining"
    <3>1. zip \in [Items -> ZipStates]
      BY DEF LockStep, TypeOK
    <3>2. \/ UNCHANGED zip
          \/ \E o \in Items : \/ zip' = [zip EXCEPT ![o] = "running"]
                              \/ zip' = [zip EXCEPT ![o] = "releasing"]
      <4>1. CASE \E i \in Items : TestStop(i)
        BY <1>1, <4>1, <3>1 DEF TestStop
      <4>2. CASE \E i \in Items : StartZipped(i)
        <5>1. PICK i \in Items : StartZipped(i)
          BY <4>2
        <5>2. on[i] = i
          BY DEF LockStep, LockInv, CallInv
        <5> QED
          BY <5>1, <5>2 DEF StartZipped
      <4>3. CASE \/ StartNext \/ OuterStop \/ UNCHANGED vars
                 \/ \E i \in Items :
                      \/ Notify(i) \/ Collect(i) \/ Count(i)
                      \/ NotifyNext(i) \/ ZippedValue(i)
                 \/ \E c \in Children : ChildEnds(c) \/ Deliver(c)
        BY <4>3
        DEF StartNext, OuterStop, vars, Notify, Collect, Count, NotifyNext,
            ZippedValue, ChildEnds, Deliver
      <4> QED
        BY <1>6, <4>1, <4>2, <4>3
    <3> QED
      BY <1>2, <3>1, <3>2
  <2>3. \A c \in Children : child'[c] # "draining"
    <3>1. child \in [Children -> ChildStates]
      BY DEF LockStep, TypeOK
    <3>2. \/ UNCHANGED child
          \/ \E c : \/ child' = [child EXCEPT ![c] = "running"]
                   \/ child' = [child EXCEPT ![c] = "stopping"]
                   \/ child' = [child EXCEPT ![c] = "last"]
                   \/ child' = [child EXCEPT ![c] = "done"]
      BY <1>6
      DEF StartNext, OuterStop, vars, Notify, Collect, TestStop, Count, StartZipped,
          NotifyNext, ZippedValue, ChildEnds, Deliver
    <3> QED
      BY <1>2, <3>1, <3>2
  <2> QED
    BY <1>2, <2>1, <2>2, <2>3 DEF StopInv
<1> QED
  BY <1>3, <1>4, <1>5, <1>6
  DEF LockStep, Next, ItemStep, ZippedStep, ChildStep, Terminated

(* A child that ended for good stays so.                                   *)
LEMMA DeadStays ==
  ASSUME LockStep, NEW c \in Children, Dead(c)
  PROVE  Dead(c)'
<1>1. PICK i \in Items : ChildOf(i) = c /\ (item[i] = "drained" \/ i \in stopped)
  BY DEF Dead
<1>2. Moves(i)
  BY NextMoves DEF LockStep
<1>3. item[i] = "drained" => stop
  BY DEF LockStep, LockInv, StopInv
<1> QED
  BY <1>1, <1>2, <1>3 DEF Moves, Dead, Completed

(* Such a child has no item under way but the one that was drained.        *)
LEMMA DeadItems ==
  ASSUME OrderInv, NEW j \in Items, Dead(ChildOf(j))
  PROVE  item[j] \in Completed \union {"idle", "drained"}
<1>1. PICK i \in Items : /\ ChildOf(i) = ChildOf(j)
                         /\ item[i] = "drained" \/ i \in stopped
  BY DEF Dead
<1>2. CASE i \in stopped
  BY <1>1, <1>2 DEF OrderInv
<1>3. CASE item[i] = "drained"
  <2>1. CASE Earlier(i, j)
    BY <1>3, <2>1 DEF OrderInv, Completed
  <2>2. CASE Earlier(j, i)
    BY <1>3, <2>2 DEF OrderInv
  <2> QED
    BY <1>1, <1>3, <2>1, <2>2, ItemOrder
<1> QED
  BY <1>1, <1>2, <1>3
-----------------------------------------------------------------------------
(* Children in lock step: the calls and the rows.                          *)

(* The queues that have an item.                                           *)
NonEmpty == {c \in Children : queue[c] # <<>>}

(* What is in a queue is the item of the next row.                         *)
LEMMA FrontIs ==
  ASSUME TypeOK, PlaceInv, PlacedInv(Len(zipped)), NEW c \in Children,
         queue[c] # <<>>
  PROVE  /\ Head(queue[c]) = <<c, Len(zipped) + 1>>
         /\ Head(queue[c]) \in Items
         /\ item[Head(queue[c])] = "queued"
         /\ Len(pushed[c]) = Len(zipped) + 1
<1>1. Head(queue[c]) \in Elements(queue[c])
  BY PopFrontElements DEF TypeOK, PlaceInv
<1>2. /\ Head(queue[c]) \in Items /\ ChildOf(Head(queue[c])) = c
      /\ item[Head(queue[c])] = "queued"
  BY <1>1 DEF PlaceInv
<1> QED
  BY <1>2, ItemOrder DEF PlacedInv

(* The queues are empty while a call handles the items it popped.          *)
LEMMA HandledQueues ==
  ASSUME TypeOK, PlaceInv, PlacedInv(Len(zipped)), NEW t \in Items,
         HandlesRow(t, Len(zipped)), NEW c \in Children
  PROVE  queue[c] = <<>>
<1> SUFFICES ASSUME queue[c] # <<>> PROVE FALSE
  OBVIOUS
<1>1. tuple[t][c] = <<c, Len(zipped) + 1>> /\ item[tuple[t][c]] = "zipped"
  BY DEF HandlesRow, Row
<1> QED
  BY <1>1, FrontIs

(* Every item makes its calls for itself.                                  *)
LEMMA CallKept == LockStep => CallInv'
<1> SUFFICES ASSUME LockStep PROVE CallInv'
  OBVIOUS
<1> USE DEF LockStep
<1>1. /\ CallInv
      /\ \A i \in Items : pc[i] = "push" => item[i] = "pushing"
      /\ item \in [Items -> ItemStates] /\ pc \in [Items -> PCs]
      /\ zip \in [Items -> ZipStates] /\ DOMAIN on = Items /\ DOMAIN tuple = Items
  BY DEF LockInv, PlaceInv, TypeOK
<1>2. ASSUME UNCHANGED <<on, tuple>>,
             \A i \in Items :
               /\ item'[i] \in {"idle", "running"} => item[i] \in {"idle", "running"}
               /\ pc'[i] # "none" => pc[i] # "none"
               /\ item'[i] = "pushing" => item[i] = "pushing" /\ pc'[i] = pc[i]
               /\ pc'[i] \in {"push", "notify", "collect", "pop"} =>
                    pc[i] \in {"push", "notify", "collect", "pop"}
               /\ pc'[i] \notin {"start_next", "next", "null_next"}
               /\ zip'[i] # "none" => zip[i] # "none"
      PROVE  CallInv'
  BY <1>1, <1>2 DEF CallInv
<1>3. ASSUME UNCHANGED <<on, pc, tuple>>,
             \A i \in Items : zip'[i] # "none" => zip[i] # "none",
             \A i \in Items : item'[i] # "pushing" \/ item[i] = "pushing"
      PROVE  CallInv'
  <2>1. \A i \in Items : item'[i] \in {"idle", "running"} =>
                           item[i] \in {"idle", "running"}
    BY NextMoves DEF Moves, Completed
  <2> QED
    BY <1>1, <1>2, <1>3, <2>1 DEF CallInv
<1>4. ASSUME \/ \E i \in Items : DrainByItem(i) \/ DrainByZipped(i) \/ Release(i)
             \/ \E c \in Children : DrainByChild(c)
      PROVE  CallInv'
  <2>1. /\ UNCHANGED <<on, pc, tuple>>
        /\ \/ UNCHANGED zip
           \/ \E i \in Items : zip[i] = "draining" /\ zip' = [zip EXCEPT ![i] = "releasing"]
           \/ \E i \in Items : zip[i] = "releasing" /\ zip' = [zip EXCEPT ![i] = "done"]
    BY <1>1, <1>4 DEF DrainByItem, DrainByZipped, Release, DrainByChild
  <2>2. \A i \in Items : zip'[i] # "none" => zip[i] # "none"
    BY <1>1, <2>1
  <2>3. \A j \in Items : item'[j] # "pushing" \/ item[j] = "pushing"
    <3>1. \A j \in Items : Moves(j)
      BY NextMoves
    <3>2. CASE \E i \in Items : Release(i)
      <4>1. \E k : item' = [item EXCEPT ![k] = "done"]
        BY <3>2 DEF Release
      <4> QED
        BY <1>1, <4>1
    <3>3. CASE ~\E i \in Items : Release(i)
      <4>1. \/ item' = WithDrained
            \/ \E i \in Items, s \in {"again", "done"} :
                 item' = [WithDrained EXCEPT ![i] = s]
        BY <1>4, <3>3 DEF DrainByItem, DrainByZipped, DrainByChild
      <4>2. \A j \in Items : item'[j] \in {"again", "done", "drained", item[j]}
        BY <4>1 DEF WithDrained
      <4> QED
        BY <4>2
    <3> QED
      BY <3>2, <3>3
  <2> QED
    BY <1>3, <2>1, <2>2, <2>3
<1>5. ASSUME \/ StartNext \/ OuterStop \/ UNCHANGED vars
             \/ \E i \in Items :
                  \/ StartItem(i) \/ RefuseItem(i) \/ ItemFails(i) \/ ItemThrows(i)
                  \/ RefuseAgain(i) \/ CompleteDrained(i)
             \/ \E o \in Items : ZippedValue(o) \/ ZippedStopped(o)
             \/ \E c \in Children : ChildEnds(c) \/ ChildRequestStop(c) \/ Deliver(c)
      PROVE  CallInv'
  <2>1. CASE \E o \in Items : ZippedValue(o) \/ ZippedStopped(o)
    <3>1. PICK o \in Items : ZippedValue(o) \/ ZippedStopped(o)
      BY <2>1
    <3>2. /\ zip[o] = "running" /\ \E s : zip' = [zip EXCEPT ![o] = s]
          /\ UNCHANGED <<item, on, pc, tuple>>
      BY <3>1 DEF ZippedValue, ZippedStopped
    <3> QED
      BY <1>1, <1>3, <3>2
  <2>2. CASE ~\E o \in Items : ZippedValue(o) \/ ZippedStopped(o)
    <3>1. /\ UNCHANGED <<on, pc, tuple, zip>>
          /\ \/ UNCHANGED item
             \/ \E i \in Items, s \in {"running", "done", "draining", "throwing", "twice"} :
                  item' = [item EXCEPT ![i] = s]
      BY <1>5, <2>2
      DEF StartNext, OuterStop, vars, StartItem, RefuseItem, ItemFails, ItemThrows,
          RefuseAgain, CompleteDrained, ChildEnds, ChildRequestStop, Deliver
    <3>2. \A j \in Items : item'[j] # "pushing" \/ item[j] = "pushing"
      BY <1>1, <3>1
    <3> QED
      BY <1>3, <3>1, <3>2
  <2> QED
    BY <2>1, <2>2
<1>6. ASSUME NEW i \in Items, AcceptItem(i) PROVE CallInv'
  <2>1. /\ item[i] = "running"
        /\ item' = [item EXCEPT ![i] = "pushing"]
        /\ pc' = [pc EXCEPT ![i] = "push"]
        /\ UNCHANGED <<on, tuple, zip>>
    BY <1>6 DEF AcceptItem
  <2> QED
    BY <1>1, <2>1 DEF CallInv
<1>7. ASSUME NEW i \in Items, Push(i) PROVE CallInv'
  <2>1. /\ pc[i] = "push" /\ item[i] = "pushing"
        /\ item' = [item EXCEPT ![i] = "queued"]
        /\ pc' = [pc EXCEPT ![i] = "notify"]
        /\ UNCHANGED <<on, tuple, zip>>
    BY <1>1, <1>7 DEF Push
  <2> QED
    BY <1>1, <2>1 DEF CallInv
<1>8. ASSUME NEW t \in Items, Notify(t) \/ Collect(t) PROVE CallInv'
  <2>1. /\ pc[t] \in {"notify", "collect"}
        /\ \E s \in {"none", "collect", "pop", "null_front"} : pc' = [pc EXCEPT ![t] = s]
        /\ UNCHANGED <<on, tuple, zip, item>>
    BY <1>8 DEF Notify, Collect
  <2> QED
    BY <1>1, <2>1 DEF CallInv
<1>9. ASSUME NEW t \in Items, Pop(t) PROVE CallInv'
  <2>1. pc[t] = "pop" /\ on[t] = t /\ UNCHANGED <<on, zip>>
    BY <1>1, <1>9 DEF Pop, CallInv
  <2>2. item[t] \notin {"idle", "running", "pushing"}
    BY <1>1, <2>1 DEF CallInv
  <2>3. CASE AllFronts
    <3>1. /\ tuple' = [tuple EXCEPT ![t] = Fronts] /\ Fronts # NoTuple
          /\ pc' = [pc EXCEPT ![t] = "test_stop"]
          /\ \A j \in Items : item'[j] \in {item[j], "zipped"}
      BY <1>9, <2>1, <2>3, FrontsTyped DEF Pop
    <3> QED
      BY <1>1, <2>1, <2>2, <3>1 DEF CallInv
  <2>4. CASE ~AllFronts
    <3>1. UNCHANGED <<item, tuple>> /\ pc' = [pc EXCEPT ![t] = "null_front"]
      BY <1>9, <2>4 DEF Pop
    <3> QED
      BY <1>1, <2>1, <3>1 DEF CallInv
  <2> QED
    BY <2>3, <2>4
<1>10. ASSUME NEW t \in Items,
              TestStop(t) \/ Count(t) \/ StartZipped(t) \/ ZippedThrows(t)
       PROVE  CallInv'
  <2>1. /\ pc[t] \in {"test_stop", "count", "start"} /\ on[t] = t
        /\ UNCHANGED <<item, on, tuple>>
        /\ HandlesRow(t, Len(zipped))
    BY <1>1, <1>10
    DEF TestStop, Count, StartZipped, ZippedThrows, CallInv, LockInv, PlacedInv
  <2>2. tuple[t] # NoTuple /\ item[t] \notin {"idle", "running", "pushing"}
    <3>1. Children # {}
      BY BoundAssumption DEF Children
    <3>2. DOMAIN tuple[t] = Children /\ DOMAIN NoTuple = {}
      BY <2>1 DEF HandlesRow, Row, NoTuple
    <3> QED
      BY <1>1, <2>1, <3>1, <3>2 DEF CallInv
  <2>3. /\ \/ pc' = [pc EXCEPT ![t] = "none"]
           \/ /\ zip' = zip
              /\ \E s \in {"count", "start"} : pc' = [pc EXCEPT ![t] = s]
        /\ \E s \in ZipStates : zip' = [zip EXCEPT ![t] = s]
    <3>1. CASE TestStop(t)
      BY <1>1, <2>1, <3>1 DEF TestStop, ZipStates
    <3>2. CASE Count(t)
      <4>1. NonEmpty = {}
        BY <2>1, HandledQueues DEF NonEmpty, LockInv
      <4>2. Cardinality({c \in Children : queue[c] # <<>>}) = 0
        BY <4>1, FS_EmptySet DEF NonEmpty
      <4>3. N # 0
        BY BoundAssumption
      <4>4. pc' = [pc EXCEPT ![t] = "start"] /\ zip' = zip
        BY <3>2, <4>2, <4>3 DEF Count
      <4> QED
        BY <1>1, <4>4
    <3>3. CASE StartZipped(t) \/ ZippedThrows(t)
      BY <1>1, <2>1, <3>3 DEF StartZipped, ZippedThrows, ZipStates, CallInv
    <3> QED
      BY <1>10, <3>1, <3>2, <3>3
  <2>4. /\ \A j \in Items : j # t => pc'[j] = pc[j] /\ zip'[j] = zip[j]
        /\ pc'[t] = "none" \/ (pc'[t] \in {"count", "start"} /\ zip'[t] = zip[t])
    BY <1>1, <2>3
  <2> QED
    BY <1>1, <2>1, <2>2, <2>4 DEF CallInv
<1>11. ASSUME NEW t \in Items, NotifyNext(t) PROVE FALSE
  BY <1>1, <1>11 DEF NotifyNext, CallInv
<1> QED
  BY <1>4, <1>5, <1>6, <1>7, <1>8, <1>9, <1>10, <1>11
  DEF Next, ItemStep, ZippedStep, ChildStep, Terminated

(* The items of a tuple are those of a row.                                *)
LEMMA TupleRow ==
  ASSUME RowsInv, NEW i \in Items, tuple[i] # NoTuple
  PROVE  \E m \in 1..K : tuple[i] = Row(m) /\ \A c \in Children : tuple[i][c] = <<c, m>>
BY DEF RowsInv, Row

(* A row is a tuple.                                                       *)
LEMMA RowIsNotEmpty == \A m : Row(m) # NoTuple
<1>1. Children # {}
  BY BoundAssumption DEF Children
<1>2. \A m : DOMAIN Row(m) = Children /\ DOMAIN NoTuple = {}
  BY DEF Row, NoTuple
<1> QED
  BY <1>1, <1>2

(* The item that completes when a tuple is released.                       *)
LEMMA Released ==
  ASSUME LockStep, NEW o \in Items, Release(o)
  PROVE  \E c \in Children, m \in 1..K :
           /\ tuple[o] = Row(m) /\ <<c, m>> \in Items
           /\ item[<<c, m>>] = "zipped"
           /\ item' = [item EXCEPT ![<<c, m>>] = "done"]
           /\ zip' = [zip EXCEPT ![o] = IF c = N THEN "done" ELSE @]
<1>1. zip[o] = "releasing"
  BY DEF Release
<1>2. tuple[o] # NoTuple
  BY <1>1 DEF LockStep, LockInv, CallInv
<1>3. PICK m \in 1..K : tuple[o] = Row(m) /\ \A c \in Children : tuple[o][c] = <<c, m>>
  BY <1>2, TupleRow DEF LockStep, LockInv
<1>4. PICK c \in Children :
        /\ item[tuple[o][c]] = "zipped"
        /\ item' = [item EXCEPT ![tuple[o][c]] = "done"]
        /\ zip' = [zip EXCEPT ![o] = IF c = N THEN "done" ELSE @]
  BY DEF Release
<1>5. <<c, m>> \in Items
  BY <1>3 DEF Items
<1> QED
  BY <1>3, <1>4, <1>5

(* An item that its child will produce next was that before, unless the    *)
(* item before it has just completed with its tuple.                       *)
LEMMA ComingKept ==
  ASSUME LockStep, UNCHANGED <<pushed, zipped>>, NEW i \in Items, Coming(i)'
  PROVE  i[2] = Len(zipped) + 1 /\ Len(pushed[ChildOf(i)]) = Len(zipped)
<1> DEFINE z == Len(zipped)
<1>1. ChildOf(i) \in Children /\ z \in Nat /\ i[2] \in 1..K
  BY ItemChild, ItemOrder DEF LockStep, TypeOK
<1>2. ~Dead(ChildOf(i)) /\ ~Dead(ChildOf(i))'
  BY <1>1, DeadStays DEF Coming
<1>3. \A j \in Items : Moves(j)
  BY NextMoves DEF LockStep
<1>4. item[i] \in {"idle", "running", "pushing"}
  BY <1>3 DEF Coming, Moves, Completed
<1>5. CASE \A j \in Items : Earlier(j, i) => item[j] \in Completed
  BY <1>2, <1>4, <1>5 DEF Coming, LockStep, LockInv, PlacedInv
<1>6. CASE \E j \in Items : Earlier(j, i) /\ item[j] \notin Completed
  <2>1. PICK j \in Items : Earlier(j, i) /\ item[j] \notin Completed
    BY <1>6
  <2>2. item'[j] \in Completed /\ ChildOf(j) = ChildOf(i)
    BY <2>1 DEF Coming, Earlier
  <2>3. j \notin stopped'
    BY <1>2, <2>2 DEF Dead
  <2>4. ~stop
    BY <1>3, <2>1, <2>2, <2>3 DEF Moves
  <2>5. item[j] \notin {"drained", "draining", "throwing", "again", "twice"}
    BY <2>4 DEF LockStep, LockInv, StopInv
  <2>6. PICK o \in Items : Release(o)
    BY <1>3, <2>1, <2>2, <2>4, <2>5 DEF Moves, Completed
  <2>7. PICK c \in Children, m \in 1..K :
           /\ tuple[o] = Row(m) /\ <<c, m>> \in Items
           /\ item[<<c, m>>] = "zipped"
           /\ item' = [item EXCEPT ![<<c, m>>] = "done"]
    BY <2>6, Released
  <2>8. j = <<c, m>>
    BY <2>1, <2>2, <2>7 DEF LockStep, TypeOK
  <2>9. ~stop' /\ zip[o] = "releasing"
    BY <2>4, <2>6 DEF Release
  <2>10. ZipsRow(o, z)
    BY <2>4, <2>9 DEF LockStep, LockInv, PlacedInv
  <2>11. <<c, m>> = <<c, z>> /\ Len(pushed[c]) = z
    <3>1. Row(m)[c] = <<c, m>> /\ Row(z)[c] = <<c, z>>
      BY DEF Row
    <3>2. Row(m)[c] = Row(z)[c]
      BY <2>7, <2>10 DEF ZipsRow
    <3> QED
      BY <2>7, <2>10, <3>1, <3>2 DEF ZipsRow
  <2>12. j = <<c, z>> /\ ChildOf(i) = c /\ i[2] > z /\ z \in 1..K
    BY <1>1, <2>1, <2>2, <2>7, <2>8, <2>11, ItemOrder DEF Earlier, ChildOf
  <2>13. i[2] = z + 1
    <3> SUFFICES ASSUME i[2] > z + 1 PROVE FALSE
      BY <1>1, <2>12
    <3>0. z + 1 \in 1..K
      BY <1>1, BoundAssumption
    <3>1. <<c, z + 1>> \in Items
      BY <1>1, <2>7, <3>0 DEF Items
    <3>2. Earlier(<<c, z + 1>>, i) /\ Earlier(j, <<c, z + 1>>)
      BY <1>1, <2>12 DEF Earlier, ChildOf
    <3>3. item'[<<c, z + 1>>] \in Completed
      BY <3>1, <3>2 DEF Coming
    <3>4. <<c, z + 1>> # <<c, m>>
      BY <2>8, <2>12
    <3>5. item'[<<c, z + 1>>] = item[<<c, z + 1>>]
      BY <2>7, <3>1, <3>4 DEF LockStep, TypeOK
    <3>6. item[<<c, z + 1>>] # "idle"
      BY <3>3, <3>5 DEF Completed
    <3>7. item[j] \in Completed
      BY <3>1, <3>2, <3>6 DEF LockStep, LockInv, OrderInv
    <3> QED
      BY <2>1, <3>7
  <2> QED
    BY <2>11, <2>12, <2>13
<1> QED
  BY <1>5, <1>6

(* A call keeps the tuple that it handles, and a zipped operation its own, *)
(* while no item of it completes and no item is pushed.                    *)
LEMMA RowsUnmoved ==
  ASSUME LockStep, UNCHANGED <<pushed, zipped, tuple>>,
         \A i \in Items :
           /\ item'[i] = "zipped" <=> item[i] = "zipped"
           /\ item'[i] = "queued" => item[i] = "queued"
           /\ tuple[i] # NoTuple => collected'[i] = collected[i]
           /\ pc'[i] = "pop" => collected'[i] = Row(Len(zipped) + 1)
           /\ pc'[i] \in {"test_stop", "count", "start"} =>
                pc[i] \in {"test_stop", "count", "start"}
           /\ ~stop' /\ zip'[i] \in {"running", "releasing"} =>
                zip[i] \in {"running", "releasing"}
  PROVE  RowsInv' /\ PlacedInv(Len(zipped))'
<1>2. /\ \A i \in Items : item[i] = "zipped" <=> item'[i] = "zipped"
      /\ \A i \in Items : item'[i] = "queued" => item[i] = "queued"
  OBVIOUS
<1>3. RowsInv'
  BY DEF LockStep, LockInv, RowsInv
<1>4. \A i \in Items : ChildOf(i) \in Children
  BY ItemChild
<1>5. \A i \in Items : tuple[i] # NoTuple => \A c \in Children : tuple[i][c] \in Items
  BY TupleItems DEF LockStep
<1>6. stop => stop'
  BY StopStays DEF LockStep
<1>7. ASSUME NEW i \in Items, Coming(i)'
      PROVE  i[2] = Len(zipped) + 1 /\ Len(pushed[ChildOf(i)]) = Len(zipped)
  BY <1>7, ComingKept
<1>8. ASSUME NEW i \in Items, pc'[i] \in {"test_stop", "count", "start"}
      PROVE  HandlesRow(i, Len(zipped))'
  <2>1. HandlesRow(i, Len(zipped))
    BY <1>8 DEF LockStep, LockInv, PlacedInv
  <2>2. tuple[i] # NoTuple
    BY <2>1, RowIsNotEmpty DEF HandlesRow
  <2> QED
    BY <1>2, <1>5, <2>1, <2>2 DEF HandlesRow, Row
<1>9. ASSUME NEW i \in Items, ~stop', zip'[i] \in {"running", "releasing"}
      PROVE  ZipsRow(i, Len(zipped))'
  <2>1. ZipsRow(i, Len(zipped))
    BY <1>6, <1>9 DEF LockStep, LockInv, PlacedInv
  <2>2. tuple[i] # NoTuple /\ N \in Children
    BY <2>1, RowIsNotEmpty, BoundAssumption DEF ZipsRow, Children
  <2> QED
    BY <1>2, <1>5, <2>1, <2>2 DEF ZipsRow, Row
<1> QED
  BY <1>2, <1>3, <1>7, <1>8, <1>9 DEF LockStep, LockInv, PlacedInv

(* What a child pushes is the item of the next row.                        *)
LEMMA PushRows ==
  ASSUME LockStep, NEW i \in Items, Push(i)
  PROVE  RowsInv' /\ PlacedInv(Len(zipped))'
<1> DEFINE z == Len(zipped)
<1> DEFINE c == ChildOf(i)
<1>1. c \in Children /\ z \in Nat /\ i = <<c, i[2]>>
  BY ItemChild, ItemOrder DEF LockStep, TypeOK
<1>2. /\ pc[i] = "push" /\ item[i] = "pushing"
      /\ item' = [item EXCEPT ![i] = "queued"]
      /\ pc' = [pc EXCEPT ![i] = "notify"]
      /\ pushed' = [pushed EXCEPT ![c] = Append(pushed[c], i)]
      /\ UNCHANGED <<stopped, stop, collected, tuple, zip, zipped>>
  BY DEF Push, LockStep, PlaceInv
<1>3. \A j \in Items : Earlier(j, i) => item[j] \in Completed
  BY <1>2 DEF LockStep, LockInv, OrderInv
<1>4. \A j \in Items : Earlier(i, j) => item[j] = "idle"
  BY <1>2 DEF LockStep, LockInv, OrderInv, Completed
<1>5. ~Dead(c)
  BY <1>2, DeadItems DEF LockStep, LockInv, Completed
<1>6. Coming(i)
  BY <1>2, <1>3, <1>5 DEF Coming
<1>7. i = <<c, z + 1>> /\ Len(pushed[c]) = z
  BY <1>1, <1>6 DEF LockStep, LockInv, PlacedInv
<1>8. /\ pushed[c] \in Seq(Items) /\ pushed'[c] = Append(pushed[c], i)
      /\ \A d \in Children : d # c => pushed'[d] = pushed[d]
  BY <1>1, <1>2 DEF LockStep, TypeOK
<1>9. Len(pushed'[c]) = z + 1 /\ \A m \in 1..(z + 1) : pushed'[c][m] = <<c, m>>
  BY <1>1, <1>7, <1>8 DEF LockStep, LockInv, RowsInv
<1>10. RowsInv'
  <2>1. ASSUME NEW d \in Children
        PROVE  /\ Len(pushed'[d]) \in {z, z + 1}
               /\ \A m \in 1..Len(pushed'[d]) : pushed'[d][m] = <<d, m>>
    BY <1>8, <1>9 DEF LockStep, LockInv, RowsInv
  <2> QED
    BY <1>2, <2>1 DEF LockStep, LockInv, RowsInv
<1>11. /\ item'[i] = "queued" /\ pc'[i] = "notify"
       /\ \A j \in Items : j # i => item'[j] = item[j] /\ pc'[j] = pc[j]
  BY <1>2 DEF LockStep, TypeOK
<1>12. ASSUME NEW j \in Items, Coming(j)'
       PROVE  j[2] = z + 1 /\ Len(pushed'[ChildOf(j)]) = z
  <2>1. j # i /\ item[j] \in {"idle", "running", "pushing"}
    BY <1>11, <1>12 DEF Coming
  <2>2. ChildOf(j) # c
    <3>1. ~Earlier(i, j)
      BY <1>11, <1>12 DEF Coming, Completed
    <3>2. ~Earlier(j, i)
      BY <1>3, <2>1 DEF Completed
    <3> QED
      BY <2>1, <3>1, <3>2, ItemOrder
  <2>3. ~Dead(ChildOf(j))
    BY <1>12, DeadStays, ItemChild DEF Coming
  <2>4. \A k \in Items : Earlier(k, j) => item[k] \in Completed
    BY <1>11, <1>12, <2>2 DEF Coming, Earlier
  <2>5. Coming(j)
    BY <2>1, <2>3, <2>4 DEF Coming
  <2> QED
    BY <1>8, <2>2, <2>5, ItemChild DEF LockStep, LockInv, PlacedInv
<1>13. ASSUME NEW j \in Items, item'[j] = "queued"
       PROVE  j[2] = z + 1 /\ Len(pushed'[ChildOf(j)]) = z + 1
  <2>1. CASE j = i
    BY <1>7, <1>9, <2>1
  <2>2. CASE j # i
    <3>1. item[j] = "queued"
      BY <1>11, <1>13, <2>2
    <3>2. ChildOf(j) # c
      BY <1>3, <1>4, <2>2, <3>1, ItemOrder DEF Completed
    <3> QED
      BY <1>8, <3>1, <3>2, ItemChild DEF LockStep, LockInv, PlacedInv
  <2> QED
    BY <2>1, <2>2
<1>14. ASSUME NEW j \in Items, pc'[j] \in {"test_stop", "count", "start"}
       PROVE  FALSE
  <2>1. HandlesRow(j, z)
    BY <1>11, <1>14 DEF LockStep, LockInv, PlacedInv
  <2> QED
    BY <1>1, <1>7, <2>1 DEF HandlesRow
<1>15. ASSUME NEW o \in Items, ~stop', zip'[o] \in {"running", "releasing"}
       PROVE  ZipsRow(o, z)'
  <2>1. ZipsRow(o, z)
    BY <1>2, <1>15 DEF LockStep, LockInv, PlacedInv
  <2>2. tuple[o] # NoTuple /\ N \in Children
    BY <2>1, RowIsNotEmpty, BoundAssumption DEF ZipsRow, Children
  <2>3. \A d \in Children : tuple[o][d] = <<d, z>> /\ tuple[o][d] \in Items
    BY <2>1, <2>2, TupleItems DEF ZipsRow, Row, LockStep
  <2>4. \A d \in Children : tuple[o][d] # i /\ item'[tuple[o][d]] = item[tuple[o][d]]
    BY <1>1, <1>7, <1>11, <2>3
  <2>5. item[tuple[o][c]] # "zipped"
    <3>1. Earlier(tuple[o][c], i)
      BY <1>1, <1>7, <2>3 DEF Earlier, ChildOf
    <3> QED
      BY <1>1, <1>3, <2>3, <3>1 DEF Completed
  <2>6. item'[tuple'[o][N]] = "zipped" /\ tuple'[o] = Row(z)
    BY <1>2, <2>1, <2>2, <2>4 DEF ZipsRow
  <2>7. ASSUME NEW d \in Children, item'[tuple'[o][d]] = "zipped"
        PROVE  Len(pushed'[d]) = z
    BY <1>2, <1>8, <2>1, <2>4, <2>5, <2>7 DEF ZipsRow
  <2> QED
    BY <1>2, <2>6, <2>7 DEF ZipsRow
<1>16. \A j \in Items : pc'[j] = "pop" => collected'[j] = Row(z + 1)
  BY <1>2, <1>11 DEF LockStep, LockInv, PlacedInv
<1> QED
  BY <1>2, <1>10, <1>12, <1>13, <1>14, <1>15, <1>16 DEF PlacedInv

(* The fronts are the items of the next row.                               *)
LEMMA FrontsAre ==
  ASSUME LockStep, AllFronts
  PROVE  /\ Fronts = Row(Len(zipped) + 1)
         /\ Len(zipped) + 1 \in 1..K
         /\ \A c \in Children : Len(pushed[c]) = Len(zipped) + 1
<1>1. \A c \in Children :
        /\ Head(queue[c]) = <<c, Len(zipped) + 1>> /\ Head(queue[c]) \in Items
        /\ Len(pushed[c]) = Len(zipped) + 1
  BY FrontIs DEF AllFronts, LockStep, LockInv
<1>2. N \in Children
  BY BoundAssumption DEF Children
<1> QED
  BY <1>1, <1>2 DEF Fronts, Row, Items

(* The tuple that is popped is the next row.                               *)
LEMMA PopRows ==
  ASSUME LockStep, NEW t \in Items, Pop(t), AllFronts
  PROVE  RowsInv' /\ PlacedInv(Len(zipped))'
<1> DEFINE z == Len(zipped)
<1>1. /\ pc[t] = "pop" /\ on[t] = t /\ z \in Nat /\ collected[t] = Row(z + 1)
      /\ zip[t] = "none"
  BY DEF Pop, LockStep, LockInv, CallInv, TypeOK, PlacedInv
<1>2. /\ tuple' = [tuple EXCEPT ![t] = Row(z + 1)]
      /\ \A j \in Items : item'[j] = IF j[2] = z + 1 THEN "zipped" ELSE item[j]
      /\ pc' = [pc EXCEPT ![t] = "test_stop"]
      /\ UNCHANGED <<stopped, stop, collected, zip, pushed, zipped>>
  BY <1>1, FrontsAre, ItemChild, ItemOrder DEF Pop, Row
<1>3. \A c \in Children : Len(pushed[c]) = z + 1 /\ <<c, z + 1>> \in Items
  BY FrontsAre DEF Items
<1>4. RowsInv'
  <2>1. \A i \in Items : tuple'[i] # NoTuple =>
          tuple'[i] = collected'[i] /\ \E m \in 1..K : tuple'[i] = Row(m)
    BY <1>1, <1>2, FrontsAre DEF LockStep, LockInv, RowsInv, TypeOK
  <2> QED
    BY <1>2, <2>1 DEF LockStep, LockInv, RowsInv
<1>5. ASSUME NEW i \in Items, Coming(i)'
      PROVE  i[2] = z + 1 /\ Len(pushed[ChildOf(i)]) = z
  BY <1>2, <1>5, ComingKept
<1>6. \A i \in Items : item'[i] = "queued" => i[2] = z + 1 /\ Len(pushed[ChildOf(i)]) = z + 1
  BY <1>2 DEF LockStep, LockInv, PlacedInv
<1>7. \A i \in Items : pc'[i] = "pop" => collected'[i] = Row(z + 1)
  BY <1>2 DEF LockStep, LockInv, PlacedInv, TypeOK
<1>8. ASSUME NEW j \in Items, pc'[j] \in {"test_stop", "count", "start"}
      PROVE  HandlesRow(j, z)'
  <2>1. j = t
    <3>1. j # t => pc[j] \in {"test_stop", "count", "start"}
      BY <1>2, <1>8 DEF LockStep, TypeOK
    <3> QED
      BY <1>1, <3>1 DEF LockStep, LockInv, HandInv, Handling
  <2>2. tuple'[t] = Row(z + 1)
    BY <1>2 DEF LockStep, TypeOK
  <2>3. \A c \in Children : Row(z + 1)[c] = <<c, z + 1>>
    BY DEF Row
  <2> QED
    BY <1>2, <1>3, <2>1, <2>2, <2>3 DEF HandlesRow, Row
<1>9. ASSUME NEW o \in Items, ~stop', zip'[o] \in {"running", "releasing"}
      PROVE  FALSE
  <2>1. ZipsRow(o, z) /\ N \in Children
    BY <1>2, <1>9, BoundAssumption DEF LockStep, LockInv, PlacedInv, Children
  <2>2. Len(pushed[N]) = z /\ Len(pushed[N]) = z + 1
    BY <1>3, <2>1 DEF ZipsRow
  <2> QED
    BY <1>1, <2>2
<1> QED
  BY <1>2, <1>4, <1>5, <1>6, <1>7, <1>8, <1>9 DEF PlacedInv

(* The items of a tuple complete, and those of other tuples stay.          *)
LEMMA ReleaseRows ==
  ASSUME LockStep, NEW o \in Items, Release(o)
  PROVE  RowsInv' /\ PlacedInv(Len(zipped))'
<1> DEFINE z == Len(zipped)
<1>1. PICK c \in Children, m \in 1..K :
         /\ tuple[o] = Row(m) /\ <<c, m>> \in Items
         /\ item[<<c, m>>] = "zipped"
         /\ item' = [item EXCEPT ![<<c, m>>] = "done"]
         /\ zip' = [zip EXCEPT ![o] = IF c = N THEN "done" ELSE @]
  BY Released
<1>2. /\ zip[o] = "releasing" /\ tuple[o] # NoTuple
      /\ UNCHANGED <<stop, pc, collected, tuple, pushed, zipped>>
  BY DEF Release, LockStep, LockInv, CallInv
<1>3. RowsInv'
  BY <1>2 DEF LockStep, LockInv, RowsInv
<1>4. ASSUME NEW i \in Items, Coming(i)'
      PROVE  i[2] = z + 1 /\ Len(pushed[ChildOf(i)]) = z
  BY <1>2, <1>4, ComingKept
<1>5. \A i \in Items : item'[i] \in {item[i], "done"} /\ (i # <<c, m>> => item'[i] = item[i])
  BY <1>1 DEF LockStep, TypeOK
<1>6. \A i \in Items : i # o /\ tuple[i] # NoTuple => tuple[i][c] # <<c, m>>
  BY <1>1, <1>2 DEF LockStep, PlaceInv, Row
<1>7. ASSUME NEW j \in Items, pc'[j] \in {"test_stop", "count", "start"}
      PROVE  HandlesRow(j, z)'
  <2>1. HandlesRow(j, z) /\ zip[j] = "none"
    BY <1>2, <1>7 DEF LockStep, LockInv, PlacedInv, CallInv
  <2>2. j # o /\ tuple[j] # NoTuple
    BY <1>2, <2>1, RowIsNotEmpty DEF HandlesRow
  <2>3. \A d \in Children : tuple[j][d] = <<d, z + 1>> /\ tuple[j][d] \in Items
    BY <2>1, <2>2, TupleItems DEF HandlesRow, Row, LockStep
  <2>4. \A d \in Children : tuple[j][d] # <<c, m>>
    BY <1>6, <2>2, <2>3
  <2> QED
    BY <1>2, <1>5, <2>1, <2>3, <2>4 DEF HandlesRow, Row
<1>8. ASSUME NEW j \in Items, ~stop', zip'[j] \in {"running", "releasing"}
      PROVE  ZipsRow(j, z)'
  <2>1. zip[j] \in {"running", "releasing"} /\ (j = o => c # N)
    BY <1>1, <1>8 DEF LockStep, TypeOK
  <2>2. ZipsRow(j, z) /\ N \in Children
    BY <1>2, <1>8, <2>1, BoundAssumption DEF LockStep, LockInv, PlacedInv, Children
  <2>3. tuple[j] # NoTuple
    BY <2>2, RowIsNotEmpty DEF ZipsRow
  <2>4. \A d \in Children : tuple[j][d] = <<d, z>> /\ tuple[j][d] \in Items
    BY <2>2, <2>3, TupleItems DEF ZipsRow, Row, LockStep
  <2>5. tuple[j][N] # <<c, m>>
    BY <1>6, <2>1, <2>2, <2>3, <2>4
  <2> QED
    BY <1>2, <1>5, <2>2, <2>4, <2>5 DEF ZipsRow, Row
<1>9. \A i \in Items : item'[i] = "queued" => item[i] = "queued"
  BY <1>5
<1> QED
  BY <1>2, <1>3, <1>4, <1>7, <1>8, <1>9 DEF LockStep, LockInv, PlacedInv

(* The zipped operation of the next row starts.                            *)
LEMMA StartZippedRows ==
  ASSUME LockStep, NEW t \in Items, StartZipped(t)
  PROVE  RowsInv' /\ PlacedInv(Len(zipped))'
<1> DEFINE z == Len(zipped)
<1>1. /\ pc[t] = "start" /\ on[t] = t /\ z \in Nat /\ zipped \in Seq(Tuples \union {NoTuple})
      /\ HandlesRow(t, z)
  BY DEF StartZipped, LockStep, LockInv, CallInv, TypeOK, PlacedInv
<1>2. collected[t] = Row(z + 1) /\ tuple[t] = Row(z + 1)
  BY <1>1, RowIsNotEmpty DEF HandlesRow, LockStep, LockInv, RowsInv
<1>3. /\ zipped' = Append(zipped, Row(z + 1))
      /\ zip' = [zip EXCEPT ![t] = "running"]
      /\ pc' = [pc EXCEPT ![t] = "none"]
      /\ UNCHANGED <<item, stopped, stop, collected, tuple, pushed>>
  BY <1>1, <1>2 DEF StartZipped
<1>4. collected[t] \in Tuples \union {NoTuple}
  BY DEF LockStep, TypeOK
<1>5. /\ Len(zipped') = z + 1 /\ zipped'[z + 1] = Row(z + 1)
      /\ \A m \in 1..z : zipped'[m] = zipped[m]
  BY <1>1, <1>2, <1>3, <1>4
<1>6. \A c \in Children : item[<<c, z + 1>>] = "zipped" /\ Len(pushed[c]) = z + 1
  BY <1>1 DEF HandlesRow, Row
<1>7. RowsInv'
  <2>1. \A m \in 1..Len(zipped') : zipped'[m] = Row(m)
    BY <1>1, <1>5 DEF LockStep, LockInv, RowsInv
  <2>2. \A c \in Children : Len(pushed'[c]) \in {Len(zipped'), Len(zipped') + 1}
    BY <1>3, <1>5, <1>6
  <2> QED
    BY <1>3, <2>1, <2>2 DEF LockStep, LockInv, RowsInv
<1>8. \A i \in Items : ~Coming(i)'
  <2> SUFFICES ASSUME NEW i \in Items, Coming(i)' PROVE FALSE
    OBVIOUS
  <2>1. Coming(i)
    BY <1>3 DEF Coming, Dead
  <2>2. Len(pushed[ChildOf(i)]) = z /\ Len(pushed[ChildOf(i)]) = z + 1
    BY <1>6, <2>1, ItemChild DEF LockStep, LockInv, PlacedInv
  <2> QED
    BY <1>1, <2>2
<1>9. \A i \in Items : item[i] # "queued"
  BY <1>6, ItemChild, ItemOrder DEF LockStep, LockInv, PlacedInv
<1>10. \A i \in Items : pc'[i] \notin {"pop", "test_stop", "count", "start"}
  <2> SUFFICES ASSUME NEW i \in Items, i # t, pc[i] \in {"pop", "test_stop", "count", "start"}
               PROVE  FALSE
    BY <1>3 DEF LockStep, TypeOK
  <2> QED
    BY <1>1 DEF LockStep, LockInv, HandInv, Handling
<1>11. ASSUME NEW o \in Items, ~stop', zip'[o] \in {"running", "releasing"}
       PROVE  ZipsRow(o, Len(zipped))'
  <2>1. CASE o = t
    <3>0. tuple'[o] = Row(z + 1) /\ \A c \in Children : Row(z + 1)[c] = <<c, z + 1>>
      BY <1>2, <1>3, <2>1 DEF Row
    <3>1. tuple'[o] = Row(Len(zipped')) /\ \A c \in Children : tuple'[o][c] = <<c, z + 1>>
      BY <1>5, <3>0, Zenon
    <3>2. /\ \A c \in Children : item'[tuple'[o][c]] = "zipped"
          /\ \A c \in Children : Len(pushed'[c]) = Len(zipped')
      BY <1>3, <1>5, <1>6, <3>1
    <3>3. N \in Children
      BY BoundAssumption DEF Children
    <3> QED
      BY <3>1, <3>2, <3>3 DEF ZipsRow
  <2>2. CASE o # t
    <3>1. ZipsRow(o, z) /\ N \in Children
      BY <1>3, <1>11, <2>2, BoundAssumption DEF LockStep, LockInv, PlacedInv, TypeOK, Children
    <3>2. Len(pushed[N]) = z /\ Len(pushed[N]) = z + 1
      BY <1>6, <3>1 DEF ZipsRow
    <3> QED
      BY <1>1, <3>2
  <2> QED
    BY <2>1, <2>2
<1> QED
  BY <1>3, <1>7, <1>8, <1>9, <1>10, <1>11 DEF PlacedInv

(* The steps that leave calls and tuples alone.                            *)
LEMMA ItemRows ==
  ASSUME LockStep,
         \/ StartNext \/ OuterStop \/ UNCHANGED vars
         \/ \E i \in Items :
              \/ StartItem(i) \/ RefuseItem(i) \/ AcceptItem(i) \/ ItemFails(i)
              \/ ItemThrows(i) \/ RefuseAgain(i) \/ CompleteDrained(i)
              \/ ZippedValue(i) \/ ZippedStopped(i)
         \/ \E c \in Children : ChildEnds(c) \/ ChildRequestStop(c) \/ Deliver(c)
  PROVE  RowsInv' /\ PlacedInv(Len(zipped))'
<1>1. UNCHANGED <<pushed, zipped, tuple, collected>>
  BY DEF StartNext, OuterStop, vars, StartItem, RefuseItem, AcceptItem, ItemFails,
         ItemThrows, RefuseAgain, CompleteDrained, ZippedValue, ZippedStopped,
         ChildEnds, ChildRequestStop, Deliver
<1>2. /\ item \in [Items -> ItemStates] /\ pc \in [Items -> PCs]
      /\ zip \in [Items -> ZipStates]
  BY DEF LockStep, TypeOK
<1>3. /\ \/ item' = item
         \/ \E i \in Items, s \in {"running", "pushing", "draining", "throwing", "done", "twice"} :
              /\ item[i] \notin {"zipped", "queued"}
              /\ item' = [item EXCEPT ![i] = s]
      /\ pc' = pc \/ \E i \in Items : pc' = [pc EXCEPT ![i] = "push"]
      /\ \/ zip' = zip
         \/ \E i \in Items : zip[i] = "running" /\ zip' = [zip EXCEPT ![i] = "releasing"]
         \/ \E i \in Items : zip' = [zip EXCEPT ![i] = "draining"]
  <2>1. CASE \E i \in Items : ZippedValue(i) \/ ZippedStopped(i)
    BY <2>1 DEF ZippedValue, ZippedStopped
  <2>2. CASE \E i \in Items :
               \/ StartItem(i) \/ RefuseItem(i) \/ AcceptItem(i) \/ ItemFails(i)
               \/ ItemThrows(i) \/ RefuseAgain(i) \/ CompleteDrained(i)
    BY <2>2 DEF StartItem, RefuseItem, AcceptItem, ItemFails, ItemThrows, RefuseAgain,
                CompleteDrained
  <2>3. CASE \/ StartNext \/ OuterStop \/ UNCHANGED vars
             \/ \E c \in Children : ChildEnds(c) \/ ChildRequestStop(c) \/ Deliver(c)
    BY <2>3 DEF StartNext, OuterStop, vars, ChildEnds, ChildRequestStop, Deliver
  <2> QED
    BY <2>1, <2>2, <2>3
<1>4. \A i \in Items :
        /\ item'[i] = "zipped" <=> item[i] = "zipped"
        /\ item'[i] = "queued" => item[i] = "queued"
  BY <1>2, <1>3
<1>5. \A i \in Items : pc'[i] \in {pc[i], "push"}
  BY <1>2, <1>3
<1>6. \A i \in Items : zip'[i] \in {"running", "releasing"} => zip[i] \in {"running", "releasing"}
  BY <1>2, <1>3
<1>7. \A i \in Items : pc'[i] = "pop" => collected'[i] = Row(Len(zipped) + 1)
  BY <1>1, <1>5 DEF LockStep, LockInv, PlacedInv
<1> QED
  BY <1>1, <1>4, <1>5, <1>6, <1>7, RowsUnmoved

(* The drains come after a stop request.                                   *)
LEMMA DrainStop ==
  ASSUME LockStep,
         \/ \E i \in Items : DrainByItem(i) \/ DrainByZipped(i)
         \/ \E c \in Children : DrainByChild(c)
  PROVE  /\ stop /\ stop'
         /\ UNCHANGED <<pc, on, collected, tuple, pushed, zipped>>
         /\ n_ready' = 0
         /\ \A c \in Children : queue'[c] = <<>>
         /\ \A i \in Items : item[i] = "queued" => item'[i] = "drained"
         /\ \A i \in Items : item'[i] = "zipped" <=> item[i] = "zipped"
         /\ \A i \in Items : item'[i] # "queued"
<1>1. /\ stop
      /\ UNCHANGED <<pc, on, collected, tuple, pushed, zipped, stop>>
      /\ n_ready' = 0
      /\ queue' = [c \in Children |-> <<>>]
  BY DEF DrainByItem, DrainByZipped, DrainByChild, Drain, LockStep, LockInv, StopInv
<1>2. \A i \in Items : WithDrained[i] = IF item[i] = "queued" THEN "drained" ELSE item[i]
  BY QueuedAre DEF WithDrained, LockStep
<1>3. \/ item' = WithDrained
      \/ \E i \in Items, s \in {"again", "done"} :
           /\ item[i] \in {"draining", "throwing"}
           /\ item' = [WithDrained EXCEPT ![i] = s]
  BY DEF DrainByItem, DrainByZipped, DrainByChild
<1>4. DOMAIN WithDrained = Items
  BY DEF WithDrained
<1> QED
  BY <1>1, <1>2, <1>3, <1>4

(* A drain leaves the rows alone.                                          *)
LEMMA DrainRows ==
  ASSUME LockStep,
         \/ \E i \in Items : DrainByItem(i) \/ DrainByZipped(i)
         \/ \E c \in Children : DrainByChild(c)
  PROVE  RowsInv' /\ PlacedInv(Len(zipped))'
<1>1. /\ stop'
      /\ UNCHANGED <<pc, collected, tuple, pushed, zipped>>
      /\ \A i \in Items : item'[i] = "zipped" <=> item[i] = "zipped"
      /\ \A i \in Items : item'[i] # "queued"
  BY DrainStop
<1>2. \A i \in Items : pc'[i] = "pop" => collected'[i] = Row(Len(zipped) + 1)
  BY <1>1 DEF LockStep, LockInv, PlacedInv
<1> QED
  BY <1>1, <1>2, RowsUnmoved

(* The steps of a call that do not pop or start.                           *)
LEMMA CallRows ==
  ASSUME LockStep, NEW t \in Items,
         \/ Notify(t) \/ Collect(t) \/ (Pop(t) /\ ~AllFronts) \/ TestStop(t) \/ Count(t)
         \/ ZippedThrows(t)
  PROVE  RowsInv' /\ PlacedInv(Len(zipped))'
<1>1. /\ on[t] = t /\ pc[t] \notin {"start_next"}
      /\ pc[t] = "collect" => tuple[t] = NoTuple
      /\ pc \in [Items -> PCs] /\ DOMAIN collected = Items /\ zip \in [Items -> ZipStates]
  BY DEF LockStep, LockInv, CallInv, TypeOK
<1>2. UNCHANGED <<pushed, zipped, tuple, item>>
  BY DEF Notify, Collect, Pop, TestStop, Count, ZippedThrows
<1>3. /\ \/ collected' = collected
         \/ pc[t] = "collect" /\ \E v : collected' = [collected EXCEPT ![t] = v]
      /\ \/ \E s \in {"none", "collect", "null_front"} : pc' = [pc EXCEPT ![t] = s]
         \/ AllFronts /\ Collect(t) /\ pc' = [pc EXCEPT ![t] = "pop"]
         \/ /\ pc[t] \in {"test_stop", "count"}
            /\ \E s \in {"count", "start", "start_next"} : pc' = [pc EXCEPT ![t] = s]
      /\ \/ zip' = zip
         \/ zip' = [zip EXCEPT ![t] = "draining"]
         \/ stop' /\ zip' = [zip EXCEPT ![t] = "releasing"]
  <2>1. CASE Notify(t)
    BY <1>1, <2>1 DEF Notify
  <2>2. CASE Collect(t)
    BY <1>1, <2>2 DEF Collect
  <2>3. CASE Pop(t) /\ ~AllFronts
    <3>1. pc' = [pc EXCEPT ![t] = "null_front"] /\ UNCHANGED <<collected, zip>>
      BY <2>3 DEF Pop
    <3> QED
      BY <3>1
  <2>4. CASE TestStop(t)
    BY <1>1, <2>4 DEF TestStop
  <2>5. CASE Count(t)
    BY <1>1, <2>5 DEF Count
  <2>6. CASE ZippedThrows(t)
    BY <1>1, <2>6 DEF ZippedThrows
  <2> QED
    BY <2>1, <2>2, <2>3, <2>4, <2>5, <2>6
<1>4. \A i \in Items : tuple[i] # NoTuple => collected'[i] = collected[i]
  BY <1>1, <1>3
<1>5. \A i \in Items : pc'[i] = "pop" => collected'[i] = Row(Len(zipped) + 1)
  <2>1. CASE AllFronts /\ Collect(t)
    <3>1. collected' = [collected EXCEPT ![t] = Row(Len(zipped) + 1)]
      BY <1>1, <2>1, FrontsAre DEF Collect
    <3>2. \A i \in Items : i # t => pc'[i] = pc[i]
      BY <1>1, <1>3
    <3> QED
      BY <1>1, <3>1, <3>2 DEF LockStep, LockInv, PlacedInv
  <2>2. CASE ~(AllFronts /\ Collect(t))
    <3>1. \A i \in Items : pc'[i] = "pop" => pc[i] = "pop" /\ i # t
      BY <1>1, <1>3, <2>2
    <3>2. \A i \in Items : i # t => collected'[i] = collected[i]
      BY <1>1, <1>3
    <3> QED
      BY <3>1, <3>2 DEF LockStep, LockInv, PlacedInv
  <2> QED
    BY <2>1, <2>2
<1>6. \A i \in Items : pc'[i] \in {"test_stop", "count", "start"} =>
                         pc[i] \in {"test_stop", "count", "start"}
  BY <1>1, <1>3
<1>7. \A i \in Items : ~stop' /\ zip'[i] \in {"running", "releasing"} =>
                         zip[i] \in {"running", "releasing"}
  BY <1>1, <1>3
<1> QED
  BY <1>2, <1>4, <1>5, <1>6, <1>7, RowsUnmoved

(* Every step keeps the rows.                                              *)
LEMMA RowsKept == LockStep => RowsInv' /\ PlacedInv(Len(zipped))'
<1> SUFFICES ASSUME LockStep PROVE RowsInv' /\ PlacedInv(Len(zipped))'
  OBVIOUS
<1>1. \A i \in Items : ~NotifyNext(i)
  BY DEF NotifyNext, LockStep, LockInv, CallInv
<1>2. ASSUME NEW i \in Items, ItemStep(i) PROVE RowsInv' /\ PlacedInv(Len(zipped))'
  <2>1. CASE Push(i)
    BY <2>1, PushRows
  <2>2. CASE Pop(i) /\ AllFronts
    BY <2>2, PopRows
  <2>3. CASE StartZipped(i)
    BY <2>3, StartZippedRows
  <2>4. CASE DrainByItem(i)
    BY <2>4, DrainRows
  <2>5. CASE \/ Notify(i) \/ Collect(i) \/ (Pop(i) /\ ~AllFronts) \/ TestStop(i) \/ Count(i)
             \/ ZippedThrows(i)
    BY <2>5, CallRows
  <2>6. CASE \/ RefuseItem(i) \/ AcceptItem(i) \/ ItemFails(i)
             \/ ItemThrows(i) \/ RefuseAgain(i) \/ CompleteDrained(i)
    BY <2>6, ItemRows
  <2> QED
    BY <1>1, <1>2, <2>1, <2>2, <2>3, <2>4, <2>5, <2>6 DEF ItemStep
<1>3. ASSUME NEW i \in Items, ZippedStep(i) PROVE RowsInv' /\ PlacedInv(Len(zipped))'
  BY <1>3, ReleaseRows, ItemRows, DrainRows DEF ZippedStep
<1>4. ASSUME NEW c \in Children, ChildStep(c) PROVE RowsInv' /\ PlacedInv(Len(zipped))'
  BY <1>4, ItemRows, DrainRows DEF ChildStep
<1>5. CASE \/ StartNext \/ OuterStop \/ UNCHANGED vars \/ \E i \in Items : StartItem(i)
  BY <1>5, ItemRows
<1> QED
  BY <1>2, <1>3, <1>4, <1>5 DEF LockStep, Next, Terminated

-----------------------------------------------------------------------------
(* Children in lock step: the counter.                                     *)

(* The children that were counted can be counted.                          *)
LEMMA CountedFinite ==
  /\ Counted \subseteq Children /\ IsFiniteSet(Counted)
  /\ Cardinality(Counted) \in Nat /\ Cardinality(Counted) <= N
<1>1. Counted \subseteq Children
  BY DEF Counted
<1> QED
  BY <1>1, ChildrenFinite, FS_Subset, FS_CardinalityType

(* A front is an item of its child.                                        *)
LEMMA HeadOf ==
  ASSUME TypeOK, PlaceInv, NEW c \in Children, queue[c] # <<>>
  PROVE  /\ Head(queue[c]) \in Items /\ ChildOf(Head(queue[c])) = c
         /\ item[Head(queue[c])] = "queued"
<1>1. Head(queue[c]) \in Elements(queue[c])
  BY PopFrontElements DEF TypeOK, PlaceInv
<1> QED
  BY <1>1 DEF PlaceInv

(* A null front means that a child ended, and that means a stop request.   *)
LEMMA NullFront ==
  ASSUME LockStep, NEW t \in Items, pc[t] \in {"collect", "pop"}, ~AllFronts
  PROVE  stop
<1>1. PICK c \in Children : queue[c] = <<>>
  BY DEF AllFronts
<1>2. Dead(c)
  BY <1>1 DEF LockStep, LockInv, HandInv, Counted
<1> QED
  BY <1>2 DEF Dead, LockStep, LockInv, StopInv

(* The steps that leave the queues and the counter alone.                  *)
LEMMA CountUnmoved ==
  ASSUME LockStep, UNCHANGED <<queue, n_ready>>,
         \A i \in Items :
           /\ pc'[i] = "notify" <=> pc[i] = "notify"
           /\ item[i] = "queued" => item'[i] = "queued"
           /\ i \in Handling' => i \in Handling
           /\ pc'[i] \in {"collect", "pop"} => pc[i] \in {"collect", "pop"}
           /\ pc'[i] = "null_front" => pc[i] = "null_front" \/ stop'
           /\ ~stop' => (i \in Popping' <=> i \in Popping)
  PROVE  HandInv' /\ CountInv'
<1>1. stop => stop'
  BY StopStays DEF LockStep
<1>2. Counted' = Counted
  <2>1. \A c \in Children : queue[c] # <<>> => Head(queue[c]) \in Items
    BY HeadOf DEF LockStep
  <2> QED
    BY <2>1 DEF Counted
<1>3. HandInv'
  <2>1. \A i, j \in Handling' : i = j
    <3>1. Handling' \subseteq Items
      BY DEF Handling
    <3> QED
      BY <3>1 DEF LockStep, LockInv, HandInv
  <2>2. \A t \in Items : pc'[t] \in {"collect", "pop"} =>
          \A c \in Children : Dead(c)' \/ c \in Counted'
    BY <1>2, DeadStays DEF LockStep, LockInv, HandInv
  <2>3. \A t \in Items : pc'[t] = "null_front" => stop'
    BY <1>1 DEF LockStep, LockInv, HandInv
  <2> QED
    BY <2>1, <2>2, <2>3 DEF HandInv
<1>4. CountInv'
  <2>1. n_ready' <= Cardinality(Counted')
    BY <1>2 DEF LockStep, LockInv, CountInv
  <2>2. ASSUME ~stop'
        PROVE  /\ \A t \in Items : pc'[t] = "notify" => item'[t] = "queued"
               /\ n_ready' = IF Popping' # {} THEN -1 ELSE Cardinality(Counted')
    <3>1. Popping' = Popping
      BY <2>2 DEF Popping
    <3> QED
      BY <1>1, <1>2, <2>2, <3>1 DEF LockStep, LockInv, CountInv
  <2> QED
    BY <2>1, <2>2 DEF CountInv
<1> QED
  BY <1>3, <1>4

(* Steps outside the calls, and the ends of the calls.                     *)
LEMMA OtherCount ==
  ASSUME LockStep,
         \/ StartNext \/ OuterStop \/ UNCHANGED vars
         \/ \E i \in Items :
              \/ StartItem(i) \/ RefuseItem(i) \/ AcceptItem(i) \/ ItemFails(i)
              \/ ItemThrows(i) \/ RefuseAgain(i) \/ CompleteDrained(i)
              \/ ZippedValue(i) \/ ZippedStopped(i) \/ Release(i)
              \/ Collect(i) \/ (Pop(i) /\ ~AllFronts) \/ TestStop(i)
              \/ StartZipped(i) \/ ZippedThrows(i)
         \/ \E c \in Children : ChildEnds(c) \/ ChildRequestStop(c) \/ Deliver(c)
  PROVE  HandInv' /\ CountInv'
<1>1. UNCHANGED <<queue, n_ready>>
  BY DEF StartNext, OuterStop, vars, StartItem, RefuseItem, AcceptItem, ItemFails,
         ItemThrows, RefuseAgain, CompleteDrained, ZippedValue, ZippedStopped,
         Release, Collect, Pop, TestStop, StartZipped, ZippedThrows, ChildEnds,
         ChildRequestStop, Deliver
<1>2. /\ item \in [Items -> ItemStates] /\ pc \in [Items -> PCs]
      /\ \A i \in Items : pc[i] # "start_next"
      /\ \A i \in Items : item[i] = "running" => pc[i] = "none"
  BY DEF LockStep, LockInv, CallInv, TypeOK
<1>3. \/ item' = item
      \/ \E i, s : /\ item[i] # "queued"
                   /\ item' = [item EXCEPT ![i] = s]
  <2>1. CASE \E i \in Items :
               \/ StartItem(i) \/ RefuseItem(i) \/ AcceptItem(i) \/ ItemFails(i)
               \/ ItemThrows(i) \/ RefuseAgain(i) \/ CompleteDrained(i)
    BY <2>1 DEF StartItem, RefuseItem, AcceptItem, ItemFails, ItemThrows, RefuseAgain,
                CompleteDrained
  <2>2. CASE \E i \in Items : Release(i)
    BY <2>2 DEF Release
  <2>3. CASE ~\E i \in Items :
               \/ StartItem(i) \/ RefuseItem(i) \/ AcceptItem(i) \/ ItemFails(i)
               \/ ItemThrows(i) \/ RefuseAgain(i) \/ CompleteDrained(i) \/ Release(i)
    BY <2>3 DEF StartNext, OuterStop, vars, ZippedValue, ZippedStopped,
         Collect, Pop, TestStop, StartZipped, ZippedThrows, ChildEnds,
         ChildRequestStop, Deliver
  <2> QED
    BY <2>1, <2>2, <2>3
<1>4. \/ pc' = pc
      \/ \E i \in Items : pc[i] = "none" /\ pc' = [pc EXCEPT ![i] = "push"]
      \/ \E i \in Items : pc[i] = "collect" /\ pc' = [pc EXCEPT ![i] = "pop"]
      \/ \E i \in Items : /\ pc[i] \in {"collect", "pop"} /\ stop'
                          /\ pc' = [pc EXCEPT ![i] = "null_front"]
      \/ \E i \in Items : /\ pc[i] = "test_stop"
                          /\ pc' = [pc EXCEPT ![i] = "count"]
      \/ \E i \in Items : /\ pc[i] = "test_stop" /\ stop'
                          /\ pc' = [pc EXCEPT ![i] = "none"]
      \/ \E i \in Items : pc[i] = "start" /\ pc' = [pc EXCEPT ![i] = "none"]
  <2>1. CASE \E i \in Items : Collect(i)
    <3>1. PICK i \in Items : Collect(i)
      BY <2>1
    <3>2. pc[i] = "collect" /\ stop' = stop
      BY <3>1 DEF Collect
    <3>3. ~AllFronts => stop'
      BY <3>2, NullFront
    <3>4. CASE AllFronts
      BY <3>1, <3>4 DEF Collect
    <3>5. CASE ~AllFronts
      <4>1. stop' /\ pc' = [pc EXCEPT ![i] = "null_front"]
        BY <3>1, <3>3, <3>5 DEF Collect
      <4> QED
        BY <3>2, <4>1
    <3> QED
      BY <3>4, <3>5
  <2>2. CASE \E i \in Items : Pop(i) /\ ~AllFronts
    <3>1. PICK i \in Items : Pop(i) /\ ~AllFronts
      BY <2>2
    <3>2. pc[i] = "pop" /\ stop' = stop /\ pc' = [pc EXCEPT ![i] = "null_front"]
      BY <3>1 DEF Pop
    <3>3. stop'
      BY <3>1, <3>2, NullFront
    <3> QED
      BY <3>2, <3>3
  <2>3. CASE \E i \in Items : TestStop(i)
    <3>1. PICK i \in Items : TestStop(i)
      BY <2>3
    <3>2. pc[i] = "test_stop" /\ stop' = stop
      BY <3>1 DEF TestStop
    <3>3. CASE stop
      <4>1. stop' /\ pc' = [pc EXCEPT ![i] = "none"]
        BY <3>1, <3>2, <3>3 DEF TestStop
      <4> QED
        BY <3>2, <4>1
    <3>4. CASE ~stop
      BY <3>1, <3>4 DEF TestStop
    <3> QED
      BY <3>3, <3>4
  <2>4. CASE \E i \in Items : StartZipped(i) \/ ZippedThrows(i)
    BY <1>2, <2>4 DEF StartZipped, ZippedThrows
  <2>5. CASE \E i \in Items : AcceptItem(i)
    BY <1>2, <2>5 DEF AcceptItem
  <2>6. CASE ~\E i \in Items : \/ Collect(i) \/ (Pop(i) /\ ~AllFronts) \/ TestStop(i)
                               \/ StartZipped(i) \/ ZippedThrows(i) \/ AcceptItem(i)
    BY <2>6 DEF StartNext, OuterStop, vars, StartItem, RefuseItem, ItemFails,
         ItemThrows, RefuseAgain, CompleteDrained, ZippedValue, ZippedStopped,
         Release, ChildEnds, ChildRequestStop, Deliver
  <2> QED
    BY <2>1, <2>2, <2>3, <2>4, <2>5, <2>6
<1>5. ASSUME NEW i \in Items
      PROVE  /\ pc'[i] = "notify" <=> pc[i] = "notify"
             /\ item[i] = "queued" => item'[i] = "queued"
             /\ pc'[i] \in {"collect", "pop", "test_stop", "count", "start"} =>
                  pc[i] \in {"collect", "pop", "test_stop", "count", "start"}
             /\ pc'[i] \in {"collect", "pop"} => pc[i] \in {"collect", "pop"}
             /\ pc'[i] = "null_front" => pc[i] = "null_front" \/ stop'
             /\ ~stop' => (pc'[i] \in {"test_stop", "count"} <=>
                             pc[i] \in {"test_stop", "count"})
  <2>1. item[i] = "queued" => item'[i] = "queued"
    BY <1>2, <1>3
  <2> QED
    BY <1>2, <1>4, <2>1
<1>6. \A i \in Items : /\ i \in Handling' => i \in Handling
                       /\ ~stop' => (i \in Popping' <=> i \in Popping)
  BY <1>5 DEF Handling, Popping
<1> QED
  BY <1>1, <1>5, <1>6, CountUnmoved

(* A drain leaves nothing to count, and ends every child it takes from.    *)
LEMMA DrainCount ==
  ASSUME LockStep,
         \/ \E i \in Items : DrainByItem(i) \/ DrainByZipped(i)
         \/ \E c \in Children : DrainByChild(c)
  PROVE  HandInv' /\ CountInv'
<1>1. /\ stop' /\ n_ready' = 0 /\ pc' = pc
      /\ \A c \in Children : queue'[c] = <<>>
      /\ \A i \in Items : item[i] = "queued" => item'[i] = "drained"
  BY DrainStop
<1>2. Cardinality(Counted') \in Nat
  <2>1. Counted' = {}
    BY <1>1 DEF Counted
  <2> QED
    BY <2>1, FS_EmptySet
<1>3. ASSUME NEW c \in Counted PROVE Dead(c)'
  <2>1. c \in Children /\ queue[c] # <<>>
    BY DEF Counted
  <2>2. /\ Head(queue[c]) \in Items /\ ChildOf(Head(queue[c])) = c
        /\ item'[Head(queue[c])] = "drained"
    BY <1>1, <2>1, HeadOf DEF LockStep
  <2> QED
    BY <2>2 DEF Dead
<1>4. HandInv'
  BY <1>1, <1>3, DeadStays DEF HandInv, Handling, LockStep, LockInv
<1> QED
  BY <1>1, <1>2, <1>4 DEF CountInv

(* An item that was pushed is the front of its queue, and not counted yet. *)
LEMMA PushCount ==
  ASSUME LockStep, NEW i \in Items, Push(i)
  PROVE  HandInv' /\ CountInv'
<1> DEFINE c == ChildOf(i)
<1>1. c \in Children
  BY ItemChild
<1>2. /\ pc[i] = "push" /\ item[i] = "pushing"
      /\ item' = [item EXCEPT ![i] = "queued"]
      /\ pc' = [pc EXCEPT ![i] = "notify"]
      /\ queue' = [queue EXCEPT ![c] = Append(queue[c], i)]
      /\ UNCHANGED <<stop, n_ready>>
  BY DEF Push, LockStep, PlaceInv
<1>3. queue[c] = <<>>
  <2> SUFFICES ASSUME queue[c] # <<>> PROVE FALSE
    OBVIOUS
  <2>1. PICK j \in Items : ChildOf(j) = c /\ item[j] = "queued"
    BY <1>1, HeadOf DEF LockStep
  <2>2. j # i
    BY <1>2, <2>1
  <2> QED
    BY <1>2, <2>1, <2>2, ItemOrder DEF LockStep, LockInv, OrderInv, Completed
<1>4. /\ Head(queue'[c]) = i /\ queue'[c] # <<>>
      /\ \A d \in Children : d # c => queue'[d] = queue[d]
  BY <1>1, <1>2, <1>3 DEF LockStep, TypeOK
<1>5. pc'[i] = "notify" /\ \A j \in Items : j # i => pc'[j] = pc[j]
  BY <1>2 DEF LockStep, TypeOK
<1>6. Counted' = Counted
  <2>1. \A d \in Children : d # c /\ queue[d] # <<>> =>
          Head(queue[d]) \in Items /\ Head(queue[d]) # i
    BY HeadOf DEF LockStep
  <2>2. ASSUME NEW d \in Children
        PROVE  queue'[d] # <<>> /\ pc'[Head(queue'[d])] # "notify"
                 <=> queue[d] # <<>> /\ pc[Head(queue[d])] # "notify"
    <3>1. CASE d = c
      BY <1>3, <1>4, <1>5, <3>1
    <3>2. CASE d # c
      BY <1>4, <1>5, <2>1, <3>2
    <3> QED
      BY <3>1, <3>2
  <2> QED
    BY <2>2 DEF Counted
<1>7. Handling' = Handling /\ Popping' = Popping
  BY <1>2, <1>5 DEF Handling, Popping
<1>8. HandInv'
  BY <1>2, <1>5, <1>6, <1>7, DeadStays DEF HandInv, LockStep, LockInv
<1>9. CountInv'
  <2>1. \A t \in Items : ~stop' /\ pc'[t] = "notify" => item'[t] = "queued"
    BY <1>2, <1>5 DEF LockStep, LockInv, CountInv, TypeOK
  <2> QED
    BY <1>2, <1>6, <1>7, <2>1 DEF LockStep, LockInv, CountInv
<1> QED
  BY <1>8, <1>9

(* notify_result_completion: while a call handles a tuple no item can be   *)
(* counted, so that the count is complete when it says so.                 *)
LEMMA NotifyCount ==
  ASSUME LockStep, NEW t \in Items, Notify(t)
  PROVE  HandInv' /\ CountInv'
<1> DEFINE c == ChildOf(t)
<1>1. c \in Children /\ N \in Nat \ {0}
  BY ItemChild, BoundAssumption
<1>2. /\ pc[t] = "notify" /\ on[t] = t /\ pc \in [Items -> PCs] /\ n_ready \in Int
      /\ UNCHANGED <<queue, stop, item, stopped>>
  BY DEF Notify, LockStep, LockInv, CallInv, TypeOK
<1>3. c \notin Counted \/ Head(queue[c]) # t
  BY <1>2 DEF Counted
<1>4. CASE queue[c] # <<>> /\ Head(queue[c]) = t
  <2>1. /\ n_ready' = n_ready + 1
        /\ pc' = [pc EXCEPT ![t] = IF n_ready = N - 1 THEN "collect" ELSE "none"]
    BY <1>2, <1>4 DEF Notify
  <2>2. item[t] = "queued"
    BY <1>1, <1>4, HeadOf DEF LockStep
  <2>3. ~Dead(c)
    BY <2>2, DeadItems DEF LockStep, LockInv, Completed
  <2>4. Handling = {}
    <3> SUFFICES ASSUME NEW s \in Items, pc[s] \in {"collect", "pop", "test_stop", "count", "start"}
                 PROVE  FALSE
      BY DEF Handling
    <3>1. CASE pc[s] \in {"collect", "pop"}
      BY <1>1, <1>3, <1>4, <2>3, <3>1 DEF LockStep, LockInv, HandInv
    <3>2. CASE pc[s] \in {"test_stop", "count", "start"}
      <4>1. HandlesRow(s, Len(zipped))
        BY <3>2 DEF LockStep, LockInv, PlacedInv
      <4> QED
        BY <1>1, <1>4, <4>1, HandledQueues DEF LockStep, LockInv
    <3> QED
      BY <3>1, <3>2
  <2>5. Counted' = Counted \union {c}
    <3>1. \A d \in Children : d # c /\ queue[d] # <<>> =>
            Head(queue[d]) \in Items /\ Head(queue[d]) # t
      BY HeadOf DEF LockStep
    <3>2. \A j \in Items : j # t => pc'[j] = pc[j]
      BY <1>2, <2>1
    <3>3. pc'[t] # "notify"
      BY <1>2, <2>1
    <3>4. ASSUME NEW d \in Children
          PROVE  d \in Counted' <=> d \in Counted \/ d = c
      <4>1. CASE d = c
        BY <1>2, <1>4, <3>3, <4>1 DEF Counted
      <4>2. CASE d # c
        BY <1>2, <3>1, <3>2, <4>2 DEF Counted
      <4> QED
        BY <4>1, <4>2
    <3> QED
      BY <1>1, <3>4 DEF Counted
  <2>6. Cardinality(Counted') = Cardinality(Counted) + 1
    BY <1>3, <1>4, <2>5, CountedFinite, FS_AddElement
  <2>7. n_ready <= Cardinality(Counted)
    BY DEF LockStep, LockInv, CountInv
  <2>8. n_ready = N - 1 => Counted' = Children
    <3> SUFFICES ASSUME n_ready = N - 1 PROVE Counted' = Children
      OBVIOUS
    <3>1. Cardinality(Counted') >= N
      BY <1>1, <2>6, <2>7, CountedFinite
    <3>2. Counted' \subseteq Children
      BY DEF Counted
    <3>3. Cardinality(Counted') <= N /\ IsFiniteSet(Counted') /\ Cardinality(Counted') \in Nat
      BY <3>2, ChildrenFinite, FS_Subset, FS_CardinalityType
    <3>4. Cardinality(Counted') = N
      BY <1>1, <3>1, <3>3
    <3> QED
      BY <3>2, <3>4, ChildrenFinite, FS_Subset
  <2>9. Handling' \subseteq {t} /\ Popping' = {} /\ Popping = {}
    BY <1>2, <2>1, <2>4 DEF Handling, Popping
  <2>10. HandInv'
    <3>1. \A s \in Items : pc'[s] \in {"collect", "pop"} => s = t /\ n_ready = N - 1
      BY <1>2, <2>1, <2>4 DEF Handling
    <3>2. \A s \in Items : pc'[s] = "null_front" => stop'
      BY <1>2, <2>1 DEF LockStep, LockInv, HandInv
    <3> QED
      BY <2>8, <2>9, <3>1, <3>2 DEF HandInv
  <2>11. CountInv'
    <3>1. n_ready' <= Cardinality(Counted')
      BY <1>2, <2>1, <2>6, <2>7, CountedFinite
    <3>2. ASSUME ~stop'
          PROVE  /\ \A s \in Items : pc'[s] = "notify" => item'[s] = "queued"
                 /\ n_ready' = Cardinality(Counted')
      <4>1. n_ready = Cardinality(Counted)
        BY <1>2, <2>9, <3>2 DEF LockStep, LockInv, CountInv
      <4>2. \A s \in Items : pc'[s] = "notify" => pc[s] = "notify"
        BY <1>2, <2>1
      <4> QED
        BY <1>2, <2>1, <2>6, <3>2, <4>1, <4>2 DEF LockStep, LockInv, CountInv
    <3> QED
      BY <2>9, <3>1, <3>2 DEF CountInv
  <2> QED
    BY <2>10, <2>11
<1>5. CASE ~(queue[c] # <<>> /\ Head(queue[c]) = t)
  <2>1. n_ready' = n_ready /\ pc' = [pc EXCEPT ![t] = "none"]
    BY <1>2, <1>5 DEF Notify
  <2>2. \A j \in Items : j # t => pc'[j] = pc[j]
    BY <1>2, <2>1
  <2>3. Counted' = Counted
    <3>1. \A d \in Children : queue[d] # <<>> =>
            Head(queue[d]) \in Items /\ Head(queue[d]) # t
      BY <1>5, HeadOf DEF LockStep
    <3> QED
      BY <1>2, <2>2, <3>1 DEF Counted
  <2>4. Handling' = Handling /\ Popping' = Popping
    BY <1>2, <2>1, <2>2 DEF Handling, Popping
  <2>5. \A s \in Items : pc'[s] \in {pc[s], "none"}
    BY <1>2, <2>1
  <2>6. HandInv'
    BY <1>2, <2>3, <2>4, <2>5, DeadStays DEF HandInv, LockStep, LockInv
  <2>7. CountInv'
    BY <1>2, <2>1, <2>3, <2>4, <2>5 DEF LockStep, LockInv, CountInv
  <2> QED
    BY <2>6, <2>7
<1> QED
  BY <1>4, <1>5

(* The call that pops a tuple is the only one that handles any.            *)
LEMMA PopCount ==
  ASSUME LockStep, NEW t \in Items, Pop(t), AllFronts
  PROVE  HandInv' /\ CountInv'
<1>1. /\ pc[t] = "pop" /\ pc \in [Items -> PCs]
      /\ pc' = [pc EXCEPT ![t] = "test_stop"]
      /\ n_ready' = -1
      /\ \A j \in Items : item'[j] = IF j = Fronts[ChildOf(j)] THEN "zipped" ELSE item[j]
      /\ UNCHANGED <<stop, stopped>>
  BY DEF Pop, LockStep, TypeOK
<1>2. Handling' = Handling /\ t \in Handling /\ t \in Popping'
  BY <1>1 DEF Handling, Popping
<1>3. \A s \in Handling : s = t
  BY <1>2 DEF LockStep, LockInv, HandInv, Handling
<1>4. HandInv'
  <2>1. \A s \in Items : pc'[s] \notin {"collect", "pop"}
    BY <1>1, <1>3 DEF Handling
  <2>2. \A s \in Items : pc'[s] = "null_front" => stop'
    BY <1>1 DEF LockStep, LockInv, HandInv
  <2> QED
    BY <1>2, <1>3, <2>1, <2>2 DEF HandInv
<1>5. ASSUME NEW s \in Items, ~stop', pc'[s] = "notify"
      PROVE  item'[s] = "queued"
  <2>1. s # t /\ pc[s] = "notify" /\ item[s] = "queued"
    BY <1>1, <1>5 DEF LockStep, LockInv, CountInv
  <2>2. ChildOf(s) \in Children
    BY ItemChild
  <2>3. ~Dead(ChildOf(s))
    BY <2>1, DeadItems DEF LockStep, LockInv, Completed
  <2>4. ChildOf(s) \in Counted
    BY <1>1, <2>2, <2>3 DEF LockStep, LockInv, HandInv
  <2>5. s # Fronts[ChildOf(s)]
    BY <2>1, <2>2, <2>4 DEF Counted, Fronts
  <2> QED
    BY <1>1, <2>1, <2>5
<1>6. -1 <= Cardinality(Counted')
  <2>1. Counted' \subseteq Children
    BY DEF Counted
  <2>2. Cardinality(Counted') \in Nat
    BY <2>1, ChildrenFinite, FS_Subset, FS_CardinalityType
  <2> QED
    BY <2>2
<1>7. CountInv'
  BY <1>1, <1>2, <1>5, <1>6 DEF CountInv
<1> QED
  BY <1>4, <1>7

(* No item is ready when the queues are counted again.                     *)
LEMMA CountCount ==
  ASSUME LockStep, NEW t \in Items, Count(t)
  PROVE  HandInv' /\ CountInv'
<1>1. pc[t] = "count" /\ UNCHANGED <<queue, stop, item, stopped>> /\ pc \in [Items -> PCs]
  BY DEF Count, LockStep, TypeOK
<1>2. HandlesRow(t, Len(zipped))
  BY <1>1 DEF LockStep, LockInv, PlacedInv
<1>3. \A c \in Children : queue[c] = <<>>
  BY <1>2, HandledQueues DEF LockStep, LockInv
<1>4. n_ready' = 0 /\ pc' = [pc EXCEPT ![t] = "start"]
  <2>1. {c \in Children : queue[c] # <<>>} = {}
    BY <1>3
  <2>2. Cardinality({c \in Children : queue[c] # <<>>}) = 0
    BY <2>1, FS_EmptySet
  <2>3. N # 0
    BY BoundAssumption
  <2> QED
    BY <2>2, <2>3 DEF Count
<1>5. Cardinality(Counted') = 0
  <2>1. Counted' = {}
    BY <1>1, <1>3 DEF Counted
  <2> QED
    BY <2>1, FS_EmptySet
<1>6. Handling' = Handling /\ t \in Handling
  BY <1>1, <1>4 DEF Handling
<1>7. \A s \in Handling : s = t
  BY <1>6 DEF LockStep, LockInv, HandInv, Handling
<1>8. Popping' = {}
  BY <1>1, <1>4, <1>7 DEF Handling, Popping
<1>9. HandInv'
  <2>1. \A s \in Items : pc'[s] \notin {"collect", "pop"}
    BY <1>1, <1>4, <1>7 DEF Handling
  <2>2. \A s \in Items : pc'[s] = "null_front" => stop'
    BY <1>1, <1>4 DEF LockStep, LockInv, HandInv
  <2> QED
    BY <1>6, <1>7, <2>1, <2>2 DEF HandInv
<1>10. \A s \in Items : ~stop' /\ pc'[s] = "notify" => item'[s] = "queued"
  BY <1>1, <1>4 DEF LockStep, LockInv, CountInv
<1> QED
  BY <1>4, <1>5, <1>8, <1>9, <1>10 DEF CountInv

(* Every step keeps the counter.                                           *)
LEMMA CountKept == LockStep => HandInv' /\ CountInv'
<1> SUFFICES ASSUME LockStep PROVE HandInv' /\ CountInv'
  OBVIOUS
<1>1. \A i \in Items : ~NotifyNext(i)
  BY DEF NotifyNext, LockStep, LockInv, CallInv
<1>2. ASSUME NEW i \in Items, ItemStep(i) PROVE HandInv' /\ CountInv'
  <2>1. CASE Push(i)
    BY <2>1, PushCount
  <2>2. CASE Pop(i) /\ AllFronts
    BY <2>2, PopCount
  <2>3. CASE Notify(i)
    BY <2>3, NotifyCount
  <2>4. CASE DrainByItem(i)
    BY <2>4, DrainCount
  <2>5. CASE Count(i)
    BY <2>5, CountCount
  <2>6. CASE \/ RefuseItem(i) \/ AcceptItem(i) \/ ItemFails(i)
             \/ ItemThrows(i) \/ RefuseAgain(i) \/ CompleteDrained(i)
             \/ Collect(i) \/ (Pop(i) /\ ~AllFronts) \/ TestStop(i)
             \/ StartZipped(i) \/ ZippedThrows(i)
    BY <2>6, OtherCount
  <2> QED
    BY <1>1, <1>2, <2>1, <2>2, <2>3, <2>4, <2>5, <2>6 DEF ItemStep
<1>3. ASSUME NEW i \in Items, ZippedStep(i) PROVE HandInv' /\ CountInv'
  BY <1>3, OtherCount, DrainCount DEF ZippedStep
<1>4. ASSUME NEW c \in Children, ChildStep(c) PROVE HandInv' /\ CountInv'
  BY <1>4, OtherCount, DrainCount DEF ChildStep
<1>5. CASE \/ StartNext \/ OuterStop \/ UNCHANGED vars \/ \E i \in Items : StartItem(i)
  BY <1>5, OtherCount
<1> QED
  BY <1>2, <1>3, <1>4, <1>5 DEF LockStep, Next, Terminated

-----------------------------------------------------------------------------
(* The invariant of the specification.                                     *)

(* Nothing has happened yet.                                               *)
LEMMA InitLock == Init => LockInv
<1> SUFFICES ASSUME Init PROVE LockInv
  OBVIOUS
<1> USE DEF Init
<1>1. OrderInv
  BY DEF OrderInv
<1>2. StopInv
  BY DEF StopInv
<1>3. CallInv
  BY DEF CallInv
<1>4. zipped = <<>> /\ Len(zipped) = 0 /\ \A c \in Children : Len(pushed[c]) = 0
  OBVIOUS
<1>5. RowsInv
  BY <1>4 DEF RowsInv
<1>6. PlacedInv(Len(zipped))
  <2>1. ASSUME NEW i \in Items, Coming(i) PROVE i[2] = 1
    <3> SUFFICES ASSUME i[2] # 1 PROVE FALSE
      OBVIOUS
    <3>1. ChildOf(i) \in Children /\ i[2] \in 1..K
      BY ItemChild, ItemOrder
    <3>0. \A n \in 1..K : 1 \in 1..K
      BY BoundAssumption
    <3>2. <<ChildOf(i), 1>> \in Items
      BY <3>1, <3>0 DEF Items
    <3>3. Earlier(<<ChildOf(i), 1>>, i)
      BY <3>1 DEF Earlier, ChildOf
    <3>4. item[<<ChildOf(i), 1>>] = "idle"
      BY <3>2
    <3> QED
      BY <2>1, <3>2, <3>3, <3>4 DEF Coming, Completed
  <2> QED
    BY <1>4, <2>1, ItemChild DEF PlacedInv
<1>7. Handling = {} /\ Popping = {} /\ Counted = {}
  BY DEF Handling, Popping, Counted
<1>8. HandInv
  BY <1>7 DEF HandInv
<1>9. CountInv
  BY <1>7, FS_EmptySet DEF CountInv
<1> QED
  BY <1>1, <1>2, <1>3, <1>5, <1>6, <1>8, <1>9 DEF LockInv

(* The invariant holds at the beginning.                                   *)
LEMMA InitInv == Init => IndInv
BY InitTypes, InitPlace, InitCompletion, InitLock DEF IndInv

(* Every step keeps the invariant.                                         *)
LEMMA NextInv == IndInv /\ [Next]_vars => IndInv'
<1> SUFFICES ASSUME IndInv, [Next]_vars PROVE IndInv'
  OBVIOUS
<1>1. TypeOK' /\ PlaceInv' /\ CompletionInv'
  BY NextTypes, NextPlace, NextCompletion DEF IndInv
<1>2. ASSUME ~Overlapping PROVE LockInv'
  <2>1. LockStep
    BY <1>1, <1>2 DEF IndInv, LockStep
  <2> QED
    BY <2>1, OrderKept, StopKept, CallKept, RowsKept, CountKept DEF LockInv
<1> QED
  BY <1>1, <1>2 DEF IndInv

(* The invariant holds in every behaviour.                                 *)
LEMMA Invariant == SafeSpec => []IndInv
<1> QED
  BY InitInv, NextInv, PTL DEF SafeSpec

(* The receiver is completed at most once, by the last of the children to  *)
(* decrement n_pending_operations_ (zip.hpp:402), when no item is under    *)
(* way: for any number of children and items, whose handlers interleave in *)
(* any way.                                                                *)
THEOREM CompletedByLastChildHolds == SafeSpec => []CompletedByLastChild
<1>1. IndInv => CompletedByLastChild
  <2> SUFFICES ASSUME IndInv PROVE CompletedByLastChild
    OBVIOUS
  <2>1. TypeOK /\ CompletionInv
    BY DEF IndInv
  <2>2. ASSUME delivered # <<>>
        PROVE  /\ n_pending = 0
               /\ \A c \in Children : child[c] \notin {"idle", "running"}
    <3>1. n_pending = 0 /\ Cardinality(Pending) = 0
      BY <2>1, <2>2 DEF CompletionInv
    <3>2. Pending = {}
      BY <3>1, PendingFinite, FS_EmptySet
    <3> QED
      BY <3>1, <3>2 DEF Pending
  <2> QED
    BY <2>1, <2>2, ItemChild DEF CompletionInv, CompletedByLastChild
<1> QED
  BY <1>1, Invariant, PTL

(* In steps 1 and 2 of notify_result_completion front() is not null unless *)
(* a stop was requested, for any number of children in lock step, on any   *)
(* number of threads.                                                      *)
THEOREM FrontsPresentHolds == SafeSpec => [](~Overlapping => FrontsPresent)
<1>1. IndInv => (~Overlapping => FrontsPresent)
  BY DEF IndInv, LockInv, HandInv, FrontsPresent
<1> QED
  BY <1>1, Invariant, PTL

(* The tuples that zip passes on are the rows of the items that arrived,   *)
(* in order, and the results are those of the items that were popped, for  *)
(* any number of children in lock step, on any number of threads.          *)
THEOREM TuplesAlignedHolds == SafeSpec => [](~Overlapping => TuplesAligned)
<1>1. IndInv => (~Overlapping => TuplesAligned)
  <2> SUFFICES ASSUME IndInv, ~Overlapping PROVE TuplesAligned
    OBVIOUS
  <2>1. TypeOK /\ RowsInv
    BY DEF IndInv, LockInv
  <2>2. ASSUME NEW m \in 1..Len(zipped), NEW c \in Children
        PROVE  m <= Len(pushed[c]) /\ zipped[m][c] = pushed[c][m]
    <3>1. Len(zipped) \in Nat /\ Len(pushed[c]) \in Nat
      BY <2>1 DEF TypeOK
    <3>2. m <= Len(pushed[c])
      BY <2>1, <3>1 DEF RowsInv
    <3>3. zipped[m] = Row(m) /\ pushed[c][m] = <<c, m>>
      BY <2>1, <3>1, <3>2 DEF RowsInv
    <3> QED
      BY <3>2, <3>3 DEF Row
  <2> QED
    BY <2>1, <2>2 DEF RowsInv, TuplesAligned
<1> QED
  BY <1>1, Invariant, PTL

(* n_ready_next_items_ is the number of ready items, and one call handles  *)
(* a tuple, until a stop is requested: for any number of children in lock  *)
(* step, on any number of threads.                                         *)
THEOREM ReadyIsCountedHolds == SafeSpec => [](~Overlapping => ReadyIsCounted)
<1>1. IndInv => (~Overlapping => ReadyIsCounted)
  BY DEF IndInv, LockInv, HandInv, CountInv, ReadyIsCounted
<1> QED
  BY <1>1, Invariant, PTL
=============================================================================
