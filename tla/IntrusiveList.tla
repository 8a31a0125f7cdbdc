--------------------------- MODULE IntrusiveList ---------------------------
(***************************************************************************)
(* sio::intrusive_list (intrusive_list.hpp): every sequence of calls on    *)
(* two lists that share their nodes.  The calls themselves are operators   *)
(* of ListLinks.                                                           *)
(*                                                                         *)
(* push_front, append and prepend do not set Prev where they join nodes.   *)
(* The node behind such a joint keeps the Prev it had, and erase of that   *)
(* node goes by it and may unlink its neighbours: the list is lost, as it  *)
(* is by push_front on an empty list.  Nothing is said of it afterwards.   *)
(***************************************************************************)
EXTENDS ListLinks, SequencesExt

CONSTANT Nodes  \* the items that can be linked

ASSUME NullIsNoNode == Null \notin Nodes

VARIABLES
  ends,    \* head_ and tail_ of each of the two lists
  lnext,   \* the Next member of the nodes
  lprev,   \* the Prev member of the nodes
  litems,  \* the sequence each list stands for
  joints,  \* the linked nodes whose Prev was not set when they were joined
  lost     \* a call was made that the links do not support

listsVars == <<ends, lnext, lprev, litems, joints, lost>>

BothLists == {1, 2}

OtherList(q) == 3 - q

NoEnds == [head |-> Null, tail |-> Null]

(* One of the lists, and a list that a call left behind in its place.      *)
At(q) ==
  [head |-> ends[q].head, tail |-> ends[q].tail, next |-> lnext, prev |-> lprev]

Becomes(q, l) ==
  /\ ends' = [ends EXCEPT ![q] = [head |-> l.head, tail |-> l.tail]]
  /\ lnext' = l.next
  /\ lprev' = l.prev

ListInit ==
  /\ ends = [q \in BothLists |-> NoEnds]
  /\ lnext = [n \in Nodes |-> Null]
  /\ lprev = [n \in Nodes |-> Null]
  /\ litems = [q \in BothLists |-> <<>>]
  /\ joints = {}
  /\ lost = FALSE

InNoList(n) == \A q \in BothLists : n \notin ToSet(litems[q])

-----------------------------------------------------------------------------
PushBack(q, n) ==
  /\ InNoList(n)
  /\ Becomes(q, push_back(At(q), n))
  /\ litems' = [litems EXCEPT ![q] = Append(@, n)]
  /\ joints' = joints \ {n}
  /\ UNCHANGED lost

(* The new first node keeps its old Prev, the former one its nullptr.      *)
PushFront(q, n) ==
  /\ InNoList(n)
  /\ ends[q].tail # Null
  /\ Becomes(q, push_front(At(q), n))
  /\ litems' = [litems EXCEPT ![q] = <<n>> \o @]
  /\ joints' = joints \union {n, ends[q].head}
  /\ UNCHANGED lost

PushFrontOnEmpty(q, n) ==
  /\ InNoList(n)
  /\ ends[q].tail = Null
  /\ lost' = TRUE
  /\ UNCHANGED <<ends, lnext, lprev, litems, joints>>

PopFront(q) ==
  /\ litems[q] # <<>>
  /\ Becomes(q, pop_front(At(q)))
  /\ litems' = [litems EXCEPT ![q] = Tail(@)]
  /\ joints' = joints \ {ends[q].head, lnext[ends[q].head]}
  /\ UNCHANGED lost

Erase(q, n) ==
  /\ n \in ToSet(litems[q]) \ joints
  /\ Becomes(q, erase(At(q), n))
  /\ litems' = [litems EXCEPT ![q] = RemoveFirst(@, n)]
  /\ joints' = joints \ {lnext[n]}
  /\ UNCHANGED lost

EraseJoint(q, n) ==
  /\ n \in ToSet(litems[q]) \intersect joints
  /\ Becomes(q, erase(At(q), n))
  /\ lost' = TRUE
  /\ UNCHANGED <<litems, joints>>

(* append(std::move(other)): the other list is empty afterwards.           *)
AppendOther(q) ==
  LET other == ends[OtherList(q)]
      l == append(At(q), other)
  IN /\ other.head # Null
     /\ ends' = [ends EXCEPT ![q] = [head |-> l.head, tail |-> l.tail],
                             ![OtherList(q)] = NoEnds]
     /\ lnext' = l.next
     /\ litems' = [litems EXCEPT ![q] = @ \o litems[OtherList(q)],
                                 ![OtherList(q)] = <<>>]
     /\ joints' = joints \union (IF ends[q].head = Null THEN {} ELSE {other.head})
     /\ UNCHANGED <<lprev, lost>>

(* prepend(std::move(other)).                                              *)
PrependOther(q) ==
  LET other == ends[OtherList(q)]
      l == prepend(At(q), other)
  IN /\ other.head # Null
     /\ ends' = [ends EXCEPT ![q] = [head |-> l.head, tail |-> l.tail],
                             ![OtherList(q)] = NoEnds]
     /\ lnext' = l.next
     /\ litems' = [litems EXCEPT ![q] = litems[OtherList(q)] \o @,
                                 ![OtherList(q)] = <<>>]
     /\ joints' = joints \union (IF ends[q].head = Null THEN {} ELSE {ends[q].head})
     /\ UNCHANGED <<lprev, lost>>

ListNext ==
  /\ ~lost
  /\ \E q \in BothLists :
       \/ \E n \in Nodes :
            \/ PushBack(q, n)
            \/ PushFront(q, n)
            \/ PushFrontOnEmpty(q, n)
            \/ Erase(q, n)
            \/ EraseJoint(q, n)
       \/ PopFront(q)
       \/ AppendOther(q)
       \/ PrependOther(q)

-----------------------------------------------------------------------------
(* Until a call is made that the links do not support, each list holds     *)
(* exactly its items, in order from head_ to tail_, and every node that is *)
(* not behind a joint leads back to the one before it.                     *)
ListsHoldTheirItems ==
  ~lost => \A q \in BothLists : Linked(At(q), litems[q], joints)
=============================================================================
