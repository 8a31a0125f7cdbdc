------------------------------ MODULE ListLinks ------------------------------
(***************************************************************************)
(* The member functions of sio::intrusive_list (intrusive_list.hpp).  A    *)
(* list is a record of its head_ and tail_ together with the links of the  *)
(* nodes, which live in the nodes themselves, and each member function is  *)
(* an operator that returns the record after the call.  Nothing clears the *)
(* links of a node that left the list, so they go on pointing to where     *)
(* its neighbours were.                                                    *)
(***************************************************************************)
EXTENDS Naturals, Sequences

CONSTANT Null  \* nullptr

IntrusiveLists(nodes) ==
  [head : nodes \union {Null}, tail : nodes \union {Null},
   next : [nodes -> nodes \union {Null}], prev : [nodes -> nodes \union {Null}]]

EmptyList(nodes) ==
  [head |-> Null, tail |-> Null,
   next |-> [n \in nodes |-> Null], prev |-> [n \in nodes |-> Null]]

(* p->*Member = value, where the code has tested p.                        *)
SetMember(member, p, value) ==
  IF p = Null THEN member ELSE [member EXCEPT ![p] = value]

pop_front(l) ==
  LET second == l.next[l.head] IN
    [l EXCEPT !.head = second,
              !.tail = IF second = Null THEN Null ELSE @,
              !.prev = SetMember(@, second, Null)]

(* Called on a list that is not empty: on an empty one push_front writes   *)
(* through the head_ it had, which is nullptr.  Prev is left alone.        *)
push_front(l, item) ==
  [l EXCEPT !.next = [@ EXCEPT ![item] = l.head], !.head = item]

push_back(l, item) ==
  [head |-> IF l.tail = Null THEN item ELSE l.head,
   tail |-> item,
   next |-> SetMember([l.next EXCEPT ![item] = Null], l.tail, item),
   prev |-> [l.prev EXCEPT ![item] = l.tail]]

(* erase trusts the links of the item: it does not ask whether the item is *)
(* linked at all.                                                          *)
erase(l, item) ==
  LET before == l.prev[item]
      after  == l.next[item]
  IN [head |-> IF before = Null THEN after ELSE l.head,
      next |-> SetMember(l.next, before, after),
      tail |-> IF after = Null THEN before ELSE l.tail,
      prev |-> SetMember(l.prev, after, before)]

(* append and prepend move the nodes of a list that is not empty and set   *)
(* the Next where the two meet, but not the Prev.                          *)
append(l, other) ==
  [l EXCEPT !.head = IF @ = Null THEN other.head ELSE @,
            !.next = IF l.head = Null THEN @
                                      ELSE [@ EXCEPT ![l.tail] = other.head],
            !.tail = other.tail]

prepend(l, other) ==
  [l EXCEPT !.next = [@ EXCEPT ![other.tail] = l.head],
            !.head = other.head,
            !.tail = IF @ = Null THEN other.tail ELSE @]

-----------------------------------------------------------------------------
(* The nodes of s are linked from the first to the last, and back wherever *)
(* the node behind is not one of joints.                                   *)
Linked(l, s, joints) ==
  /\ l.head = IF s = <<>> THEN Null ELSE s[1]
  /\ l.tail = IF s = <<>> THEN Null ELSE s[Len(s)]
  /\ \A i \in 1..Len(s) :
       /\ l.next[s[i]] = IF i = Len(s) THEN Null ELSE s[i + 1]
       /\ s[i] \notin joints => l.prev[s[i]] = IF i = 1 THEN Null ELSE s[i - 1]

(* The nodes of s, linked in both directions.                              *)
Denotes(l, s) == Linked(l, s, {})
=============================================================================
