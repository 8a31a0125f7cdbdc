--------------------------- MODULE IntrusiveQueue ---------------------------
(***************************************************************************)
(* sio::intrusive_queue (intrusive_queue.hpp): a singly linked queue that  *)
(* can be spliced.  Two queues share the nodes, as the queues of zip's     *)
(* children and the queue they are drained into do.                        *)
(***************************************************************************)
EXTENDS IntrusiveList

VARIABLES
  queue,   \* head_ and tail_ of each of the two queues
  qnext,   \* the Next member of the nodes
  qitems   \* the sequence each queue stands for

queueVars == <<queue, qnext, qitems>>

Queues == {1, 2}

Other(q) == 3 - q

QueueInit ==
  /\ queue = [q \in Queues |-> [head |-> Null, tail |-> Null]]
  /\ qnext = [n \in Nodes |-> Null]
  /\ qitems = [q \in Queues |-> <<>>]

Unlinked(n) == \A q \in Queues : n \notin ToSet(qitems[q])

QueuePopFront(q) ==
  LET second == qnext[queue[q].head] IN
    /\ qitems[q] # <<>>
    /\ queue' = [queue EXCEPT ![q].head = second,
                              ![q].tail = IF second = Null THEN Null ELSE @]
    /\ qitems' = [qitems EXCEPT ![q] = Tail(@)]
    /\ UNCHANGED qnext

QueuePushFront(q, n) ==
  /\ Unlinked(n)
  /\ qnext' = [qnext EXCEPT ![n] = queue[q].head]
  /\ queue' = [queue EXCEPT ![q].head = n,
                            ![q].tail = IF @ = Null THEN n ELSE @]
  /\ qitems' = [qitems EXCEPT ![q] = <<n>> \o @]

QueuePushBack(q, n) ==
  /\ Unlinked(n)
  /\ qnext' = SetMember([qnext EXCEPT ![n] = Null], queue[q].tail, n)
  /\ queue' = [queue EXCEPT ![q].head = IF queue[q].tail = Null THEN n ELSE @,
                            ![q].tail = n]
  /\ qitems' = [qitems EXCEPT ![q] = Append(@, n)]

(* Mutant of QueueAppend: tail_ stays where it was.                        *)
QueueAppendKeepingTail(q) ==
  LET other == queue[Other(q)] IN
    /\ other.head # Null
    /\ qnext' = SetMember(qnext, queue[q].tail, other.head)
    /\ queue' = [queue EXCEPT ![q].head = IF @ = Null THEN other.head ELSE @,
                              ![Other(q)] = [head |-> Null, tail |-> Null]]
    /\ qitems' = [qitems EXCEPT ![q] = @ \o qitems[Other(q)],
                                ![Other(q)] = <<>>]

(* append(std::move(other)).                                               *)
QueueAppend(q) ==
  LET other == queue[Other(q)] IN
    /\ other.head # Null
    /\ qnext' = IF queue[q].head = Null THEN qnext
                  ELSE [qnext EXCEPT ![queue[q].tail] = other.head]
    /\ queue' = [queue EXCEPT ![q] = [head |-> IF @.head = Null THEN other.head
                                                               ELSE @.head,
                                      tail |-> other.tail],
                              ![Other(q)] = [head |-> Null, tail |-> Null]]
    /\ qitems' = [qitems EXCEPT ![q] = @ \o qitems[Other(q)],
                                ![Other(q)] = <<>>]

(* prepend(std::move(other)).                                              *)
QueuePrepend(q) ==
  LET other == queue[Other(q)] IN
    /\ other.head # Null
    /\ qnext' = [qnext EXCEPT ![other.tail] = queue[q].head]
    /\ queue' = [queue EXCEPT ![q] = [head |-> other.head,
                                      tail |-> IF @.tail = Null THEN other.tail
                                                               ELSE @.tail],
                              ![Other(q)] = [head |-> Null, tail |-> Null]]
    /\ qitems' = [qitems EXCEPT ![q] = qitems[Other(q)] \o @,
                                ![Other(q)] = <<>>]

(* The loop of make_reversed after k rounds on the list that begins at     *)
(* the node first.                                                         *)
ReversedAfter(first) ==
  LET loop[k \in 0..Len(qitems[1]) + Len(qitems[2])] ==
        IF k = 0 THEN [links |-> qnext, new_head |-> Null, list |-> first]
        ELSE LET r == loop[k - 1] IN
               IF r.list = Null THEN r
               ELSE [links |-> [r.links EXCEPT ![r.list] = r.new_head],
                     new_head |-> r.list,
                     list |-> r.links[r.list]]
  IN loop[Len(qitems[1]) + Len(qitems[2])]

(* q = make_reversed(head of q).                                           *)
MakeReversed(q) ==
  LET r == ReversedAfter(queue[q].head) IN
    /\ qnext' = r.links
    /\ queue' = [queue EXCEPT ![q] = [head |-> r.new_head,
                                      tail |-> queue[q].head]]
    /\ qitems' = [qitems EXCEPT ![q] = Reverse(@)]

QueueNext ==
  \E q \in Queues :
    \/ \E n \in Nodes : QueuePushFront(q, n) \/ QueuePushBack(q, n)
    \/ QueuePopFront(q)
    \/ QueueAppend(q)
    \/ QueuePrepend(q)
    \/ MakeReversed(q)

-----------------------------------------------------------------------------
(* Whatever was pushed, popped, spliced and reversed before, each queue    *)
(* holds exactly its items in order, and its tail_, at which the next push *)
(* or splice links, is the last of them.                                   *)
QueuesHoldTheirItems ==
  \A q \in Queues :
    LET s == qitems[q] IN
      /\ queue[q].head = IF s = <<>> THEN Null ELSE s[1]
      /\ queue[q].tail = IF s = <<>> THEN Null ELSE s[Len(s)]
      /\ \A i \in 1..Len(s) :
           qnext[s[i]] = IF i = Len(s) THEN Null ELSE s[i + 1]
=============================================================================
