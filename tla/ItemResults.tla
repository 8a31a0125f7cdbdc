---------------------------- MODULE ItemResults ----------------------------
(***************************************************************************)
(* The algorithms that turn a sequence into one result: first, last and    *)
(* reduce, which is last(scan(...)) (sequence/first.hpp, last.hpp,         *)
(* scan.hpp, reduce.hpp).  Items of a sequence that is not lock_step run   *)
(* concurrently; the sequence (not part of these files) ends after all of  *)
(* its items.                                                              *)
(***************************************************************************)
EXTENDS Integers, FiniteSets, Sequences

CONSTANT Items

VARIABLES
  consumer,   \* "first", "last" or "reduce", and whether items overlap
  item,       \* per item: where it is
  sum,        \* scan_data::value_: the items added so far
  seen,       \* per item: the value that scan gave it
  emplaced,   \* first: emplaced_
  resultOf,   \* result_: the completion that was stored, or none
  sequence,   \* whether the sequence goes on
  handed      \* the completions of the receiver

resultVars ==
  <<consumer, item, sum, seen, emplaced, resultOf, sequence, handed>>

Endings == {"value", "error", "stopped"}

NoResult == [signal |-> "none", by |-> {}, value |-> {}]

ResultsInit ==
  /\ consumer \in [kind : {"first", "last", "reduce"}, overlap : BOOLEAN]
  /\ item = [i \in Items |-> "idle"]
  /\ sum = {}
  /\ seen = [i \in Items |-> {}]
  /\ emplaced = 0
  /\ resultOf = NoResult
  /\ sequence = "running"
  /\ handed = <<>>

UnderWay == {i \in Items : item[i] \notin {"idle", "done", "halted"}}

(* set_next, connect and start of an item.  In lock step an item starts    *)
(* after the one before it ended with a value.                             *)
StartResultItem(i) ==
  /\ sequence = "running"
  /\ item[i] = "idle"
  /\ consumer.overlap \/ (UnderWay = {} /\ \A j \in Items : item[j] # "halted")
  /\ item' = [item EXCEPT ![i] = "running"]
  /\ UNCHANGED <<consumer, sum, seen, emplaced, resultOf, sequence, handed>>

(* Mutant of Scan: the value before the call instead of the one after it.  *)
ScanStale(i) ==
  /\ consumer.kind = "reduce"
  /\ item[i] = "running"
  /\ sum' = sum \union {i}
  /\ seen' = [seen EXCEPT ![i] = sum]
  /\ item' = [item EXCEPT ![i] = "scanned"]
  /\ UNCHANGED <<consumer, emplaced, resultOf, sequence, handed>>

(* scan's item_receiver::set_value: scan_data::emplace calls fn and copies *)
(* the value under the mutex.                                              *)
Scan(i) ==
  /\ consumer.kind = "reduce"
  /\ item[i] = "running"
  /\ sum' = sum \union {i}
  /\ seen' = [seen EXCEPT ![i] = sum']
  /\ item' = [item EXCEPT ![i] = "scanned"]
  /\ UNCHANGED <<consumer, emplaced, resultOf, sequence, handed>>

(* last's item_receiver: emplace under the mutex, over what was there.  A  *)
(* value that comes through scan was added up; an error or a stop passes   *)
(* scan as it is, and so does the exception of fn.                         *)
EmplaceLast(i) ==
  \E signal \in Endings :
    /\ \/ consumer.kind = "last" /\ item[i] = "running"
       \/ consumer.kind = "reduce" /\ item[i] = "running" /\ signal # "value"
       \/ consumer.kind = "reduce" /\ item[i] = "scanned" /\ signal = "value"
    /\ resultOf' = [signal |-> signal, by |-> {i}, value |-> seen[i]]
    /\ item' = [item EXCEPT ![i] = IF signal = "value" THEN "done" ELSE "halted"]
    /\ UNCHANGED <<consumer, sum, seen, emplaced, sequence, handed>>

(* Mutant of ClaimFirst: the item ends before its result is constructed.   *)
ClaimFirstEarly(i) ==
  /\ consumer.kind = "first"
  /\ item[i] = "running"
  /\ item' = [item EXCEPT ![i] = "halted"]
  /\ emplaced' = 1
  /\ UNCHANGED <<consumer, sum, seen, resultOf, sequence, handed>>

(* first's emplace: compare_exchange of emplaced_ from 0 to 1.  The other  *)
(* items end at once; every item ends with set_stopped.                    *)
ClaimFirst(i) ==
  /\ consumer.kind = "first"
  /\ item[i] = "running"
  /\ item' = [item EXCEPT ![i] = IF emplaced = 0 THEN "claimed" ELSE "halted"]
  /\ emplaced' = IF emplaced = 0 THEN 1 ELSE emplaced
  /\ UNCHANGED <<consumer, sum, seen, resultOf, sequence, handed>>

(* result_.__construct, and the store of 2.                                *)
ConstructFirst(i) ==
  /\ item[i] = "claimed"
  /\ \E signal \in Endings :
       resultOf' = [signal |-> signal, by |-> {i}, value |-> {}]
  /\ emplaced' = 2
  /\ item' = [item EXCEPT ![i] = "halted"]
  /\ UNCHANGED <<consumer, sum, seen, sequence, handed>>

(* visit_result.  Where nothing was constructed the variant is memory that *)
(* was never written: whatever it seems to hold is handed, or nothing.     *)
(* first then has called set_stopped before.                               *)
Visited ==
  LET garbage == {<<>>, <<[signal |-> "garbage", by |-> {}, value |-> {}]>>}
      before == IF consumer.kind = "first" /\ emplaced = 0
                  THEN <<[signal |-> "stopped", by |-> {}, value |-> {}]>>
                  ELSE <<>>
  IN IF resultOf = NoResult THEN {before \o g : g \in garbage} ELSE {<<resultOf>>}

(* receiver::set_value, set_stopped and set_error of first and last; scan  *)
(* passes them on.                                                         *)
SequenceEnds ==
  /\ sequence = "running"
  /\ UnderWay = {}
  /\ \E signal \in Endings :
       /\ sequence' = signal
       /\ \/ signal = "value" /\ handed' \in Visited
          \/ /\ signal # "value"
             /\ handed' = <<[signal |-> signal, by |-> {}, value |-> {}]>>
  /\ UNCHANGED <<consumer, item, sum, seen, emplaced, resultOf>>

ResultsNext ==
  \/ \E i \in Items :
       \/ StartResultItem(i) \/ Scan(i) \/ EmplaceLast(i)
       \/ ClaimFirst(i) \/ ConstructFirst(i)
  \/ SequenceEnds

-----------------------------------------------------------------------------
(* If an item ended before the sequence, the receiver is completed once,   *)
(* and with a result that was constructed: an item that lost the race of   *)
(* first does not let the sequence end before the winner is done, and does *)
(* not write over its result.  A sequence without items reads a result     *)
(* that nobody wrote.                                                      *)
ResultIsConstructed ==
  /\ sequence # "running" /\ (\E i \in Items : item[i] # "idle") =>
       /\ Len(handed) = 1
       /\ sequence = "value" => handed[1].by # {} /\ handed[1].signal \in Endings
  /\ \A i \in Items : item[i] = "claimed" =>
       resultOf = NoResult /\ \A j \in Items \ {i} : item[j] # "claimed"

(* What reduce delivers in lock step contains every item.  With items that *)
(* overlap the older of two sums may be stored last; all that remains is   *)
(* that the sum contains the item that stored it.                          *)
ReduceAddsUp ==
  consumer.kind = "reduce" /\ sequence = "value" /\ resultOf.signal = "value" =>
    /\ resultOf.by \subseteq resultOf.value
    /\ ~consumer.overlap => resultOf.value = {i \in Items : item[i] # "idle"}
=============================================================================
