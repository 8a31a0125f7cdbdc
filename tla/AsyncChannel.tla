---------------------------- MODULE AsyncChannel ----------------------------
(***************************************************************************)
(* sio::async_channel (async_channel.hpp).  Subscribers put an observer    *)
(* into a list, notify_all sends an item to every observer of the list,    *)
(* close pops them all and completes them.  The list is an intrusive_list, *)
(* of whose pointers this module keeps track.                              *)
(*                                                                         *)
(* Every operation locks the async mutex of the channel.  What AsyncMutex  *)
(* implements is used here: a continuation runs alone, and the mutex is    *)
(* free again when it returns.  The items that notify_all spawns outlive   *)
(* its continuation; one that is stopped erases its observer on whatever   *)
(* thread it is stopped, without the mutex.                                *)
(*                                                                         *)
(* One producer sends Rounds items, each when the one before was received  *)
(* by all, as handle::notify_all(sequence) does.                           *)
(***************************************************************************)
EXTENDS ListLinks, SequencesExt

CONSTANTS
  Observers,  \* the observers of the subscriptions, nodes of the list
  Rounds      \* a bound: how many items are sent

ASSUME ChannelAssumption == Null \notin Observers /\ Rounds \in Nat

VARIABLES
  list,       \* observers_
  contents,   \* the sequence it stands for
  n_ops,      \* subscribe_operation::n_ops_ of each observer
  sub,        \* where subscribe_operation::start() is
  stopCallback, \* the state of callback_
  stopped,    \* observers whose receiver's stop token was stopped
  stopOp,     \* where stop_operation_ is
  owed,       \* completions of rcvr_ that are due: reset, then set_value
  completed,  \* completions of rcvr_
  notifier,   \* where notify_all is
  cursor,     \* the iterator of the loop in notify_all
  sent,       \* items sent so far
  spawned,    \* the item spawned for each observer: none or running
  closer,     \* where close is
  strayErase, \* some erase hit an observer that was not linked
  strayNext   \* some item went to an observer that was completed

listVars == <<list, contents>>

channelVars == <<n_ops, sub, stopCallback, stopped, stopOp, owed, completed,
                 notifier, cursor, sent, spawned, closer, strayErase, strayNext>>

ChannelInit ==
  /\ list = EmptyList(Observers)
  /\ contents = <<>>
  /\ n_ops = [o \in Observers |-> 0]
  /\ sub = [o \in Observers |-> "idle"]
  /\ stopCallback = [o \in Observers |-> "none"]
  /\ stopped = {}
  /\ stopOp = [o \in Observers |-> "none"]
  /\ owed = [o \in Observers |-> 0]
  /\ completed = [o \in Observers |-> 0]
  /\ notifier = "idle"
  /\ cursor = Null
  /\ sent = 0
  /\ spawned = [o \in Observers |-> "none"]
  /\ closer = "open"
  /\ strayErase = FALSE
  /\ strayNext = FALSE

(* No continuation of mutex_.lock() is under way.                          *)
MutexFree == notifier \notin {"looping", "spawned"} /\ closer # "closing"

One(condition) == IF condition THEN 1 ELSE 0

(* Mutant of WrapSetValue: a stop that came first is not respected.        *)
WrapSetValueAlways(o) ==
  /\ n_ops' = [n_ops EXCEPT ![o] = 3]
  /\ owed' = [owed EXCEPT ![o] = @ + One(n_ops[o] # 3)]

(* wrap_receiver::set_value: what the channel does when it is done with an *)
(* observer.  A stop operation that was started completes rcvr_ itself.    *)
WrapSetValue(o) ==
  /\ n_ops' = [n_ops EXCEPT ![o] = 3]
  /\ owed' = [owed EXCEPT ![o] = @ + One(n_ops[o] = 1)]

(* observers_.erase(o).                                                    *)
EraseObserver(o) ==
  /\ list' = erase(list, o)
  /\ contents' = RemoveFirst(contents, o)
  /\ strayErase' = (strayErase \/ o \notin ToSet(contents))

-----------------------------------------------------------------------------
(* start(): callback_.emplace.  If stop was requested before, the callback *)
(* runs inside of it and finds n_ops_ = 0.                                 *)
Register(o) ==
  /\ sub[o] = "idle" /\ closer = "open"
  /\ sub' = [sub EXCEPT ![o] = "cas"]
  /\ stopCallback' = [stopCallback EXCEPT ![o] = IF o \in stopped THEN "ran"
                                                                  ELSE "registered"]
  /\ n_ops' = [n_ops EXCEPT ![o] = IF o \in stopped THEN 2 ELSE @]
  /\ owed' = [owed EXCEPT ![o] = One(o \in stopped)]
  /\ UNCHANGED <<stopped, stopOp, completed, notifier, cursor, sent, spawned,
                 closer, strayErase, strayNext, listVars>>

(* start(): n_ops_ from 0 to 1, then the subscription locks the mutex.     *)
CompareExchange(o) ==
  /\ sub[o] = "cas"
  /\ n_ops' = [n_ops EXCEPT ![o] = IF @ = 0 THEN 1 ELSE @]
  /\ sub' = [sub EXCEPT ![o] = IF n_ops[o] = 0 THEN "locking" ELSE "refused"]
  /\ UNCHANGED <<stopCallback, stopped, stopOp, owed, completed, notifier, cursor,
                 sent, spawned, closer, strayErase, strayNext, listVars>>

(* handle_base::subscribe, once the mutex was acquired.                    *)
Subscribe(o) ==
  /\ sub[o] = "locking" /\ MutexFree
  /\ sub' = [sub EXCEPT ![o] = "pushed"]
  /\ list' = push_back(list, o)
  /\ contents' = Append(contents, o)
  /\ UNCHANGED <<n_ops, stopCallback, stopped, stopOp, owed, completed, notifier,
                 cursor, sent, spawned, closer, strayErase, strayNext>>

(* The stop source of the receiver: a registered callback begins.          *)
RequestStop(o) ==
  /\ o \notin stopped
  /\ stopped' = stopped \union {o}
  /\ stopCallback' = [stopCallback EXCEPT ![o] = IF @ = "registered" THEN "running"
                                                                     ELSE @]
  /\ UNCHANGED <<n_ops, sub, stopOp, owed, completed, notifier, cursor, sent,
                 spawned, closer, strayErase, strayNext, listVars>>

(* on_stop_requested::operator().                                          *)
OnStopRequested(o) ==
  /\ stopCallback[o] = "running"
  /\ stopCallback' = [stopCallback EXCEPT ![o] = "ran"]
  /\ n_ops' = [n_ops EXCEPT ![o] = 2]
  /\ stopOp' = [stopOp EXCEPT ![o] = IF n_ops[o] = 1 THEN "locking" ELSE @]
  /\ owed' = [owed EXCEPT ![o] = @ + One(n_ops[o] = 0)]
  /\ UNCHANGED <<sub, stopped, completed, notifier, cursor, sent, spawned,
                 closer, strayErase, strayNext, listVars>>

(* handle_base::unsubscribe, once the mutex was acquired: erase, set_value *)
(* on the observer's receiver, then stop_receiver::set_value.              *)
Unsubscribe(o) ==
  /\ stopOp[o] = "locking" /\ MutexFree
  /\ stopOp' = [stopOp EXCEPT ![o] = "done"]
  /\ EraseObserver(o)
  /\ n_ops' = [n_ops EXCEPT ![o] = 3]
  /\ owed' = [owed EXCEPT ![o] = @ + One(n_ops[o] = 1) + 1]
  /\ UNCHANGED <<sub, stopCallback, stopped, completed, notifier, cursor, sent,
                 spawned, closer, strayNext>>

(* callback_.reset(), which waits for a callback that runs on another      *)
(* thread, and set_value(rcvr_).                                           *)
Finish(o) ==
  /\ owed[o] > 0 /\ stopCallback[o] # "running"
  /\ owed' = [owed EXCEPT ![o] = @ - 1]
  /\ completed' = [completed EXCEPT ![o] = @ + 1]
  /\ stopCallback' = [stopCallback EXCEPT ![o] = "reset"]
  /\ UNCHANGED <<n_ops, sub, stopped, stopOp, notifier, cursor, sent, spawned,
                 closer, strayErase, strayNext, listVars>>

-----------------------------------------------------------------------------
(* notify_all acquires the mutex: observers_.begin().                      *)
BeginNotify ==
  /\ notifier = "idle" /\ sent < Rounds /\ closer = "open" /\ MutexFree
  /\ notifier' = "looping"
  /\ cursor' = list.head
  /\ sent' = sent + 1
  /\ UNCHANGED <<n_ops, sub, stopCallback, stopped, stopOp, owed, completed, spawned,
                 closer, strayErase, strayNext, listVars>>

(* scope_.spawn(set_next(o.receiver, item) | upon_stopped(...)).           *)
SpawnNext ==
  /\ notifier = "looping" /\ cursor # Null
  /\ notifier' = "spawned"
  /\ spawned' = [spawned EXCEPT ![cursor] = "running"]
  /\ strayNext' = (strayNext \/ completed[cursor] > 0)
  /\ UNCHANGED <<n_ops, sub, stopCallback, stopped, stopOp, owed, completed,
                 cursor, sent, closer, strayErase, listVars>>

(* ++iterator: the link of an observer that may have been erased.          *)
Advance ==
  /\ notifier = "spawned"
  /\ notifier' = "looping"
  /\ cursor' = list.next[cursor]
  /\ UNCHANGED <<n_ops, sub, stopCallback, stopped, stopOp, owed, completed, sent,
                 spawned, closer, strayErase, strayNext, listVars>>

(* The loop ends, and with it the continuation: the mutex is free while    *)
(* scope_.on_empty() waits for the items.                                  *)
EndLoop ==
  /\ notifier = "looping" /\ cursor = Null
  /\ notifier' = "draining"
  /\ UNCHANGED <<n_ops, sub, stopCallback, stopped, stopOp, owed, completed,
                 cursor, sent, spawned, closer, strayErase, strayNext, listVars>>

ScopeEmpty == \A o \in Observers : spawned[o] = "none"

(* on_empty() completes.                                                   *)
EndNotify ==
  /\ notifier = "draining" /\ ScopeEmpty
  /\ notifier' = "idle"
  /\ UNCHANGED <<n_ops, sub, stopCallback, stopped, stopOp, owed, completed,
                 cursor, sent, spawned, closer, strayErase, strayNext, listVars>>

(* The receiver is done with the item and wants more.                      *)
NextEnds(o) ==
  /\ spawned[o] = "running"
  /\ spawned' = [spawned EXCEPT ![o] = "none"]
  /\ UNCHANGED <<n_ops, sub, stopCallback, stopped, stopOp, owed, completed,
                 notifier, cursor, sent, closer, strayErase, strayNext,
                 listVars>>

(* Mutant of NextStopped: the observer stays in the list.                  *)
NextStoppedWithoutErase(o) ==
  /\ spawned[o] = "running"
  /\ spawned' = [spawned EXCEPT ![o] = "none"]
  /\ WrapSetValue(o)
  /\ UNCHANGED <<sub, stopCallback, stopped, stopOp, completed, notifier, cursor,
                 sent, closer, strayErase, strayNext, listVars>>

(* The receiver stops the item: upon_stopped erases the observer and       *)
(* completes its receiver.                                                 *)
NextStopped(o) ==
  /\ spawned[o] = "running"
  /\ spawned' = [spawned EXCEPT ![o] = "none"]
  /\ EraseObserver(o)
  /\ WrapSetValue(o)
  /\ UNCHANGED <<sub, stopCallback, stopped, stopOp, completed, notifier, cursor,
                 sent, closer, strayNext>>

-----------------------------------------------------------------------------
(* close acquires the mutex.  The resource is closed when its use is over, *)
(* and that includes the producer.                                         *)
BeginClose ==
  /\ closer = "open" /\ notifier = "idle"
  /\ closer' = "closing"
  /\ UNCHANGED <<n_ops, sub, stopCallback, stopped, stopOp, owed, completed,
                 notifier, cursor, sent, spawned, strayErase, strayNext, listVars>>

(* close: pop the front and complete its receiver.                         *)
CloseNext ==
  /\ closer = "closing" /\ list.head # Null
  /\ list' = pop_front(list)
  /\ contents' = RemoveFirst(contents, list.head)
  /\ WrapSetValue(list.head)
  /\ UNCHANGED <<sub, stopCallback, stopped, stopOp, completed, notifier, cursor,
                 sent, spawned, closer, strayErase, strayNext>>

EndClose ==
  /\ closer = "closing" /\ list.head = Null /\ ScopeEmpty
  /\ closer' = "closed"
  /\ UNCHANGED <<n_ops, sub, stopCallback, stopped, stopOp, owed, completed,
                 notifier, cursor, sent, spawned, strayErase, strayNext, listVars>>

-----------------------------------------------------------------------------
(* What threads do by themselves, for an observer and for the channel.     *)
ObserverStep(o) ==
  \/ CompareExchange(o)
  \/ Subscribe(o)
  \/ OnStopRequested(o)
  \/ Unsubscribe(o)
  \/ Finish(o)
  \/ NextEnds(o)
  \/ NextStopped(o)

ChannelStep ==
  \/ SpawnNext
  \/ Advance
  \/ EndLoop
  \/ EndNotify
  \/ CloseNext
  \/ EndClose

ChannelNext ==
  \/ \E o \in Observers : Register(o) \/ RequestStop(o) \/ ObserverStep(o)
  \/ BeginNotify
  \/ BeginClose
  \/ ChannelStep

-----------------------------------------------------------------------------
(* Stop, close and a stopped item race for the end of a subscription; the  *)
(* exchanges of n_ops_ let exactly one of them complete the receiver, and  *)
(* although observers are erased while notify_all walks over them, no item *)
(* is sent to one that was completed.                                      *)
SubscriberCompletedOnce ==
  /\ \A o \in Observers : completed[o] + owed[o] <= 1
  /\ strayNext => strayErase

(* As long as no unlinked observer was erased, the pointers of the list    *)
(* are those of a sequence of observers, in both directions, and it holds  *)
(* every subscription the channel has not ended: nobody is forgotten.  The *)
(* list is corrupted only where a stop request is involved: one that is    *)
(* served before its subscription, or after close took the observer.       *)
NobodyForgotten ==
  /\ strayErase => stopped # {}
  /\ ~strayErase =>
       /\ Denotes(list, contents)
       /\ \A o \in Observers : sub[o] = "pushed" =>
            (o \in ToSet(contents) <=> n_ops[o] \in {1, 2} /\ owed[o] = 0
                                         /\ completed[o] = 0)

(* A subscriber that is in the list when the channel is closed is          *)
(* completed, unless the list was corrupted.                               *)
CloseCompletesSubscribers ==
  \A o \in Observers :
    (closer = "closing" /\ o \in ToSet(contents))
       ~> (completed[o] = 1 \/ strayErase)
=============================================================================
