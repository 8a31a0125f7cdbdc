--------------------------- MODULE MCBuildingBlocks ---------------------------
(* What the rest of the library is built from: the intrusive containers,   *)
(* the channel, fork, buffer spans, transfers, resources and deferred.  A   *)
(* behaviour exercises one of them.                                        *)
EXTENDS Fork, IntrusiveList, AsyncChannel, IntrusiveQueue, BufferSpan, BufferedSequence, AsyncResource, Deferred

VARIABLE part  \* which of them this behaviour is about

others ==
  <<part, listsVars, queueVars, listVars, channelVars, spanVars, transferVars, resourceVars,
    deferredVars>>

Parts ==
  {"fork", "list", "queue", "channel", "span", "transfer", "resource", "deferred"}

(* The inputs of a part vary only in its own behaviours.                   *)
MCInit ==
  /\ Init
  /\ ListInit /\ QueueInit /\ ChannelInit /\ SpanInit /\ TransferInit /\ ResourceInit
  /\ DeferredInit
  /\ part \in Parts
  /\ part # "span" => sizes = CHOOSE s \in Shapes : TRUE
  /\ part # "transfer" => request = CHOOSE r \in Calls : r.kind = "span"

ForkOnly(A) == part = "fork" /\ A /\ UNCHANGED others
ListOnly(A) ==
  /\ part = "list" /\ A
  /\ UNCHANGED <<part, vars, queueVars, listVars, channelVars, spanVars, transferVars, resourceVars,
                 deferredVars>>
QueueOnly(A) ==
  /\ part = "queue" /\ A
  /\ UNCHANGED <<part, vars, listsVars, listVars, channelVars, spanVars, transferVars, resourceVars,
                 deferredVars>>
ChannelOnly(A) ==
  /\ part = "channel" /\ A
  /\ UNCHANGED <<part, vars, listsVars, queueVars, spanVars, transferVars, resourceVars,
                 deferredVars>>
SpanOnly(A) ==
  /\ part = "span" /\ A
  /\ UNCHANGED <<part, vars, listsVars, queueVars, listVars, channelVars, transferVars, resourceVars,
                 deferredVars>>
TransferOnly(A) ==
  /\ part = "transfer" /\ A
  /\ UNCHANGED <<part, vars, listsVars, queueVars, listVars, channelVars, spanVars, resourceVars,
                 deferredVars>>
ResourceOnly(A) ==
  /\ part = "resource" /\ A
  /\ UNCHANGED <<part, vars, listsVars, queueVars, listVars, channelVars, spanVars, transferVars,
                 deferredVars>>
DeferredOnly(A) ==
  /\ part = "deferred" /\ A
  /\ UNCHANGED <<part, vars, listsVars, queueVars, listVars, channelVars, spanVars, transferVars,
                 resourceVars>>

MCNext ==
  \/ ForkOnly(Next)
  \/ ListOnly(ListNext) \/ QueueOnly(QueueNext) \/ ChannelOnly(ChannelNext)
  \/ SpanOnly(SpanNext) \/ TransferOnly(TransferNext) \/ ResourceOnly(ResourceNext)
  \/ DeferredOnly(DeferredNext)

(* Threads go on, the kernel answers every submission, items and senders   *)
(* complete, and close runs to its end.  For fork as in its Spec.          *)
MCSpec ==
  /\ MCInit /\ [][MCNext]_<<vars, others>>
  /\ WF_<<vars, others>>(ForkOnly(Start))
  /\ WF_<<vars, others>>(ForkOnly(ParentStep))
  /\ WF_<<vars, others>>(ForkOnly(Complete))
  /\ WF_<<vars, others>>(ForkOnly(CallbackStep))
  /\ \A i \in Items : WF_<<vars, others>>(ForkOnly(ItemStep(i)))
  /\ \A o \in Observers : WF_<<vars, others>>(ChannelOnly(ObserverStep(o)))
  /\ WF_<<vars, others>>(ChannelOnly(ChannelStep))
  /\ WF_<<vars, others>>(TransferOnly(TransferNext))
  /\ WF_<<vars, others>>(ResourceOnly(ResourceStep))

(* After any sequence of calls the lists, and the queues, followed to      *)
(* their tail_, hold what was put into them and not taken out, and a node  *)
(* of a list leads back to the one before it, unless the two were joined   *)
(* by push_front, append or prepend.                                       *)
ContainersHoldTheirItems ==
  /\ part = "list" => ListsHoldTheirItems
  /\ part = "queue" => QueuesHoldTheirItems

(* Whatever was started ends: fork completes its receiver after the parent *)
(* and all detached items, whoever drops the last reference; close         *)
(* completes the subscribers; a transfer that can be filled ends; and      *)
(* use_resources completes after its closes, unless a token is left behind *)
(* in zip.                                                                 *)
EveryOperationCompletes ==
  /\ part = "fork" => EventuallyCompletes
  /\ CloseCompletesSubscribers
  /\ part = "transfer" => TransferEnds
  /\ part = "resource" => UseCompletesOrStrands

BufferShapesValue ==
  {<<>>, <<0>>, <<3>>, <<1, 2>>, <<2, 2>>, <<1, 0, 1>>, <<1, 1, 2>>}
TwoBuffers == {<<2, 1>>}
ShapesValue ==
  {<<>>, <<0>>, <<4>>, <<2, 2>>, <<0, 2>>, <<3, 1>>, <<1, 4>>, <<1, 2, 1>>}
=============================================================================
