# TLA+ models of senders-io

senders-io (`sio`) is a C++20 library of sender/receiver algorithms: sequence
senders (merge, zip, fork, first, ...), resources with an asynchronous
lifetime, an asynchronous mutex, channel and memory pool, and I/O handles on
top of `exec::io_uring_context`. It is a header library: the threads are those
on which its users complete senders, and its own state is a set of operation
states shared between the completions that arrive on these threads. What is
hard to test is the order in which they arrive, and this is what the modules
here are about.

Contents: [inventory](#inventory), [plan](#plan), [modules](#modules),
[runs](#runs), [fairness](#fairness), [proofs](#proofs),
[findings](#findings), [limits](#what-the-models-leave-out).

## Inventory

Paths are relative to `src/source/sio/`.

| Component | State | Operations | Interacts through | What makes it correct |
|---|---|---|---|---|
| async mutex (`async_mutex.hpp`) | `locked_`, lock-free queue `inflight_operations_` | `lock`: push, try to own, complete the batch | completes other callers' receivers inline; continuations lock again | one continuation at a time; nobody is left in the queue; a completed node is never touched |
| memory pool (`memory_pool.hpp/.cpp`) | per size class a free list and a list of waiting allocations, `mutex_`; per operation a stop callback | allocate, deallocate, stop, `async_new`, `async_delete`, destructor | upstream `memory_resource`, stop callbacks, receivers completed after the unlock | a block is in one place and large enough; no waiter beside a free block; one completion per allocation |
| merge_each (`sequence/merge_each.hpp`) | `n_pending_ops_`, `error_emplaced_`, `errors_`, `stop_source_` | start, completion of a child | children complete on any thread | one completion after all children; an error is not swallowed |
| fork (`sequence/fork.hpp`) | `ref_counter_`, `completion_type_`, `errors_`, stop callback | start, `set_next`, detached items, completion of the parent, stop | items outlive `set_next`; the stop callback runs on any thread | the last reference completes; failures show |
| zip (`sequence/zip.hpp`) | a queue with mutex per child, `n_ready_next_items_`, `n_pending_operations_`, `stop_source_` | push an item, notify, assemble and start a tuple, drain, child completion | the item that completes the count works for all the others | tuples aligned; items completed once; the end is reached |
| async channel (`async_channel.hpp`) | list of observers, `n_ops_`, an async mutex | subscribe, notify, close, stop | locks the async mutex for every operation | an observer is completed once and never notified afterwards |
| intrusive list and queue | prev/next pointers | push, pop, erase, splice | used by pool, zip, channel | they implement sequences |
| buffered_sequence (`sequence/buffered_sequence.hpp`) | buffers left, file offset | partial reads and writes until the buffers are full | one read or write sender at a time | every byte transferred once, at its offset; it ends |
| buffer spans (`*_buffer_span.*`) | pointer, size, start and end offset | prefix, suffix, iteration | used by buffered_sequence and handles | they denote the right bytes |
| async_resource (`async_resource.hpp`) | the open token | open, use, close | composed with zip for several resources | what was opened is closed once |
| first, last, scan, reduce, repeat, finally, tap | a result or flag | items and completions | concurrent items of one sequence | one result; error paths |
| resolve (`ip/resolve.hpp`) | the `gaicb` request, the list of results | start, notify, next result, stop | callback on a thread of libc | results freed once; completion |
| io_uring handles | descriptors | fill in submission entries | `exec::io_uring_context` | outside the repository, mostly |
| endpoints, addresses (`ip/`, `local/`, `can/`) | address and port | construct, read | made by resolve | the port is the one that was asked for |
| deferred (`deferred.hpp`) | a union of constructor arguments and value, `emplaced_` | construct, copy, move, call, destroy | carries the channel's context to its operation | the member that is alive is destroyed, once |
| concepts, adapters and aliases | none over time; the allocator of fork's items | `async_new`, `async_delete` | fork and the pool | |
| `examples/tcp_echo_server.cpp` | acceptor, clients, fork's count | accept, serve, fail, stop | composes resources, repeat, fork, finally | nothing is closed while it is used; it ends when stopped |
| `examples/batched_reads.cpp` | counters shared by threads | divide, read, count, report | composes fork, zip, reduce; a condition variable | the last report is complete; it ends |

The hard behaviours: completions that race (all of the above but the buffers),
stop requests that race with completions, arrive before the start, or run
completions inside `request_stop()` (pool, fork, zip, merge, channel), state read
in one critical section and used in the next (zip, pool), objects that end their
own life in a completion (mutex, fork, zip), weak memory orders (mutex, merge),
and continuations that re-enter (mutex, channel). `PROJECT.json` lists each hazard
at its line together with the properties aimed at it.

## Plan

What there is, in the order it was built:

1. `AsyncMutex` with its abstract specification `AsyncLock`;
2. `MemoryPool`;
3. `MergeEach`;
4. `Fork`;
5. `Zip`;
6. `ListLinks`, the pointers of the list that the pool and `AsyncChannel` use;
   `IntrusiveList` and `IntrusiveQueue`, every sequence of their calls;
7. `BufferSpan` and `BufferedSequence`;
8. `AsyncResource`;
9. `ItemResults` (first, last, scan, reduce) and `Finally` (finally, tap);
10. `Resolve`;
11. `Deferred`;
12. the example programs, which compose the library: `EchoServer` (resources,
    repeat, fork, finally) and `BatchedReads`;
13. the proofs: every safety invariant that a run checks is also a theorem.

What is left, most important first: the lifetime of item operations in zip;
children of zip that complete before their items have; the single pointer
operations of two list accesses that overlap; the iterators of buffer spans.

## Modules

| Module | Contents |
|---|---|
| `AsyncLock` | what `lock()` promises: request, acquire, release |
| `AsyncMutex` | `lock_operation::start()`; inductive invariant; refinement mapping |
| `AsyncMutexProofs` | the theorems about `AsyncMutex` |
| `MemoryPool` | pool, allocator and stop callbacks; inductive invariant |
| `MemoryPoolProofs` | the theorems about `MemoryPool` |
| `ListLinks` | `intrusive_list`: its member functions as operators on head, tail and links; used by the pool, the channel and `IntrusiveList` |
| `Lists`, `ListLemmas` | lists as sequences, and sums over them, for the mutex, the pool, spans and batched_reads; what push, pop and erase do to a list; sums; induction and recursive functions |
| `MergeEach`, `MergeEachProofs` | merge_each and its theorems |
| `Zip`, `ZipProofs` | zip and its theorems |
| `Fork`, `ForkProofs` | fork and its theorems |
| `IntrusiveList`, `IntrusiveQueue` | every sequence of calls on two containers, and the sequences they stand for |
| `AsyncChannel` | subscribe, stop, notify, close; extends `ListLinks` |
| `BufferSpan` | prefix, suffix, without_prefix |
| `BufferedSequence` | short transfers of buffers and spans, the kernel included |
| `AsyncResource` | use and use_resources |
| `Deferred` | construction, copy, call and destruction of deferred objects |
| `ItemResults` | first, last, and reduce as last of scan |
| `Finally` | finally and tap |
| `EchoServer` | `examples/tcp_echo_server.cpp`, with the accept loop |
| `Resolve` | resolve and the ports of its endpoints |
| `BatchedReads` | `examples/batched_reads.cpp` |
| `BuildingBlocksProofs` | the theorems about `IntrusiveList`, `IntrusiveQueue`, `AsyncChannel`, `BufferSpan`, `BufferedSequence`, `AsyncResource` and `Deferred` |
| `AdaptorProofs` | the theorems about `ItemResults`, `Finally`, `Resolve`, `EchoServer` and `BatchedReads` |
| `MCAsyncMutex`, `MCMemoryPool`, `MCZip` | instances of one component |
| `MCBuildingBlocks` | `Fork`, `AsyncChannel`, `IntrusiveList`, `IntrusiveQueue`, `BufferSpan`, `BufferedSequence`, `AsyncResource`, `Deferred` |
| `MCAdaptors` | `MergeEach`, `ItemResults`, `Finally`, `EchoServer`, `Resolve`, `BatchedReads` |

The last two modules hold several small components each. A behaviour exercises
one of them: the variable `part` is chosen in the initial state, only the actions
of that part are enabled, and the inputs of the others are fixed, so that the
state spaces add up and do not multiply. A property of another part holds
trivially in such a behaviour and says what it says in its own.

Definitions keep the names of the source where they can (`ref_counter`,
`completion_type`, `n_pending_ops`, `log2_64`, `without_prefix`). Each module also
holds mutated forms of some actions, marked "Mutant of": bugs the code could have
had, each of which breaks the property it is paired with in `PROJECT.json`. No
specification uses them.

### AsyncMutex

A call of `start()` is named by the operation it is called on, since an
operation is started once. `pc` says where the call is: it pushes the operation
(`PushFront`), tries to own `locked_` (`TryLock`), takes the whole queue
(`PopAll`), completes the operations one by one (`Complete`, `Return`), releases
(`Unlock`) and looks at the queue again (`CheckEmpty`). `Start` is a call by a
thread; `StartNested` is a call from inside the continuation that another call is
running, which does not go on before the nested call has returned. `inflight` is
the lock-free queue, modelled as an atomic stack (it belongs to stdexec).

`StoreBuffering` adds what x86 does with the release store of false: it sits in a
store buffer (`unflushed`) until `Flush`, and the load in `empty()` may overtake
it. A compare-exchange waits for the thread's own buffer.

`AsyncLock` is the abstract specification. The mapping takes an operation that
was pushed to *waiting*, one whose continuation runs to *holding*, and one whose
continuation has returned to *released*.

### MemoryPool

Every member of `Ops` uses the pool once: it allocates (`TakeFree`,
`TakeUpstream` or `Enqueue`), is completed (`Deliver`, or `CompleteTarget` of the
thread that gave a block back), constructs its object (`Construct`, which may
throw), gives the block back (`Reclaim`: `HandOver` to the first waiter of the
class, or `PutFree`) and finishes. A section under `mutex_` is one step; what
follows the unlock is another. `fresh`, `leaked` and `returned` account for the
chunks of the upstream resource: `allocate` calls `do_allocate` twice, and the
first chunk is `leaked`.

The life of a stop callback is `callback`: registered under the mutex, running
from the request, erased from the list under the mutex, reset. A stop that was
requested before the start runs the callback inside `emplace`, under the mutex
that the callback wants to lock: the state `self_deadlock`, in which the use stays
and is never completed.

Stop requests come on any thread. `reclaim_memory` may have popped an allocation
when its callback erases it, and `erase` then goes by links that are stale.
`pending` is therefore the list pointer by pointer (`ListLinks`), and `StopErase`
does to it what `erase` does: it may drop everybody from the list, or bring back an
operation that has left it. `waiting` is what should be in the list, and
`listIntact` becomes false when an allocation is erased that is not linked. From
then on a block may go to an operation that no longer waits
(`HandOverStale`, `CompleteTargetStale`). If that operation was completed, the
thread works on memory of somebody else: it is `dangling`, and the behaviour ends
there.

`1 << (index + 1)` is an `int` shift. `SizeAssumption` keeps the sizes to those for
which it does not overflow.

### MergeEach

`start()` starts the children in order (`StartNext`); each child then ends with
`SetValue`, `SetStopped` or `SetError`, claims and stores its error
(`EmplaceError`), asks the others to stop, decrements the counter, and completes
the receiver if it was the last. Every atomic access is a step.

### Fork

`parent` and `item[i]` say where `operation::start()`, the parent sequence and
each item are. `start()` registers the callback (`Start`), looks whether a stop was
requested (`PassStopCheck`, `RefuseStart`) and only then stores the first reference
(`StartParent`). An item acquires a reference (`SetNext`), is allocated, started
and detached, and drops its reference when its operation has been deleted
(`ItemDeleted`, `DecreaseRefItem`). `Complete` is the step of the holder of the
last reference. `OuterStop` and the `Callback...` actions are the stop callback,
whose `request_stop()` lets items and the parent end on the callback's own thread
(`stopping` until `CallbackStopReturns`), and which then calls `decrease_ref`
without owning a reference. With it the count can reach 0 while items run, and go
below 0. The properties about the count and the order of completion therefore
speak of receivers that are not stopped; that the receiver is completed at most
once is checked with stop requests.

### Zip

Item `<<c, k>>` is the k-th item of child c. `pc[i]` is the call of
`notify_result_completion` on the thread of item i, with the steps of the source:
count (`Notify`), collect the results (`Collect`, step 1), pop the items (`Pop`,
step 2), check for a stop (`TestStop`), count what is queued again (`Count`,
step 4), start the zipped operation (`StartZipped`, step 5) and notify for the
next round (`NotifyNext`, step 6). `Drain...` is `notify_stop()`, by an item that
failed, a zipped operation that was stopped or a child that ended. A front() that
is null when it is dereferenced is the state `null_front` (steps 1 and 2) or
`null_next` (step 6).

Handlers interleave without restriction: between any two steps of one another may
run, be it that of another thread or one that a zipped operation or a stop callback
runs inline on the same thread. Storing the results of an item may throw
(`ItemThrows`); the code then completes the item, goes on to `push_back_item_op`,
and completes it again (`RefuseAgain`), which the states `again` and `twice` show.

What the receiver and the tuples see depends on the children. In lock step
(`~Overlapping`) a child starts an item when the one before it is done; with
`Overlapping` several items of one child are under way at once. `late` are the
items that passed the stop check before a stop request and were pushed after it:
they may be stranded.

### IntrusiveList and IntrusiveQueue

A list is a record of `head_`, `tail_` and the links of the nodes; every member
function of `intrusive_list` is an operator of `ListLinks` on such records. The
links of a node that left the list stay what they were, as in the code.
`IntrusiveList` makes every sequence of calls on two lists that share their nodes,
`append` and `prepend` included. `litems` are the sequences the lists stand for,
and `ContainersHoldTheirItems` compares them with the pointers in both directions.
`push_front`, `append` and `prepend` do not set `Prev` of the node where they join
(`joints`); backwards nothing is claimed across a joint. A behaviour is given up
(`lost`) with `push_front` on an empty list, which dereferences null, and with
`erase` of the node behind a joint. In the library the pool and the channel use
the list, with `push_back`, `pop_front` and `erase` only. Two queues share their
nodes and are spliced into each other, as zip does with its drained items.

### AsyncChannel

The operations of a subscription meet in `n_ops_`: `start()` (`Register`,
`CompareExchange`, `Subscribe`), the stop callback and its stop operation
(`RequestStop`, `OnStopRequested`, `Unsubscribe`), and `wrap_set_value`, which
close and a stopped item call. Whoever finds the other's mark in the exchange owes
the completion (`owed`, `Finish`). What holds the async mutex is one step, except
`notify_all`, whose loop gives other threads room between two observers
(`SpawnNext`, `Advance`) because a stopped item erases its observer without the
mutex (`NextStopped`). The list is the one of `ListLinks`, pointer by pointer:
`erase` of an observer that is not linked takes it for the only one and empties
the list. `strayErase` remembers that it happened; from then on nothing is claimed
about who is in the list.

### BufferSpan and BufferedSequence

The bytes of a span are numbered, a subspan should stand for an interval of the
numbers, and `interval` keeps it while `subspan` follows the code.

A transfer submits what is left of its buffers at its current offset (`Submit`),
the kernel moves any number of the bytes it can move (`TransferValue`), and
`AdvanceBuffer` is the arithmetic of `advance`. `moved` pairs each byte of the
buffers with the byte of the file it was moved from or to. A transfer may also
fail or be stopped (`TransferFails`, `TransferStopped`), and the buffered sequence
ends early then (`CutShort`).

### AsyncResource

Per resource the sequence goes from opening over ready (its item waits in zip) to
in use and closing; `handle` is the descriptor in the kernel. Zip's steps are
those of `Zip`: an opened token looks at the stop (`OpenValue`) and is pushed
later (`PushToken`); a child that ends decrements the counter (`ChildEnds`), asks
for the stop (`RequestZipStop`) and drains the queues (`Drain`) in three steps. A
token that is pushed after the last drain is stranded: it is never closed, and
`use_resources` never ends. `Visit` is what first delivers at the end. Opening may
fail or be stopped, `set_next` or the function may throw, and the receiver may
request stop at any time.

### Deferred

A place holds a deferred object, of which the arguments, the value or neither is
alive. The constructor of the value may throw, after the arguments were destroyed.
A behaviour ends where dead arguments are read: a copy of, or a second call on, an
object that was called, which the class does not prevent.

### ItemResults and Finally

`emplaced` is the `emplaced_` of first: an item claims (`ClaimFirst`), constructs
(`ConstructFirst`) or has lost. last stores every item over the one before
(`EmplaceLast`), and with scan in front (`Scan`) it is reduce: the sum is added up
under one mutex and stored under another. Sums are sets of items, so a lost item
shows. Where the code reads a result nobody constructed (`Visited`), any outcome
may follow; a sequence without items gets there.

`Finally` has the initial sequence, its items, the final sender and what tap
remembers of a failed item.

### Resolve

The request, the list that getaddrinfo_a allocates, the iterator and the endpoints
made from its entries. A port has two bytes of base `Radix`, so that swapping them
is visible.

### EchoServer and BatchedReads

`EchoServer` is one process of `tcp_echo_server`: the acceptor is a resource,
`repeat` accepts for ever, every client runs detached in fork with `finally(echo,
close)`, and the first error ends it all. Fork appears by its reference count and
stop source only; `Fork` has the rest.

`BatchedReads` divides files and bytes among threads, lets them count into
relaxed counters, and lets main read these one after the other for its reports
until the last completion is notified or a timeout makes it look.

## Runs

Passing runs.

| Run | Instance | Checks |
|---|---|---|
| `mutex` | four operations, threads and nesting, fair | `TypeOK`, `NoLockLost`, `ImplementsAsyncLock` (the refinement with its fairness, and thus mutual exclusion and that every lock completes) |
| `mutex_tso` | four operations, store buffer | `MutualExclusion`, `LinkedNodesAreAlive` |
| `pool` | five uses, two of them stoppable, two size classes, four chunks, threads, fair | `BlockInOnePlace`, `WaitersLeaveNothingFree`, `BlockFits`, `CompletedOnce`, `WaiterIsServed` |
| `zip` | two children in lock step with two items each, any threads, fair | `FrontsPresent`, `TuplesAligned`, `ReadyIsCounted`, `CompletedByLastChild`, `CompletesOrStrands` |
| `zip_items` | two children, two items each under way at once, any threads | `ItemInOnePlace` |
| `blocks` | see the bounds | fork: `CompletesAfterAllItems`, `FailureShows`, `CompletedOnce`; list and queue: `ContainersHoldTheirItems`; channel: `SubscriberCompletedOnce`, `NobodyForgotten`; spans: `SubspanHasItsBytes`; transfers: `BytesInPlace`, `ValueMeansFilled`; resources: `OpenedIsClosedOnce`, `ResultSurvives`; deferred: `DestroysWhatIsAlive`; all but the containers, spans and deferred: `EveryOperationCompletes` |
| `adaptors` | see the bounds | merge_each: `CompletesAfterAllChildren`, `ErrorIsReported`, `OneErrorWriter`; first, last, reduce: `ResultIsConstructed`, `ReduceAddsUp`; finally, tap: `FinalRunsWhenItShould`; the echo server: `ServerOutlivesClients`, `EndsOnlyWithFailure`; resolve: `ListIsFreedOnce`; batched_reads: `LastLineIsComplete`; all but first, last and reduce: `EveryOperationCompletes` |

What some of these do not say:

- In `pool`, `BlockInOnePlace` and `BlockFits` hold to the end.
  `WaitersLeaveNothingFree` and `CompletedOnce` hold until an operation is erased
  that is not linked, and `WaiterIsServed` asks for an intact list too. All of them
  stop at a thread that is dangling. `CompletedOnce` means at most once: a use in
  `self_deadlock` is never completed.
- In `zip`, `FrontsPresent` and `ReadyIsCounted` are about what happens before a
  stop is requested; `TuplesAligned` and `CompletedByLastChild` are about any.
  `CompletesOrStrands` leaves two ways for zip not to end: an item is stranded,
  which is a [finding](#findings), and a stop empties a queue between the count
  and step 1 or 2, where a null `front()` is dereferenced.
- In `blocks`, fork's `CompletedOnce` means at most once, and
  `EveryOperationCompletes` says of `use_resources` that it ends or that a token
  is stranded (`UseCompletesOrStrands`).

The other runs (`mutex_tso_lost`, `zip_stranded`, `zip_next`, `transfer_offset`,
`resolve_port`) are expected to be violated; see [findings](#findings).

Deadlock is checked in `mutex` and `mutex_tso`. It is not checked in `pool`, where
a request of a class that never got a block waits forever (the pool takes from
upstream only on allocation, and never moves blocks between classes) and where
`self_deadlock` and `dangling` end a behaviour, in the runs of zip, where an item
can be stranded, nor in `blocks` and `adaptors`, most of whose parts end, and where
a subscriber that nobody stops or closes waits. The cfg files say so where they
switch it off; that what was started ends is `EveryOperationCompletes`.

Why the bounds are enough to meet the interesting cases:

- mutex: with three operations one owns, one is in its batch and one arrives
  late; the fourth nests in a continuation while the batch has a rest. The
  theorems remove the bound.
- pool: the sizes are 1, 15 and 16 bytes, which with the header of 16 bytes are
  17, 31 and 32: both ends of a class and the first of the next. Four chunks serve
  two requests, since each costs two, and three uses wait, so that an operation can
  be erased from a list where others wait before and behind it, or after it was
  popped. The theorems remove the bound.
- zip: with two children and two items each a round can overlap the next one, and
  a child can run ahead of the other; with `Overlapping` both items of a child can
  be pushed, counted and popped by different calls. The theorems remove the bound.
- fork: the parent, an item that fails and an item that completes race for the
  last reference, with a third item to be refused or abandoned; the receiver is
  stopped at any time. The theorems remove the bound.
- list and queues: with three nodes there is one in the middle, and the sequences
  of calls are not bounded. The same holds for deferred objects in three places.
- channel: two observers, so that erasing one can harm the other; two items, so
  that one is sent after an erase.
- spans: up to three buffers, empty ones included, cut repeatedly at every place.
- transfers: up to three buffers and four bytes, so that a short transfer can end
  inside a buffer, at its end, and behind two of them; offsets none, 0 and 1; a
  file of five bytes, so that some reads meet its end and others do not.
- resources: three, so that one closes while one waits and one is opening. The
  theorems remove the bound from all but the liveness.
- merge_each: with four children two can race for the error while a third is
  stopped and a fourth decrements. The theorems remove the bound.
- first, last, reduce: a winner, a loser and an item that comes late.
- finally: up to two items; the echo server: three clients, one that fails, one
  that goes on and one that was just accepted.
- resolve: lists of up to two results, ports of two digits to the base three,
  which can be different and equal.
- batched_reads: one and two threads, with a number of files that they divide and
  one that they do not, blocks of two bytes, and fewer files than threads.

Symmetry is used for invariants only, over operations or blocks that no constant
tells apart.

## Fairness

Fairness is weak and per thread or call: once a handler has begun its thread
takes it to its end. It also says that what the user and the kernel supply ends:
continuations of a lock return, children, items and zipped operations complete, an
owner of a block gives it back, a submitted request is answered. The receiver
contract of sender/receiver demands most of this; in zip the zipped operation, which
the receiver supplies, is among them; without the owners a pool has no
progress to promise. Nothing is assumed about whether operations are started, how
many items there are, whether a channel is closed or whether stop is requested.
Of the echo server, which is meant to run for ever, only a stopped one is assumed
to go on. The fairness is on the disjunction of the steps of one actor and never on
one of its outcomes, so a child may always fail and a transfer may always be short;
a transfer ends all the same, because each moves a byte. A read at the end of a
file moves none, and the code goes on submitting it: the property asks for an end
only where the bytes exist. Strong fairness appears only in `AsyncLock`, where it is
what the mutex is shown to implement: the mutex itself needs weak fairness only,
because a call completes all it finds.

## Proofs

Every invariant that a passing run checks is stated by a theorem, for every value
of the constants under the assumptions of their modules: `Ops`, `Blocks`, `Nodes`,
`Items`, `Resources` and `Clients` may be any sets, infinite ones too, which the
null values are not in; the numbers of children, of items in zip, of threads and of
files are any positive ones; buffers are any sequences of natural numbers; the
sizes of requests, the results of the kernel, the offsets, the addresses and the
options of batched_reads are any of their type. No proof uses a bound of an MC
module.

Theorems about a module with a specification of its own are about `SafeSpec` of
that module (its `Spec` without fairness). The others share an MC module, where a
behaviour of one part is a behaviour of its specification in which the other
variables stand still; their specification (`ResourceSpec`, `ListSpec`, `QueueSpec`,
`ChannelSpec`, `TransferSpec`, `SpanSpec`, `ServerSpec`, `FinallySpec`,
`ResolveSpec`, `ResultsSpec`, `BatchedSpec`) is defined next to the proofs from the
module's `Init` and `Next`.

`ListLemmas` says what push, pop and erase add to a list and take from it, and that
a node stays linked once. It also holds what arguments by induction need:
`NatSetInduction` is induction for a set of numbers, derived from the well-founded
order of the library, and `RecursionExists` and `RecursionOverNat` say that a
function defined by recursion over an interval or over all numbers exists and
satisfies its equation. The lemmas on `SumOfFirst` (sums of a sequence of numbers)
and on `ShiftedOne` rest on them.

**AsyncMutex.** None of the properties is inductive: that one continuation runs
needs that one call owns `locked_`, and that an operation is not completed twice
needs that it is linked once. `IndInv` adds to `TypeOK`

- `OwnerInv`: `locked_` is true in memory exactly while one call is between its
  compare-exchange and its store, or has the store in its buffer;
- `FrameInv`: only the owner has a batch, and a continuation runs in state
  *completing* only;
- `LinkInv`: a started operation that was not completed is in the queue or in one
  batch, exactly once, and no other operation is;
- `QueueWatched`: without a store buffer, a queue that is not empty has a call
  that will look at it.

`Invariance` proves that it is an invariant, with one lemma per action.
`MutualExclusionHolds` and `LinkedNodesStayAlive` follow with and without a store
buffer, `NoLockLostHolds` without one (with one it is false, see
`mutex_tso_lost`), and `RefinesAsyncLock` shows that every step maps to a step or
a stutter of `AsyncLock`.

**MemoryPool.** Stop requests come on any thread, so the list of waiters may be
anything after an operation was erased that was not linked. `IndInv` is what does
not depend on it. It adds to `BlockInOnePlace` and `TypeOK`

- `HoldInv`: a use has a block exactly between being granted one and giving it
  back, and the block is of its class, so that a block returns to the list it came
  from;
- `FreeInv`: the free blocks of a class are of this class;
- `TargetInv`: a waiter that was handed a block is completed by one use;
- `CallbackInv`: a callback is registered or running only while its use waits or
  was handed a block, and was not completed, because reset waits for it.

`BlockInOnePlaceHolds` follows: a stale operation that is handed a block either
takes it, or is `dangling` with it. `ListedInv` is the rest, and holds until
`listIntact` is false:

- `WaitInv`: the pointers denote `waiting`, in which every waiter is linked once,
  in the list of its class, until it is erased;
- `WaitersLeaveNothingFree`;
- `CompletionInv`: `completions` counts the uses that have passed their completion,
  and each waiter has one party that will complete it: the list, the one use that
  popped it, or its callback.

`ListLemmas` shows that on an intact list the pointers' `push_back`, `pop_front`
and `erase` do to the sequence what they should.
`WaitersLeaveNothingFreeHolds` and `CompletedOnceHolds` follow.

`BlockFitsHolds` adds the arithmetic: `ShiftedOne` doubles from class to class and
grows beyond every size, so that `log2_64` is the highest bit of the size, the
chunk of its class is large enough with its header, and with `SizeAssumption` the
shift stays within `int`.

**MergeEach.** The last child is the last because the counter is exact:
`LastInv` says `n_pending_ops = Cardinality(Pending)`, with `Pending` the children
that have not decremented. `ErrorInv` describes the life of `error_emplaced_`: 0
until a child fails, 1 while the first failing child is in *emplacing*, 2 with a
stored error of a failed child afterwards. Together they give
`CompletesAfterAllChildrenHolds` (no child is in *emplacing* when the count is 0),
`ErrorIsReportedHolds` and `OneErrorWriterHolds`.

**Fork.** With a receiver that stops, the count is wrong: the callback drops a
reference it does not have. `OnceInv` says why the receiver is completed at most
once all the same: whoever finds the last reference leaves a count of 0 or less,
and `increase_ref` refuses at 0, so that the count never becomes positive again.
`CountInv` holds until the receiver stops: `ref_counter` is the number of those
who own a reference (finitely many, whatever `Items` is), which is why nobody is
active at 0. `FailureInv` follows a failure from `set_error` to `completion_type`,
which never becomes `value` again, and `StartInv` has what the steps of `start()`
leave untouched. These give `CompletedOnceHolds`, `CompletesAfterAllItemsHolds`
and `FailureShowsHolds`.

**Zip.** No proof restricts how handlers interleave. What holds for all children is
`PlaceInv` (the queue of a child has its queued items, each once, and a tuple shares
no item with a queue or with another tuple: `ItemInOnePlaceHolds`) and
`CompletionInv` (`n_pending_operations_` is the number of children that have not
ended, and one that has ended has no item under way: `CompletedByLastChildHolds`).

The other properties need children in lock step; with overlapping items they are
false, since a tuple can be counted by two calls (see [findings](#findings)).
`LockInv` has its parts: `OrderInv` (one item of a child is under way, and after a
stopped one none), `StopInv` (what only a stop request can bring about), `CallInv`
(a thread makes its call on its own item, so that the popped tuple and the zipped
operation belong to the call), `RowsInv` (items are pushed in order, tuples are
rows of what was pushed, with the results collected for them), `HandInv` (one call
handles a tuple, and until it pops, each child's front was counted or a stop has
emptied the queue) and `CountInv` (the counter is the number of fronts that have
notified; after a stop request that is an upper bound). With one item of a child
under way, what a call has counted can disappear only by a drain, and a drain
needs a stop: this is why `FrontsPresentHolds` and `ReadyIsCountedHolds` are about
the time before one, and `TuplesAlignedHolds` is about any time.

**IntrusiveList and IntrusiveQueue.** That the pointers denote the sequence is
almost inductive: it needs that no node is in it twice, and that the two
containers have no node in common. In `ListInv` the links agree forwards
everywhere and backwards except at `joints`, and no joint is erased.
`ListHoldsItsItems` and `QueueHoldsItsItems` are proved per member function;
`ContainersHold` is the invariant of the run.

**AsyncChannel.** `SubscriptionsInv` follows the exchanges of `n_ops_`: a
completion is due or done only after one of them found the mark of the other side,
and is due or done at most once, whatever becomes of the list
(`SubscriberCompletedOnceHolds`). Until a node is erased that was not linked,
`ObserversInv` says that the list is sound pointer by pointer (it uses the lemmas
of `ListLinks`' functions) and that an observer that was pushed is linked exactly
while its completion is neither due nor done, and `WalkInv` that the cursor of
`notify_all` has before it the rest of the list: nobody who waits for items is
missing from it (`NobodyForgottenHolds`).

**BufferedSequence.** `Done` is the number of bytes by which the buffers were
shortened. `TransferInv` says that the bytes moved are those numbered 0 to `Done -
1`, and `PlaceInv` that the next transfer begins at the first place plus `Done`,
which the offset of the code, or the position of the kernel, has to follow. It
does for a single buffer, and for several without an offset (`KeepsOffset`; the
others are the [finding](#findings)). `BytesInPlaceHolds` and
`ValueMeansFilledHolds` follow.

**BufferSpan.** `Stands` relates pointer, size and the two offsets of a subspan to
an interval of bytes. `prefix` keeps it for any number of buffers; `suffix`, and
with it `without_prefix`, for one or two. `SubspanHasItsBytesHolds` is about one
or two buffers cut in any order, and `PrefixHasItsBytes` about any number of
buffers cut by `prefix` only.

**AsyncResource.** `HandleInv` ties the descriptor to the place where the sequence
of the resource is, `UseInv` says that fn's sender runs while all resources are in
use and that the receiver is completed when all have ended, after every one of
them has left zip. `OpenedIsClosedOnceHolds` and `ResultSurvivesHolds` follow;
where a token is stranded its resource is not closed, and the receiver not
completed.

**Deferred.** `FlagInv`: as long as nothing undefined was done, `emplaced_` names
the member that is alive, and none is where the constructor threw
(`DestroysWhatIsAliveHolds`).

**ItemResults.** `FirstInv` says what `emplaced_` means: 0 if nobody has claimed,
1 while one item constructs, 2 if the result is there, and an item halts only
after somebody has claimed. `LastInv` says that an item of last or reduce that
ended has stored a result. Thus a sequence that had an item hands over a result
that was constructed (`ResultIsConstructedHolds`). In reduce every sum has its
item (`SumInv`); if items do not overlap, one is under way at a time and its sum
is that of all before it (`LockStepInv`), which makes the last the sum of all
(`ReduceAddsUpHolds`).

**Finally.** `success_` alone decides whether the final sender runs, and it says
whether tap's item failed (`FinalInv`, `FinalRunsWhenItShouldHolds`).

**Resolve.** `LookupInv` has the iterator, the items and the reference to the list
at each place of the operation, so that the list is freed when, and only when, the
operation is done with it (`ListIsFreedOnceHolds`).

**EchoServer.** As for fork, the count is exact until the receiver stops, where
`repeat` has one reference and two while it accepts; at 0 the acceptor begins to
close, and nobody is left (`ServerOutlivesClientsHolds`). `repeat` runs for ever
unless an accept or a client failed, so a server whose receiver does not ask to
stop ends with the error of one of them (`EndsOnlyWithFailureHolds`).

**BatchedReads.** What a thread has read plus what it has left is its share
(`ReadInv`); `n_completions` counts the threads that are done, and the last line is
begun when it has reached all of them (`CompletionsInv`), so that the sums main
loads one by one are final (`LoadInv`). `LastLineIsCompleteHolds` adds that the
shares add up to at least what the options ask for, and that every file has one
reader: the division of files among threads, its remainder, and the rounding to
blocks.

Only model-checked is what the proof system cannot express or prove: the liveness
properties (`WaiterIsServed`, `CompletesOrStrands`, `EveryOperationCompletes`) and
the fairness part of `ImplementsAsyncLock`. The five properties of the runs that
are violated are refuted, not proved.

## Findings

- **A lock can be lost on x86** (`mutex_tso_lost`): the release store of false and
  the load in `empty()` are not ordered. A thread that pushes between them fails
  its compare-exchange, the owner reads the empty queue, and nobody is left to
  complete the pushed operation. Under sequential consistency it is impossible
  (`NoLockLostHolds`).
- **A stranded item** (`zip_stranded`): an item passes the stop check, the other
  child ends and drains the queues, the item is pushed and nobody completes it.
- **A null front** (`zip_next`): the call that found a full set of ready items
  starts the zipped operation with no mutex held and then uses `front()` of its
  own queue (`zip.hpp:293-295`). The zipped operation can have ended meanwhile,
  inline too, and its `notify_stop()` has emptied the queue. The comment at
  `zip.hpp:255-256` says that there is no other candidate.
- **The second buffer gets the wrong bytes** (`transfer_offset`): `advance` adds to
  the offset what is left after the used up buffers were subtracted, so after a
  short transfer the next one starts too early. Without an offset the kernel's own
  position is right, and a single buffer is right too (`BytesInPlace`).
- **Swapped ports** (`resolve_port`): the port of a resolved address is in network
  order and is converted to it once more.

Behaviours that the models reach and that no document or test rules out:

- fork completes its receiver at most once, but while items run when the receiver
  stops, because the stop callback gives up a reference it does not have;
- zip's last child can complete the receiver while another child is still to call
  `notify_stop()`; with items of one child on several threads an item that was
  pushed but has not notified is counted twice, so two calls start the next zipped
  operation and the later one dereferences a null `front()` in step 1; an item whose
  results throw when they are stored is completed with set_stopped twice
  (`zip.hpp:316-321`);
- `use_resources` never ends, and never closes the file, when zip strands its token;
- in the pool a stop on another thread races with deallocation: the popped operation
  is erased through stale links, which empties or corrupts the list of waiters, and
  is completed twice; a stop requested before the start locks `mutex_` twice;
  every block costs two upstream allocations, of which one is never given back;
- `intrusive_list::push_front` on an empty list dereferences null, and neither it
  nor `append` nor `prepend` sets `Prev` of the node behind, so that erasing that
  node unlinks the wrong ones (nothing in the library calls them);
- a deferred that is copied, moved or called after it was called reads arguments
  that were destroyed, and one whose value throws destroys them twice;
- in the channel a stop that is served before its subscription, or after close took
  the observer, erases a node that is not linked and with it the list;
- the suffix of a span of three or more buffers has the wrong bytes
  (`const_buffer_span.cpp:154`);
- a read past the end of a file never ends; `read_some` without offset reads from
  the start of the file where `write_some` uses its position;
- first and last read a result that was never constructed when the sequence has no
  items, and first completes its receiver before it does so. The test "last - with
  empty ranges" (`tests/sequence/test_last.cpp:68-71`) does this and passes by what
  the memory happens to hold: it looks only at whether `sync_wait` gave a value;
- reduce over items that overlap may deliver a sum that misses items;
- a resource whose own `set_next` throws is not closed, a connection that is
  accepted while the server stops is not closed, and a listening socket whose bind
  fails is not closed;
- resolve does not free its list when an exception is thrown for a later result,
  and waits for ever if getaddrinfo_a refuses the request.

## What the models leave out

Not modelled:

- Memory order: apart from the store buffer of the mutex, atomics are
  sequentially consistent. The decrement of merge_each (`merge_each.hpp:63`) is
  relaxed and need not show the last child the error another one stored.
- Lifetimes: a completed operation stays readable in the models. That a node is
  not touched after its completion is a property of the mutex; the mutex object
  itself (`async_mutex.hpp:70` reads it after the last continuation) and the item
  operations of zip (`zip.hpp:213`) are not tracked. Nor is the depth of the stack:
  `repeat` over a sender that completes inline calls itself.
- Exceptions: the constructor of a pool object, the allocation and construction of
  a fork item, storing an item's results and the connect of a zipped operation in
  zip, `set_next` in async_resource and `start_next` in resolve may throw;
  `subscribe` in repeat does not.
- In zip a child completes after all of its items have.
- In the pool, what happens after a thread has begun to work on an operation that
  was completed (`dangling`).
- Sizes of 2^30 bytes and more in the pool, where `1 << (index + 1)` leaves `int`
  (`SizeAssumption`).
- In the channel a loop of notify_all and an erase by another thread interleave
  step by step; two erases that overlap are a data race and are not modelled.
- The suffix of spans of three and more buffers, which has the wrong bytes, and the
  iterators of buffer spans (`const_buffer_span.cpp:53` indexes with -1 from
  the last buffer on), the views of `buffer()`, and comparison.
- `connect`, `sendmsg` and `bind` of the socket handles fill in one request and
  complete with its result; the queues between the library and the kernel belong to
  `exec::io_uring_context`, outside the repository. `with_env`, `read_batched`
  and the rest of `async_allocator` are adapters without shared state. Concepts,
  address types and the aliases of stdexec have no state over time.
- first has a specialization for lock step sequences that cannot be instantiated
  (it calls `index()` on a `__manual_lifetime`).
- In the examples: the echoed bytes, the random offsets and the parsing of options;
  the default of 4096 bytes of `--size`, which the code does not round
  (`batched_reads.cpp:291`).
