---------------------------- MODULE BatchedReads ----------------------------
(***************************************************************************)
(* The benchmark examples/batched_reads.cpp: main splits files and bytes   *)
(* among threads, every thread reads random blocks through fork, zip and   *)
(* reduce, and main prints the shared counters every second until the last *)
(* thread has reported its completion.                                     *)
(***************************************************************************)
EXTENDS Lists, Integers, FiniteSets

CONSTANTS
  block_size,    \* 4096 in the code
  Options        \* the program options: [nthreads, nfiles, size]; -1: no --size

ASSUME BatchedAssumption ==
  /\ block_size \in Nat \ {0}
  /\ Options \subseteq
       [nthreads : Nat \ {0}, nfiles : Nat \ {0}, size : Nat \union {-1}]

VARIABLES
  opt,           \* the options of this run
  main,          \* where main is
  worker,        \* per thread: where run_io_uring is
  left,          \* per thread: the bytes of its blocks that are not read yet
  n_bytes_read,  \* counters::n_bytes_read
  n_io_ops,      \* counters::n_io_ops
  n_completions, \* counters::n_completions
  loaded,        \* load_stats: the threads it has read, and its sums
  report         \* the line that was printed last

batchedVars == <<opt, main, worker, left, n_bytes_read, n_io_ops,
                 n_completions, loaded, report>>

Threads == 0..(opt.nthreads - 1)

(* The sum of what each thread counts.                                     *)
Total(count) == SumOfFirst(opt.nthreads, [i \in 1..opt.nthreads |-> count[i - 1]])

NoSums == [next |-> 0, bytes |-> 0, ops |-> 0]

(* The rounding of option --size, of main and of thread_state: to the next *)
(* multiple of block_size that is larger.                                  *)
RoundUp(n) == n + (block_size - (n % block_size))

(* What the user asks for, by default one block.                           *)
Asked(o) == IF o.size = -1 THEN block_size ELSE o.size

n_total_bytes(o) == IF o.size = -1 THEN Asked(o) ELSE RoundUp(Asked(o))

n_bytes_per_thread(o) == RoundUp(n_total_bytes(o) \div o.nthreads)

n_files_per_thread(o) == o.nfiles \div o.nthreads

(* The subspan of files that main gives to thread t.                       *)
FilesOf(o, t) ==
  t * n_files_per_thread(o) ..
    (IF t = o.nthreads - 1 THEN o.nfiles ELSE (t + 1) * n_files_per_thread(o)) - 1

(* thread_state, and file_state with its read_num_blocks buffers.          *)
BytesOf(o, t) ==
  LET n == Cardinality(FilesOf(o, t))
  IN n * (RoundUp(n_bytes_per_thread(o) \div n) \div block_size) * block_size

BatchedInit ==
  /\ opt \in Options
  /\ main = "spawning"
  /\ worker = [t \in Threads |-> "none"]
  /\ left = [t \in Threads |-> 0]
  /\ n_bytes_read = left
  /\ n_io_ops = left
  /\ n_completions = 0
  /\ loaded = NoSums
  /\ report = NoSums

(* main: the loop that starts the threads, or the exception before it.     *)
Spawn ==
  /\ main = "spawning"
  /\ IF n_files_per_thread(opt) < 1
       THEN main' = "terminated" /\ UNCHANGED worker
       ELSE \E t \in Threads :
              /\ worker[t] = "none"
              /\ \A u \in Threads : u < t => worker[u] # "none"
              /\ worker' = [worker EXCEPT ![t] = "starting"]
              /\ main' = IF t = opt.nthreads - 1 THEN "waiting" ELSE main
  /\ UNCHANGED <<opt, left, n_bytes_read, n_io_ops, n_completions, loaded, report>>

(* An exception that leaves run_io_uring, from file_state (open, fstat,    *)
(* memory), or from sync_wait when a read failed: std::terminate.          *)
WorkerThrows(t) ==
  /\ main # "terminated"
  /\ worker[t] \in {"starting", "reading"}
  /\ main' = "terminated"
  /\ UNCHANGED <<opt, worker, left, n_bytes_read, n_io_ops, n_completions, loaded, report>>

WorkerStarts(t) ==
  /\ main # "terminated"
  /\ worker[t] = "starting"
  /\ worker' = [worker EXCEPT ![t] = "reading"]
  /\ left' = [left EXCEPT ![t] = BytesOf(opt, t)]
  /\ UNCHANGED <<opt, main, n_bytes_read, n_io_ops, n_completions, loaded, report>>

(* A read of one of the blocks ends, maybe short, and read_with_counter    *)
(* calls notify_read: first the bytes ...                                  *)
NotifyBytes(t) ==
  /\ main # "terminated"
  /\ worker[t] = "reading"
  /\ \E n \in 1..block_size :
       /\ n <= left[t]
       /\ left' = [left EXCEPT ![t] = @ - n]
       /\ n_bytes_read' = [n_bytes_read EXCEPT ![t] = @ + n]
  /\ worker' = [worker EXCEPT ![t] = "counting"]
  /\ UNCHANGED <<opt, main, n_io_ops, n_completions, loaded, report>>

(* ... then the operation.                                                 *)
NotifyOps(t) ==
  /\ main # "terminated"
  /\ worker[t] = "counting"
  /\ n_io_ops' = [n_io_ops EXCEPT ![t] = @ + 1]
  /\ worker' = [worker EXCEPT ![t] = "reading"]
  /\ UNCHANGED <<opt, main, left, n_bytes_read, n_completions, loaded, report>>

(* Mutants of WorkerEnds: the thread reports before its reads are done,    *)
(* and it does not report at all.                                          *)
WorkerEndsEarly(t) ==
  /\ main # "terminated"
  /\ worker[t] = "reading"
  /\ worker' = [worker EXCEPT ![t] = IF left[t] = 0 THEN "done" ELSE @]
  /\ n_completions' = n_completions + 1
  /\ n_completions < opt.nthreads
  /\ UNCHANGED <<opt, main, left, n_bytes_read, n_io_ops, loaded, report>>

(* sync_wait returns: n_completions is increased under the mutex.          *)
WorkerEnds(t) ==
  /\ main # "terminated"
  /\ worker[t] = "reading" /\ left[t] = 0
  /\ worker' = [worker EXCEPT ![t] = "done"]
  /\ n_completions' = n_completions + 1
  /\ UNCHANGED <<opt, main, left, n_bytes_read, n_io_ops, loaded, report>>

(* print_statistics: wait_for returns after a second with the value of the *)
(* predicate, or as soon as it holds.  A wakeup before leaves it waiting.  *)
WaitForCompletion ==
  /\ main = "waiting"
  /\ main' = IF n_completions = opt.nthreads THEN "last line" ELSE "line"
  /\ UNCHANGED <<opt, worker, left, n_bytes_read, n_io_ops, n_completions, loaded, report>>

(* load_stats: the counters of one thread after the other.  The two loads  *)
(* of a thread are one step: no property relates its bytes and its reads.  *)
LoadStats ==
  LET t == loaded.next
  IN /\ main \in {"line", "last line"}
     /\ t \in Threads
     /\ loaded' = [next |-> t + 1, bytes |-> loaded.bytes + n_bytes_read[t],
                   ops |-> loaded.ops + n_io_ops[t]]
     /\ UNCHANGED <<opt, main, worker, left, n_bytes_read, n_io_ops, n_completions, report>>

PrintLine ==
  /\ main \in {"line", "last line"}
  /\ loaded.next \notin Threads
  /\ report' = loaded
  /\ loaded' = NoSums
  /\ main' = IF main = "line" THEN "waiting" ELSE "joining"
  /\ UNCHANGED <<opt, worker, left, n_bytes_read, n_io_ops, n_completions>>

Join ==
  /\ main = "joining"
  /\ \A t \in Threads : worker[t] = "done"
  /\ main' = "ended"
  /\ UNCHANGED <<opt, worker, left, n_bytes_read, n_io_ops, n_completions, loaded, report>>

MainStep == Spawn \/ WaitForCompletion \/ LoadStats \/ PrintLine \/ Join

WorkerStep(t) ==
  \/ WorkerThrows(t) \/ WorkerStarts(t) \/ NotifyBytes(t) \/ NotifyOps(t)
  \/ WorkerEnds(t)

BatchedNext == MainStep \/ \E t \in Threads : WorkerStep(t)

-----------------------------------------------------------------------------
(* The last line counts all that was read, although the counters are read  *)
(* without a lock: no read is under way, each file was read by one thread, *)
(* and at least the bytes that the user asked for were read, however files *)
(* and bytes were divided and rounded.                                     *)
LastLineIsComplete ==
  main \in {"joining", "ended"} =>
    /\ \A f \in 0..(opt.nfiles - 1) :
         Cardinality({t \in Threads : f \in FilesOf(opt, t)}) = 1
    /\ report.bytes = Total([t \in Threads |-> BytesOf(opt, t)])
    /\ report.ops = Total(n_io_ops)
    /\ report.bytes >= Asked(opt)

(* The program ends: the completion that ends the wait is not missed.      *)
ProgramEnds == <>(main \in {"ended", "terminated"})
=============================================================================
