----------------------------- MODULE MCAdaptors -----------------------------
(* The sequence algorithms, the resolver and the two example programs that *)
(* are built from them: a behaviour exercises one.                         *)
EXTENDS MergeEach, ItemResults, Finally, EchoServer, Resolve, BatchedReads

VARIABLE part  \* which of them this behaviour is about

mcVars == <<part, vars, resultVars, finallyVars, serverVars, resolveVars, batchedVars>>

MaxThreads == CHOOSE n \in {o.nthreads : o \in Options} :
                \A o \in Options : o.nthreads <= n

Parts == {"merge", "results", "finally", "server", "resolve", "batched"}

(* The inputs of a part vary only in its own behaviours.                   *)
MCInit ==
  /\ Init /\ ResultsInit /\ FinallyInit /\ ServerInit /\ ResolveInit /\ BatchedInit
  /\ part \in Parts
  /\ part # "results" => consumer = [kind |-> "last", overlap |-> FALSE]
  /\ part # "finally" => adaptor = "tap"
  /\ part # "resolve" => query = 0
  /\ part # "batched" => opt = CHOOSE o \in Options : TRUE

Merge(A) ==
  /\ part = "merge" /\ A
  /\ UNCHANGED <<part, resultVars, finallyVars, serverVars, resolveVars, batchedVars>>
Results(A) ==
  /\ part = "results" /\ A
  /\ UNCHANGED <<part, vars, finallyVars, serverVars, resolveVars, batchedVars>>
FinallyOnly(A) ==
  /\ part = "finally" /\ A
  /\ UNCHANGED <<part, vars, resultVars, serverVars, resolveVars, batchedVars>>
Server(A) ==
  /\ part = "server" /\ A
  /\ UNCHANGED <<part, vars, resultVars, finallyVars, resolveVars, batchedVars>>
Lookup(A) ==
  /\ part = "resolve" /\ A
  /\ UNCHANGED <<part, vars, resultVars, finallyVars, serverVars, batchedVars>>
Batched(A) ==
  /\ part = "batched" /\ A
  /\ UNCHANGED <<part, vars, resultVars, finallyVars, serverVars, resolveVars>>

MCNext ==
  \/ Merge(Next) \/ Results(ResultsNext) \/ FinallyOnly(FinallyNext)
  \/ Server(ServerNext) \/ Lookup(ResolveNext) \/ Batched(BatchedNext)

MCSafeSpec == MCInit /\ [][MCNext]_mcVars

(* Fairness: every operation that was started goes on.  A server does so   *)
(* for ever, so only that of a stopped one is assumed.                     *)
MCSpec ==
  /\ MCSafeSpec
  /\ WF_mcVars(Merge(StartNext))
  /\ \A c \in Children : WF_mcVars(Merge(Step(c)))
  /\ WF_mcVars(FinallyOnly(FinallyStep))
  /\ WF_mcVars(Server(forkStop /\ ServerStep))
  /\ WF_mcVars(Lookup(ResolveNext))
  /\ WF_mcVars(Batched(MainStep))
  /\ \A t \in 0..(MaxThreads - 1) : WF_mcVars(Batched(t \in Threads /\ WorkerStep(t)))

(* Whatever was started ends: merge_each after all its children, also when *)
(* they end at the same time; finally and tap however the sequence, its    *)
(* items and the final sender end; a server that was stopped; a lookup     *)
(* that was accepted; and batched_reads, whose main thread is woken by the *)
(* last worker.                                                            *)
EveryOperationCompletes ==
  /\ part = "merge" => EventuallyCompletes
  /\ part = "finally" => ReceiverOfFinallyCompletes
  /\ StoppedServerEnds
  /\ LookupCompletes
  /\ part = "batched" => ProgramEnds

OptionsValue ==
  {[nthreads |-> 1, nfiles |-> 3, size |-> 2], [nthreads |-> 2, nfiles |-> 1, size |-> 1],
   [nthreads |-> 2, nfiles |-> 3, size |-> -1]}
=============================================================================
