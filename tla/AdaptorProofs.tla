---------------------------- MODULE AdaptorProofs ----------------------------
(***************************************************************************)
(* Proofs about the sequence adaptors that keep one result or run one more *)
(* sender (ItemResults, Finally), about Resolve, and about the programs    *)
(* that are built from them: EchoServer for any set of clients, and        *)
(* BatchedReads for any number of threads, files and bytes.                *)
(***************************************************************************)
EXTENDS EchoServer, ItemResults, Finally, Resolve, BatchedReads, ListLemmas,
        FiniteSetTheorems

(***************************************************************************)
(* EchoServer.                                                             *)
(***************************************************************************)

ServerSpec == ServerInit /\ [][ServerNext]_serverVars

ServerTypeOK ==
  /\ refs \in Int
  /\ client \in [Clients -> {"none", "echoing", "closing", "closed", "lost"}]
  /\ accepting \in {"none", "repeat", "accepting", "ended"}
  /\ acceptor \in {"none", "open", "failed", "lost", "closing", "closed"}

Served == {c \in Clients : client[c] \in {"echoing", "closing"}}

(* The references of fork's parent, the repeat, and of its current accept. *)
AcceptReferences ==
  IF accepting = "accepting" THEN 2 ELSE IF accepting = "repeat" THEN 1 ELSE 0

References == Cardinality(Served) + AcceptReferences

(* Until its receiver requests stop, fork's count is exact, and the        *)
(* acceptor stays open while it is positive.                               *)
ServerCountInv ==
  /\ IsFiniteSet(Served)
  /\ acceptor = "none" => accepting = "none"
  /\ accepting = "none" => Served = {}
  /\ ~asked =>
       /\ refs = References
       /\ accepting = "none" <=> acceptor \in {"none", "failed", "lost"}
       /\ acceptor \in {"closing", "closed"} => refs = 0

(* Until then only a failure stops fork, and only a stopped fork ends the  *)
(* repeat and with it the server.                                          *)
FailureInv ==
  ~asked =>
    /\ forkStop => failure
    /\ accepting = "ended" => forkStop
    /\ server # "running" => server = "error"

ServerInv == ServerTypeOK /\ ServerCountInv /\ FailureInv

-----------------------------------------------------------------------------
(* The clients that are served are counted.                                *)
LEMMA ServedCount ==
  ASSUME IsFiniteSet(Served)
  PROVE  /\ Cardinality(Served) \in Nat
         /\ Cardinality(Served) = 0 <=> Served = {}
BY FS_CardinalityType, FS_EmptySet

(* A client that is accepted is one more.                                  *)
LEMMA ServedGrows ==
  ASSUME IsFiniteSet(Served), NEW c \in Clients, c \notin Served
  PROVE  /\ IsFiniteSet(Served \union {c})
         /\ Cardinality(Served \union {c}) = Cardinality(Served) + 1
BY FS_AddElement

(* A client that was closed is one less.                                   *)
LEMMA ServedShrinks ==
  ASSUME IsFiniteSet(Served), NEW c \in Served
  PROVE  /\ IsFiniteSet(Served \ {c})
         /\ Cardinality(Served \ {c}) = Cardinality(Served) - 1
BY FS_RemoveElement

(* Nobody is served before the acceptor is open.                           *)
LEMMA ServerInitInv == ServerInit => ServerInv
<1> SUFFICES ASSUME ServerInit PROVE ServerInv
  OBVIOUS
<1> USE DEF ServerInit
<1>1. ServerTypeOK /\ FailureInv
  BY DEF ServerTypeOK, FailureInv
<1>2. Served = {} /\ IsFiniteSet({}) /\ Cardinality({}) = 0
  BY FS_EmptySet DEF Served
<1>3. ServerCountInv
  BY <1>2 DEF ServerCountInv, References, AcceptReferences
<1> QED
  BY <1>1, <1>3 DEF ServerInv

(* The acceptor is opened, or not.                                         *)
LEMMA OpenInv ==
  ASSUME ServerInv, OpenAcceptor \/ OpenAcceptorFails
  PROVE  ServerInv'
<1> ServerTypeOK /\ ServerCountInv /\ FailureInv
  BY DEF ServerInv
<1>1. UNCHANGED <<client, asked, forkStop>> /\ acceptor = "none"
  BY DEF OpenAcceptor, OpenAcceptorFails
<1>2. Served' = Served /\ Served = {} /\ Cardinality(Served) = 0
  BY <1>1, FS_EmptySet DEF Served, ServerCountInv
<1>3. FailureInv'
  BY DEF OpenAcceptor, OpenAcceptorFails, FailureInv
<1>4. CASE OpenAcceptor
  <2>1. ServerTypeOK'
    BY <1>4 DEF OpenAcceptor, ServerTypeOK
  <2>2. CASE asked
    BY <1>1, <1>2, <1>3, <1>4, <2>1, <2>2 DEF OpenAcceptor, ServerInv, ServerCountInv
  <2>3. CASE ~asked
    <3>1. accepting' = "repeat" /\ refs' = 1 /\ acceptor' = "open"
      BY <1>4, <2>3 DEF OpenAcceptor
    <3>2. References' = 1
      BY <1>2, <3>1 DEF References, AcceptReferences
    <3> QED
      BY <1>1, <1>2, <1>3, <2>1, <3>1, <3>2 DEF ServerInv, ServerCountInv
  <2> QED
    BY <2>2, <2>3
<1>5. CASE OpenAcceptorFails
  <2>1. ServerTypeOK'
    BY <1>5 DEF OpenAcceptorFails, ServerTypeOK
  <2>2. /\ acceptor' \in {"failed", "lost"}
        /\ UNCHANGED <<accepting, refs>>
    BY <1>5 DEF OpenAcceptorFails
  <2>3. ServerCountInv'
    BY <1>1, <1>2, <2>2 DEF ServerCountInv, References, AcceptReferences
  <2> QED
    BY <1>3, <2>1, <2>3 DEF ServerInv
<1> QED
  BY <1>4, <1>5

(* A reference that is dropped: the count stays exact, and only the last   *)
(* one closes the acceptor.                                                *)
LEMMA ReleaseInv ==
  ASSUME ServerInv, ServerTypeOK', IsFiniteSet(Served'), FailureInv',
         accepting # "none", accepting' # "none",
         Release(1), UNCHANGED asked,
         References' = References - 1, References >= 1
  PROVE  ServerInv'
<1> ServerTypeOK /\ ServerCountInv
  BY DEF ServerInv
<1>1. /\ refs' = refs - 1
      /\ acceptor' = "closing" \/ acceptor' = acceptor
      /\ acceptor' = "closing" => refs' = 0 \/ acceptor = "closing"
  BY DEF Release
<1>2. acceptor # "none"
  BY DEF ServerCountInv
<1>3. ASSUME ~asked
      PROVE  /\ refs' = References'
             /\ acceptor' \notin {"none", "failed", "lost"}
             /\ acceptor' \in {"closing", "closed"} => refs' = 0
  <2>1. refs = References /\ acceptor \notin {"none", "failed", "lost"}
    BY <1>3 DEF ServerCountInv
  <2>2. acceptor \notin {"closing", "closed"}
    BY <1>3, <2>1 DEF ServerCountInv
  <2> QED
    BY <1>1, <2>1, <2>2
<1>4. ServerCountInv'
  BY <1>1, <1>2, <1>3 DEF ServerCountInv
<1> QED
  BY <1>4 DEF ServerInv

(* repeat takes a reference for the next accept, or ends.                  *)
LEMMA RepeatInv ==
  ASSUME ServerInv, Repeat
  PROVE  ServerInv'
<1> ServerTypeOK /\ ServerCountInv /\ FailureInv
  BY DEF ServerInv
<1>1. accepting = "repeat" /\ UNCHANGED <<client, forkStop, asked>>
  BY DEF Repeat
<1>2. Served' = Served /\ IsFiniteSet(Served) /\ Cardinality(Served) \in Nat
  BY <1>1, ServedCount DEF Served, ServerCountInv
<1>3. FailureInv'
  BY DEF Repeat, FailureInv
<1>4. CASE forkStop
  <2>1. accepting' = "ended" /\ Release(1)
    BY <1>4 DEF Repeat
  <2>2. ServerTypeOK'
    BY <1>1, <2>1 DEF ServerTypeOK, Release
  <2>3. References' = References - 1 /\ References >= 1
    BY <1>1, <1>2, <2>1 DEF References, AcceptReferences
  <2> QED
    BY <1>1, <1>2, <1>3, <2>1, <2>2, <2>3, ReleaseInv
<1>5. CASE ~forkStop
  <2>1. accepting' = "accepting" /\ refs' = refs + 1 /\ UNCHANGED acceptor
    BY <1>5 DEF Repeat
  <2>2. ServerTypeOK'
    BY <1>1, <2>1 DEF ServerTypeOK
  <2>3. References' = References + 1 /\ References >= 1
    BY <1>1, <1>2, <2>1 DEF References, AcceptReferences
  <2>4. ServerCountInv'
    BY <1>1, <1>2, <2>1, <2>3 DEF ServerCountInv
  <2> QED
    BY <1>3, <2>2, <2>4 DEF ServerInv
<1> QED
  BY <1>4, <1>5

(* The reference of an accept goes to the client, or is dropped.           *)
LEMMA AcceptInv ==
  ASSUME ServerInv,
         AcceptFails \/ \E c \in Clients : AcceptValue(c) \/ AllocateFails(c)
  PROVE  ServerInv'
<1> ServerTypeOK /\ ServerCountInv /\ FailureInv
  BY DEF ServerInv
<1>1. accepting = "accepting" /\ accepting' = "repeat" /\ UNCHANGED asked
  BY DEF AcceptFails, AcceptValue, AllocateFails
<1>2. IsFiniteSet(Served) /\ Cardinality(Served) \in Nat
  BY ServedCount DEF ServerCountInv
<1>3. ASSUME Served' = Served, Release(1), client' \in [Clients ->
               {"none", "echoing", "closing", "closed", "lost"}],
             FailureInv'
      PROVE  ServerInv'
  <2>1. ServerTypeOK'
    BY <1>1, <1>3 DEF ServerTypeOK, Release
  <2>2. References' = References - 1 /\ References >= 1
    BY <1>1, <1>2, <1>3 DEF References, AcceptReferences
  <2> QED
    BY <1>1, <1>2, <1>3, <2>1, <2>2, ReleaseInv
<1>4. CASE AcceptFails
  <2>1. FailureInv'
    BY <1>4 DEF AcceptFails, FailureInv
  <2> QED
    BY <1>3, <1>4, <2>1 DEF AcceptFails, Served, ServerTypeOK
<1>5. ASSUME NEW c \in Clients, AllocateFails(c)
      PROVE  ServerInv'
  <2>1. /\ client[c] = "none" /\ client' = [client EXCEPT ![c] = "lost"]
        /\ forkStop' = TRUE /\ Release(1)
    BY <1>5 DEF AllocateFails
  <2>2. Served' = Served
    BY <2>1 DEF Served, ServerTypeOK
  <2>3. FailureInv'
    BY <1>5 DEF AllocateFails, FailureInv
  <2> QED
    BY <1>3, <2>1, <2>2, <2>3 DEF ServerTypeOK
<1>6. ASSUME NEW c \in Clients, AcceptValue(c), forkStop
      PROVE  ServerInv'
  <2>1. /\ client[c] = "none" /\ client' = [client EXCEPT ![c] = "lost"]
        /\ forkStop' = forkStop /\ Release(1)
    BY <1>6 DEF AcceptValue
  <2>2. Served' = Served
    BY <2>1 DEF Served, ServerTypeOK
  <2>3. FailureInv'
    BY <1>6 DEF AcceptValue, FailureInv
  <2> QED
    BY <1>3, <2>1, <2>2, <2>3 DEF ServerTypeOK
<1>7. ASSUME NEW c \in Clients, AcceptValue(c), ~forkStop
      PROVE  ServerInv'
  <2>1. /\ client[c] = "none" /\ client' = [client EXCEPT ![c] = "echoing"]
        /\ UNCHANGED <<forkStop, refs, acceptor>>
    BY <1>7 DEF AcceptValue
  <2>2. Served' = Served \union {c} /\ c \notin Served
    BY <2>1 DEF Served, ServerTypeOK
  <2>3. /\ IsFiniteSet(Served')
        /\ Cardinality(Served') = Cardinality(Served) + 1
    BY <1>2, <2>2, ServedGrows
  <2>4. References' = References
    BY <1>1, <1>2, <2>3 DEF References, AcceptReferences
  <2>5. ServerTypeOK'
    BY <1>1, <2>1 DEF ServerTypeOK
  <2>6. FailureInv'
    BY <1>7 DEF AcceptValue, FailureInv
  <2>7. ServerCountInv'
    BY <1>1, <2>1, <2>3, <2>4 DEF ServerCountInv
  <2> QED
    BY <2>5, <2>6, <2>7 DEF ServerInv
<1> QED
  BY <1>4, <1>5, <1>6, <1>7

(* A client is served until it was closed, and then drops its reference.   *)
LEMMA ClientInv ==
  ASSUME ServerInv, NEW c \in Clients, EchoEnds(c) \/ ClientClosed(c)
  PROVE  ServerInv'
<1> ServerTypeOK /\ ServerCountInv /\ FailureInv
  BY DEF ServerInv
<1>1. IsFiniteSet(Served) /\ Cardinality(Served) \in Nat
  BY ServedCount DEF ServerCountInv
<1>2. CASE EchoEnds(c)
  <2>1. Served' = Served
    BY <1>2 DEF EchoEnds, Served, ServerTypeOK
  <2>2. ServerTypeOK' /\ FailureInv'
    BY <1>2 DEF EchoEnds, ServerTypeOK, FailureInv
  <2>3. ServerCountInv'
    BY <1>2, <2>1 DEF EchoEnds, ServerCountInv, References, AcceptReferences
  <2> QED
    BY <2>2, <2>3 DEF ServerInv
<1>3. CASE ClientClosed(c)
  <2>1. /\ client[c] = "closing" /\ client' = [client EXCEPT ![c] = "closed"]
        /\ forkStop => forkStop'
        /\ Release(1) /\ UNCHANGED <<accepting, asked>>
    BY <1>3 DEF ClientClosed
  <2>2. c \in Served /\ Served' = Served \ {c}
    BY <2>1 DEF Served, ServerTypeOK
  <2>3. /\ IsFiniteSet(Served')
        /\ Cardinality(Served') = Cardinality(Served) - 1
        /\ Cardinality(Served) >= 1
    BY <1>1, <2>2, ServedShrinks, ServedCount
  <2>4. References' = References - 1 /\ References >= 1
    BY <1>1, <2>1, <2>3 DEF References, AcceptReferences
  <2>5. ServerTypeOK' /\ FailureInv'
    BY <1>3, <2>1 DEF ClientClosed, ServerTypeOK, Release, FailureInv
  <2>6. accepting # "none"
    BY <2>2 DEF ServerCountInv
  <2> QED
    BY <2>1, <2>3, <2>4, <2>5, <2>6, ReleaseInv
<1> QED
  BY <1>2, <1>3

(* A stop request leaves only the types and the finite number of clients   *)
(* to talk about.                                                          *)
LEMMA StopInv ==
  ASSUME ServerInv, StopServer
  PROVE  ServerInv'
<1> ServerTypeOK /\ ServerCountInv /\ FailureInv
  BY DEF ServerInv
<1>1. asked' /\ UNCHANGED <<accepting, client>> /\ (forkStop => forkStop')
  BY DEF StopServer
<1>2. ServerTypeOK' /\ (acceptor' = "none" => acceptor = "none")
  <2>1. CASE refs > 0
    BY <2>1 DEF StopServer, Release, ServerTypeOK
  <2>2. CASE ~(refs > 0)
    BY <2>2 DEF StopServer, ServerTypeOK
  <2> QED
    BY <2>1, <2>2
<1>3. ServerCountInv'
  BY <1>1, <1>2 DEF ServerCountInv, Served
<1>4. FailureInv'
  BY <1>1 DEF FailureInv
<1> QED
  BY <1>2, <1>3, <1>4 DEF ServerInv

(* When the acceptor is closed, the repeat has ended and nobody is served. *)
LEMMA RepeatEnded ==
  ASSUME ServerTypeOK, ServerCountInv, ~asked, acceptor \in {"closing", "closed"}
  PROVE  accepting = "ended" /\ Served = {}
<1>1. References = 0 /\ accepting # "none"
  BY DEF ServerCountInv
<1>2. Cardinality(Served) \in Nat /\ AcceptReferences \in Nat
  BY ServedCount DEF ServerCountInv, AcceptReferences
<1>3. Served = {} /\ AcceptReferences = 0
  BY <1>1, <1>2, ServedCount DEF ServerCountInv, References
<1> QED
  BY <1>1, <1>3 DEF AcceptReferences, ServerTypeOK

(* Every step of ServerNext and every stuttering step keeps the invariant. *)
LEMMA ServerNextInv == ServerInv /\ [ServerNext]_serverVars => ServerInv'
<1> SUFFICES ASSUME ServerInv, [ServerNext]_serverVars PROVE ServerInv'
  OBVIOUS
<1>1. CASE AcceptorClosed
  <2> ServerTypeOK /\ ServerCountInv /\ FailureInv
    BY DEF ServerInv
  <2>1. ServerTypeOK' /\ ServerCountInv'
    BY <1>1 DEF AcceptorClosed, ServerTypeOK, ServerCountInv, Served, References,
                AcceptReferences
  <2>2. ~asked => failure
    <3>1. ~asked => accepting = "ended"
      BY <1>1, RepeatEnded DEF AcceptorClosed
    <3> QED
      BY <3>1 DEF FailureInv
  <2> QED
    BY <1>1, <2>1, <2>2 DEF AcceptorClosed, ServerInv, FailureInv
<1>2. CASE UNCHANGED serverVars
  BY <1>2
  DEF serverVars, ServerInv, ServerTypeOK, ServerCountInv, FailureInv, Served,
      References, AcceptReferences
<1> QED
  BY <1>1, <1>2, OpenInv, RepeatInv, AcceptInv, ClientInv, StopInv
  DEF ServerNext, ServerStep

(* The invariant holds in every state the server can reach.                *)
LEMMA ServerInvariant == ServerSpec => []ServerInv
<1> QED
  BY ServerInitInv, ServerNextInv, PTL DEF ServerSpec

(* The acceptor is not closed while a client is served or a connection is  *)
(* accepted, for any number of clients, unless the receiver asks to stop.  *)
THEOREM ServerOutlivesClientsHolds == ServerSpec => []ServerOutlivesClients
<1>1. ASSUME ServerInv PROVE ServerOutlivesClients
  BY <1>1, RepeatEnded DEF ServerInv, ServerOutlivesClients, Served, ServerTypeOK
<1> QED
  BY <1>1, ServerInvariant, PTL

(* Nothing but a failure ends the server of any number of clients, unless  *)
(* the receiver asks to stop.                                              *)
THEOREM EndsOnlyWithFailureHolds == ServerSpec => []EndsOnlyWithFailure
<1>1. ServerInv => EndsOnlyWithFailure
  BY DEF ServerInv, FailureInv, EndsOnlyWithFailure
<1> QED
  BY <1>1, ServerInvariant, PTL

(***************************************************************************)
(* Finally.                                                                *)
(***************************************************************************)

FinallySpec == FinallyInit /\ [][FinallyNext]_finallyVars

Signals == {"value", "error", "stopped"}

FinallyTypeOK ==
  /\ adaptor \in {"finally", "tap"}
  /\ initial \in {"connected", "running"} \union Signals
  /\ itemUp \in BOOLEAN
  /\ success \in BOOLEAN
  /\ failed \in BOOLEAN
  /\ final \in {"connected", "running"} \union Signals
  /\ receiver \in {"waiting"} \union Signals

(* success_ is what tap knows of its item, an item lives as long as the    *)
(* initial sequence, and what comes after that sequence is decided by      *)
(* success_ alone.                                                         *)
FinalInv ==
  /\ success <=> adaptor = "finally" \/ ~failed
  /\ itemUp => initial = "running"
  /\ initial \in {"connected", "running"} =>
       final = "connected" /\ receiver = "waiting"
  /\ initial \in Signals /\ success =>
       final # "connected" /\ (receiver # "waiting" => final \in Signals)
  /\ initial \in Signals /\ ~success => final = "connected"

FinallyInv == FinallyTypeOK /\ FinalInv

-----------------------------------------------------------------------------
(* Nothing has ended before the start.                                     *)
LEMMA FinallyInitInv == FinallyInit => FinallyInv
BY DEF FinallyInit, FinallyInv, FinallyTypeOK, FinalInv, Signals

(* Every step of FinallyNext and every stuttering step keeps the invariant.*)
LEMMA FinallyNextInv == FinallyInv /\ [FinallyNext]_finallyVars => FinallyInv'
<1> SUFFICES ASSUME FinallyInv, [FinallyNext]_finallyVars PROVE FinallyInv'
  OBVIOUS
<1> USE DEF FinallyInv, FinallyTypeOK, FinalInv, Signals
<1>1. CASE StartInitial
  BY <1>1 DEF StartInitial
<1>2. CASE NextItem
  BY <1>2 DEF NextItem
<1>3. CASE ItemFails
  BY <1>3 DEF ItemFails
<1>4. CASE ItemSucceeds
  BY <1>4 DEF ItemSucceeds
<1>5. CASE InitialEnds
  BY <1>5 DEF InitialEnds, SetValueUnlessStopped
<1>6. CASE FinalEnds
  BY <1>6 DEF FinalEnds, SetValueUnlessStopped
<1>7. CASE AskStop
  BY <1>7 DEF AskStop
<1>8. CASE UNCHANGED finallyVars
  BY <1>8 DEF finallyVars
<1> QED
  BY <1>1, <1>2, <1>3, <1>4, <1>5, <1>6, <1>7, <1>8 DEF FinallyNext, FinallyStep

(* However long the initial sequence is and however it and its items end,  *)
(* finally completes after the final sender, and tap runs it exactly if    *)
(* the item did not fail.                                                  *)
THEOREM FinalRunsWhenItShouldHolds == FinallySpec => []FinalRunsWhenItShould
<1>1. FinallyInv => FinalRunsWhenItShould
  BY DEF FinallyInv, FinallyTypeOK, FinalInv, Signals, FinalRunsWhenItShould
<1> QED
  BY <1>1, FinallyInitInv, FinallyNextInv, PTL DEF FinallySpec

(***************************************************************************)
(* Resolve.                                                                *)
(***************************************************************************)

ResolveSpec == ResolveInit /\ [][ResolveNext]_resolveVars

Addresses == [family : {"v4", "v6"}, sin_port : Int]

ResolveTypeOK ==
  /\ query \in Ports
  /\ lookup \in {"connected", "submitted", "refused", "item", "threw", "done"}
  /\ gai \in [list : Seq(Addresses), freed : Nat]
  /\ iter \in Nat
  /\ results \in Seq(Addresses)
  /\ answer \in Seq({"value", "error", "stopped"})

(* The iterator, the items and the reference to the list at each place of  *)
(* the operation.                                                          *)
LookupInv ==
  /\ lookup \in {"connected", "submitted", "refused"} =>
       gai.list = <<>> /\ gai.freed = 0 /\ iter = 0 /\ results = <<>> /\ answer = <<>>
  /\ lookup = "item" =>
       /\ gai.freed = 0 /\ answer = <<>>
       /\ iter \in 1..Len(gai.list) /\ Len(results) = iter
  /\ lookup = "threw" =>
       /\ gai.freed = 0 /\ answer # <<>>
       /\ iter \in 1..Len(gai.list) /\ Len(results) = iter - 1
  /\ lookup = "done" =>
       \/ gai.list = <<>> /\ gai.freed = 0 /\ iter = 0 /\ results = <<>>
       \/ /\ gai.list # <<>> /\ gai.freed = 1
          /\ \/ iter \in 1..Len(gai.list) /\ Len(results) = iter
             \/ iter = Len(gai.list) + 1 /\ Len(results) = Len(gai.list)

(* The items are the entries of the list in their order.                   *)
EntriesInv ==
  /\ Len(results) <= Len(gai.list)
  /\ \A i \in 1..Len(results) : results[i] = resolver_result(gai.list[i])

ResolveInv == ResolveTypeOK /\ LookupInv /\ EntriesInv

-----------------------------------------------------------------------------
(* Nothing was asked before the start.                                     *)
LEMMA ResolveInitInv == ResolveInit => ResolveInv
BY DEF ResolveInit, ResolveInv, ResolveTypeOK, LookupInv, EntriesInv

(* The conversions between the byte orders give numbers.                   *)
LEMMA SwappedIsNumber == \A n \in Int : htons(n) \in Int
BY ResolveAssumption DEF htons

(* An entry of the list is made an endpoint.                               *)
LEMMA EndpointTyped == \A ai \in Addresses : resolver_result(ai) \in Addresses
BY SwappedIsNumber DEF Addresses, resolver_result, endpoint

(* start_next either appends the endpoint of the entry or throws.          *)
LEMMA StartResultInv ==
  ASSUME ResolveTypeOK, EntriesInv,
         NEW addresses \in Seq(Addresses), NEW i \in 1..Len(addresses),
         \A j \in 1..Len(results) : results[j] = resolver_result(addresses[j]),
         Len(results) = i - 1, answer = <<>>,
         gai' = [gai EXCEPT !.list = addresses], gai.freed = 0, iter' = i,
         query' = query, StartResult(addresses, i)
  PROVE  ResolveInv'
<1>1. /\ gai'.list = addresses /\ gai'.freed = 0
      /\ gai' \in [list : Seq(Addresses), freed : Nat]
  BY DEF ResolveTypeOK
<1>2. CASE lookup' = "item" /\ results' = Append(results, resolver_result(addresses[i]))
           /\ answer' = answer
  <2> DEFINE e == resolver_result(addresses[i])
  <2>1. e \in Addresses /\ results \in Seq(Addresses)
    <3>1. addresses[i] \in Addresses
      OBVIOUS
    <3> QED
      BY <3>1, EndpointTyped DEF ResolveTypeOK
  <2> HIDE DEF e
  <2>2. /\ Append(results, e) \in Seq(Addresses)
        /\ Len(Append(results, e)) = i
        /\ \A j \in 1..i : Append(results, e)[j] = IF j = i THEN e ELSE results[j]
    BY <2>1
  <2>3. ResolveTypeOK'
    BY <1>1, <1>2, <2>2 DEF ResolveTypeOK, Addresses, e
  <2>4. LookupInv'
    BY <1>1, <1>2, <2>2 DEF LookupInv, e
  <2>5. \A j \in 1..i : results'[j] = resolver_result(addresses[j])
    BY <1>2, <2>2 DEF e
  <2>6. Len(results') = i /\ i <= Len(addresses)
    BY <1>2, <2>2 DEF e
  <2>7. EntriesInv'
    BY <1>1, <2>5, <2>6 DEF EntriesInv
  <2> QED
    BY <2>3, <2>4, <2>7 DEF ResolveInv
<1>3. CASE lookup' = "threw" /\ answer' = Append(answer, "error")
           /\ results' = results
  <2>1. answer' = <<"error">>
    BY <1>3
  <2>2. ResolveTypeOK'
    BY <1>1, <1>3, <2>1 DEF ResolveTypeOK
  <2>3. LookupInv'
    BY <1>1, <1>3, <2>1 DEF LookupInv
  <2>4. EntriesInv'
    BY <1>1, <1>3 DEF EntriesInv
  <2> QED
    BY <2>2, <2>3, <2>4 DEF ResolveInv
<1> QED
  BY <1>2, <1>3 DEF StartResult

(* Every step of ResolveNext and every stuttering step keeps the invariant.*)
LEMMA ResolveNextInv == ResolveInv /\ [ResolveNext]_resolveVars => ResolveInv'
<1> SUFFICES ASSUME ResolveInv, [ResolveNext]_resolveVars PROVE ResolveInv'
  OBVIOUS
<1> ResolveTypeOK /\ LookupInv /\ EntriesInv
  BY DEF ResolveInv
<1>1. CASE StartLookup
  BY <1>1 DEF StartLookup, ResolveInv, ResolveTypeOK, LookupInv, EntriesInv
<1>2. CASE Notify
  <2>1. /\ gai.list = <<>> /\ gai.freed = 0 /\ iter = 0 /\ results = <<>>
        /\ answer = <<>> /\ query' = query
    BY <1>2 DEF Notify, LookupInv
  <2>2. ASSUME NEW n \in 1..MaxResults,
               NEW families \in [1..MaxResults -> {"v4", "v6"}],
               gai' = [gai EXCEPT !.list =
                         [i \in 1..n |-> [family |-> families[i],
                                          sin_port |-> htons(query)]]],
               iter' = 1,
               StartResult([i \in 1..n |-> [family |-> families[i],
                                            sin_port |-> htons(query)]], 1)
        PROVE  ResolveInv'
    <3> DEFINE addresses == [i \in 1..n |-> [family |-> families[i],
                                             sin_port |-> htons(query)]]
    <3>1. n \in Nat /\ 1 <= n /\ n <= MaxResults /\ MaxResults \in Nat
      BY ResolveAssumption
    <3>2. htons(query) \in Int
      BY SwappedIsNumber DEF ResolveTypeOK, Ports
    <3>3. \A i \in 1..n : addresses[i] \in Addresses
      BY <3>1, <3>2 DEF Addresses
    <3>4. addresses \in Seq(Addresses) /\ Len(addresses) = n
      BY <3>1, <3>3
    <3>5. gai' = [gai EXCEPT !.list = addresses] /\ StartResult(addresses, 1)
      BY <2>2
    <3>6. Len(results) = 1 - 1 /\ 1 \in 1..Len(addresses)
      BY <2>1, <3>1, <3>4
    <3>7. \A j \in 1..Len(results) : results[j] = resolver_result(addresses[j])
      BY <3>6
    <3> HIDE DEF addresses
    <3> QED
      BY <2>1, <2>2, <3>4, <3>5, <3>6, <3>7, StartResultInv
  <2>3. ASSUME lookup' = "done",
               \E signal \in {"value", "stopped", "error"} :
                 answer' = Append(answer, signal),
               UNCHANGED <<gai, iter, results>>
        PROVE  ResolveInv'
    BY <2>1, <2>3 DEF ResolveInv, ResolveTypeOK, LookupInv, EntriesInv
  <2> QED
    BY <1>2, <2>2, <2>3 DEF Notify
<1>3. CASE ResultValue
  <2>1. /\ gai.freed = 0 /\ answer = <<>> /\ iter \in 1..Len(gai.list)
        /\ Len(results) = iter /\ query' = query /\ iter' = iter + 1
        /\ gai.list \in Seq(Addresses) /\ Len(gai.list) \in Nat /\ iter \in Nat
    BY <1>3 DEF ResultValue, LookupInv, ResolveTypeOK
  <2>2. CASE iter < Len(gai.list)
    <3>1. StartResult(gai.list, iter + 1) /\ gai' = gai
      BY <1>3, <2>2 DEF ResultValue
    <3>2. gai' = [gai EXCEPT !.list = gai.list]
      BY <3>1 DEF ResolveTypeOK
    <3>3. iter + 1 \in 1..Len(gai.list) /\ Len(results) = (iter + 1) - 1
      BY <2>1, <2>2
    <3> QED
      BY <2>1, <3>1, <3>2, <3>3, StartResultInv DEF EntriesInv
  <2>3. CASE ~(iter < Len(gai.list))
    <3>1. /\ lookup' = "done" /\ answer' = Append(answer, "value")
          /\ gai' = [gai EXCEPT !.freed = @ + 1] /\ results' = results
      BY <1>3, <2>3 DEF ResultValue, Free
    <3>2. gai'.list = gai.list /\ gai'.freed = 1 /\ gai.list # <<>>
          /\ gai' \in [list : Seq(Addresses), freed : Nat]
      BY <2>1, <3>1, SMTT(20) DEF ResolveTypeOK
    <3>3. iter' = Len(gai.list) + 1 /\ Len(results) = Len(gai.list)
      BY <2>1, <2>3
    <3>4. ResolveTypeOK'
      BY <2>1, <3>1, <3>2 DEF ResolveTypeOK
    <3>5. LookupInv'
      BY <3>1, <3>2, <3>3 DEF LookupInv
    <3>6. EntriesInv'
      BY <3>1, <3>2 DEF EntriesInv
    <3> QED
      BY <3>4, <3>5, <3>6 DEF ResolveInv
  <2> QED
    BY <2>2, <2>3
<1>4. CASE ResultStopped
  <2>1. /\ gai.freed = 0 /\ answer = <<>> /\ iter \in 1..Len(gai.list)
        /\ Len(results) = iter
        /\ lookup' = "done" /\ UNCHANGED <<query, iter, results>>
        /\ gai' = [gai EXCEPT !.freed = @ + 1]
        /\ \E signal \in {"value", "stopped"} : answer' = Append(answer, signal)
    BY <1>4 DEF ResultStopped, LookupInv, Free
  <2>2. gai'.list = gai.list /\ gai'.freed = 1
        /\ gai' \in [list : Seq(Addresses), freed : Nat]
    BY <2>1 DEF ResolveTypeOK
  <2>3. gai.list # <<>>
    BY <2>1
  <2> QED
    BY <2>1, <2>2, <2>3 DEF ResolveInv, ResolveTypeOK, LookupInv, EntriesInv
<1>5. CASE UNCHANGED resolveVars
  BY <1>5 DEF resolveVars, ResolveInv, ResolveTypeOK, LookupInv, EntriesInv
<1> QED
  BY <1>1, <1>2, <1>3, <1>4, <1>5 DEF ResolveNext

(* For any radix and any length of the list: when the receiver was         *)
(* completed the list of getaddrinfo_a was freed once, unless an exception *)
(* left it behind, and the items were its entries in order.                *)
THEOREM ListIsFreedOnceHolds == ResolveSpec => []ListIsFreedOnce
<1>1. ASSUME ResolveInv PROVE ListIsFreedOnce
  <2> ResolveTypeOK /\ LookupInv /\ EntriesInv
    BY <1>1 DEF ResolveInv
  <2>1. gai.freed <= 1 /\ (lookup = "item" => gai.freed = 0)
    BY DEF ResolveTypeOK, LookupInv
  <2>2. answer # <<>> /\ lookup # "threw" =>
          gai.freed = IF gai.list = <<>> THEN 0 ELSE 1
    BY DEF ResolveTypeOK, LookupInv
  <2>3. lookup = "done" /\ iter > Len(gai.list) => Len(results) = Len(gai.list)
    BY DEF ResolveTypeOK, LookupInv
  <2> QED
    BY <2>1, <2>2, <2>3 DEF ListIsFreedOnce, EntriesInv
<1> QED
  BY <1>1, ResolveInitInv, ResolveNextInv, PTL DEF ResolveSpec

(***************************************************************************)
(* ItemResults.                                                            *)
(***************************************************************************)

ResultsSpec == ResultsInit /\ [][ResultsNext]_resultVars

Completions ==
  [signal : Endings \union {"none", "garbage"}, by : SUBSET Items,
   value : SUBSET Items]

ResultsTypeOK ==
  /\ consumer \in [kind : {"first", "last", "reduce"}, overlap : BOOLEAN]
  /\ item \in [Items -> {"idle", "running", "scanned", "claimed", "done", "halted"}]
  /\ sum \in SUBSET Items
  /\ seen \in [Items -> SUBSET Items]
  /\ emplaced \in {0, 1, 2}
  /\ resultOf \in Completions
  /\ sequence \in Endings \union {"running"}
  /\ handed \in Seq(Completions)

(* A result is stored with the item that stored it.                        *)
StoredInv ==
  resultOf = NoResult \/ (resultOf.signal \in Endings /\ resultOf.by # {})

(* first: emplaced_ says whether nobody, one item or the result won, and   *)
(* an item halts only after another one won.                               *)
FirstInv ==
  consumer.kind = "first" =>
    /\ \A i \in Items : item[i] \in {"idle", "running", "claimed", "halted"}
    /\ emplaced = 0 => \A i \in Items : item[i] \in {"idle", "running"}
    /\ emplaced = 1 => \E i \in Items : item[i] = "claimed"
    /\ emplaced = 2 <=> resultOf # NoResult
    /\ \A i \in Items : item[i] = "claimed" => emplaced = 1
    /\ \A i, j \in Items : item[i] = "claimed" /\ item[j] = "claimed" => i = j

(* last and reduce: an item that ended has stored a result, and only       *)
(* reduce's items are scanned.                                             *)
LastInv ==
  consumer.kind # "first" =>
    /\ \A i \in Items : item[i] # "claimed"
    /\ \A i \in Items : item[i] \in {"done", "halted"} => resultOf # NoResult
    /\ consumer.kind = "last" => \A i \in Items : item[i] # "scanned"

(* The sums of reduce contain their item.                                  *)
SumInv ==
  consumer.kind = "reduce" =>
    /\ sum = {i \in Items : item[i] \in {"scanned", "done"}}
    /\ \A i \in Items : item[i] = "scanned" => i \in seen[i]
    /\ resultOf.signal = "value" => resultOf.by \subseteq resultOf.value

(* In lock step one item is under way at a time and none follows one that  *)
(* halted, so the sum of an item is that of all before it.                 *)
LockStepInv ==
  consumer.kind = "reduce" /\ ~consumer.overlap =>
    /\ \A i, j \in UnderWay : i = j
    /\ (\E i \in Items : item[i] = "halted") =>
         UnderWay = {} /\ resultOf.signal # "value"
    /\ \A i \in Items : item[i] = "scanned" => seen[i] = sum
    /\ resultOf.signal = "value" =>
         resultOf.value = {i \in Items : item[i] = "done"}

(* What the receiver was handed when the sequence had ended.               *)
HandedInv ==
  sequence # "running" =>
    /\ UnderWay = {}
    /\ (\E i \in Items : item[i] # "idle") =>
         Len(handed) = 1 /\ (sequence = "value" => handed[1] = resultOf)

ItemsInv ==
  /\ ResultsTypeOK /\ StoredInv /\ FirstInv /\ LastInv /\ SumInv
  /\ LockStepInv /\ HandedInv

-----------------------------------------------------------------------------
(* Nothing is stored before the start.                                     *)
LEMMA ItemsInitInv == ResultsInit => ItemsInv
<1> SUFFICES ASSUME ResultsInit PROVE ItemsInv
  OBVIOUS
<1>1. ResultsTypeOK
  BY DEF ResultsInit, ResultsTypeOK, Completions, NoResult, Endings
<1>2. UnderWay = {}
  BY DEF ResultsInit, UnderWay
<1>3. StoredInv /\ FirstInv /\ LastInv /\ SumInv
  BY DEF ResultsInit, StoredInv, FirstInv, LastInv, SumInv, NoResult
<1>4. LockStepInv /\ HandedInv
  BY <1>2 DEF ResultsInit, LockStepInv, HandedInv, NoResult
<1> QED
  BY <1>1, <1>3, <1>4 DEF ItemsInv

(* An item that moves is the only one that does, and the sequence goes on. *)
LEMMA ItemMoves ==
  ASSUME ItemsInv, NEW i \in Items, i \in UnderWay,
         NEW place \in {"running", "scanned", "claimed", "done", "halted"},
         item' = [item EXCEPT ![i] = place], sequence' = sequence
  PROVE  /\ sequence' = "running"
         /\ HandedInv'
         /\ item' \in [Items -> {"idle", "running", "scanned", "claimed", "done",
                                 "halted"}]
         /\ \A j \in Items : item'[j] = IF j = i THEN place ELSE item[j]
         /\ UnderWay' = IF place \in {"done", "halted"} THEN UnderWay \ {i}
                                                       ELSE UnderWay
<1> ResultsTypeOK /\ HandedInv
  BY DEF ItemsInv
<1>1. sequence' = "running"
  BY DEF HandedInv
<1>2. HandedInv'
  BY <1>1 DEF HandedInv
<1>3. /\ item' \in [Items -> {"idle", "running", "scanned", "claimed", "done",
                              "halted"}]
      /\ \A j \in Items : item'[j] = IF j = i THEN place ELSE item[j]
  BY DEF ResultsTypeOK
<1>4. UnderWay' = IF place \in {"done", "halted"} THEN UnderWay \ {i} ELSE UnderWay
  BY <1>3 DEF UnderWay
<1> QED
  BY <1>1, <1>2, <1>3, <1>4

(* The start of an item.                                                   *)
LEMMA StartItemInv ==
  ASSUME ItemsInv, NEW i \in Items, StartResultItem(i)
  PROVE  ItemsInv'
<1> ResultsTypeOK /\ StoredInv /\ FirstInv /\ LastInv /\ SumInv /\ LockStepInv
    /\ HandedInv
  BY DEF ItemsInv
<1>1. /\ sequence = "running" /\ item[i] = "idle"
      /\ consumer.overlap \/ (UnderWay = {} /\ \A j \in Items : item[j] # "halted")
      /\ item' = [item EXCEPT ![i] = "running"]
      /\ UNCHANGED <<consumer, sum, seen, emplaced, resultOf, sequence, handed>>
  BY DEF StartResultItem
<1>2. /\ item' \in [Items -> {"idle", "running", "scanned", "claimed", "done",
                              "halted"}]
      /\ \A j \in Items : item'[j] = IF j = i THEN "running" ELSE item[j]
  BY <1>1 DEF ResultsTypeOK
<1>3. UnderWay' = UnderWay \union {i}
  BY <1>2 DEF UnderWay
<1>4. ResultsTypeOK'
  BY <1>1, <1>2 DEF ResultsTypeOK
<1>5. StoredInv'
  BY <1>1 DEF StoredInv
<1>6. FirstInv'
  BY <1>1, <1>2 DEF FirstInv
<1>7. LastInv'
  BY <1>1, <1>2 DEF LastInv
<1>8. SumInv'
  BY <1>1, <1>2 DEF SumInv
<1>9. LockStepInv'
  BY <1>1, <1>2, <1>3 DEF LockStepInv
<1>10. HandedInv'
  BY <1>1 DEF HandedInv
<1> QED
  BY <1>4, <1>5, <1>6, <1>7, <1>8, <1>9, <1>10 DEF ItemsInv

(* scan adds the item to the sum.                                          *)
LEMMA ScanInv ==
  ASSUME ItemsInv, NEW i \in Items, Scan(i)
  PROVE  ItemsInv'
<1> ResultsTypeOK /\ StoredInv /\ FirstInv /\ LastInv /\ SumInv /\ LockStepInv
    /\ HandedInv
  BY DEF ItemsInv
<1>1. /\ consumer.kind = "reduce" /\ item[i] = "running"
      /\ sum' = sum \union {i}
      /\ seen' = [seen EXCEPT ![i] = sum']
      /\ item' = [item EXCEPT ![i] = "scanned"]
      /\ UNCHANGED <<consumer, emplaced, resultOf, sequence, handed>>
  BY DEF Scan
<1>2. i \in UnderWay
  BY <1>1 DEF UnderWay
<1>3. /\ HandedInv'
      /\ item' \in [Items -> {"idle", "running", "scanned", "claimed", "done",
                              "halted"}]
      /\ \A j \in Items : item'[j] = IF j = i THEN "scanned" ELSE item[j]
      /\ UnderWay' = UnderWay
  BY <1>1, <1>2, ItemMoves
<1>4. /\ sum' \in SUBSET Items /\ seen' \in [Items -> SUBSET Items]
      /\ \A j \in Items : seen'[j] = IF j = i THEN sum' ELSE seen[j]
  BY <1>1 DEF ResultsTypeOK
<1>5. ResultsTypeOK'
  BY <1>1, <1>3, <1>4 DEF ResultsTypeOK
<1>6. StoredInv' /\ FirstInv'
  BY <1>1 DEF StoredInv, FirstInv
<1>7. LastInv'
  BY <1>1, <1>3 DEF LastInv
<1>8. SumInv'
  BY <1>1, <1>3, <1>4 DEF SumInv
<1>9. LockStepInv'
  <2>1. ~consumer.overlap =>
          \A j \in Items : item'[j] = "scanned" => j = i
    <3> SUFFICES ASSUME ~consumer.overlap, NEW j \in Items, item'[j] = "scanned"
                 PROVE  j = i
      OBVIOUS
    <3>1. j \in UnderWay
      BY <1>3 DEF UnderWay
    <3> QED
      BY <1>1, <1>2, <3>1 DEF LockStepInv
  <2> QED
    BY <1>1, <1>2, <1>3, <1>4, <2>1 DEF LockStepInv
<1> QED
  BY <1>3, <1>5, <1>6, <1>7, <1>8, <1>9 DEF ItemsInv

(* last and reduce store over what was there.                              *)
LEMMA EmplaceLastInv ==
  ASSUME ItemsInv, NEW i \in Items, EmplaceLast(i)
  PROVE  ItemsInv'
<1> ResultsTypeOK /\ StoredInv /\ FirstInv /\ LastInv /\ SumInv /\ LockStepInv
    /\ HandedInv
  BY DEF ItemsInv
<1>1. PICK signal \in Endings :
        /\ \/ consumer.kind = "last" /\ item[i] = "running"
           \/ consumer.kind = "reduce" /\ item[i] = "running" /\ signal # "value"
           \/ consumer.kind = "reduce" /\ item[i] = "scanned" /\ signal = "value"
        /\ resultOf' = [signal |-> signal, by |-> {i}, value |-> seen[i]]
        /\ item' = [item EXCEPT ![i] = IF signal = "value" THEN "done" ELSE "halted"]
        /\ UNCHANGED <<consumer, sum, seen, emplaced, sequence, handed>>
  BY DEF EmplaceLast
<1> DEFINE place == IF signal = "value" THEN "done" ELSE "halted"
<1>2. i \in UnderWay
  BY <1>1 DEF UnderWay
<1>3. /\ HandedInv'
      /\ item' \in [Items -> {"idle", "running", "scanned", "claimed", "done",
                              "halted"}]
      /\ \A j \in Items : item'[j] = IF j = i THEN place ELSE item[j]
      /\ UnderWay' = UnderWay \ {i}
  <2>1. place \in {"running", "scanned", "claimed", "done", "halted"}
        /\ place \in {"done", "halted"} /\ item' = [item EXCEPT ![i] = place]
    BY <1>1
  <2> HIDE DEF place
  <2> QED
    BY <1>1, <1>2, <2>1, ItemMoves
<1>4. /\ resultOf' \in Completions /\ resultOf'.signal = signal
      /\ resultOf'.by = {i} /\ resultOf'.value = seen[i]
  BY <1>1 DEF ResultsTypeOK, Completions
<1>5. resultOf' # NoResult
  BY <1>4 DEF NoResult
<1>6. ResultsTypeOK'
  BY <1>1, <1>3, <1>4 DEF ResultsTypeOK
<1>7. StoredInv'
  BY <1>4 DEF StoredInv
<1>8. FirstInv'
  BY <1>1 DEF FirstInv
<1>9. LastInv'
  BY <1>1, <1>3, <1>5 DEF LastInv
<1>10. SumInv'
  BY <1>1, <1>3, <1>4 DEF SumInv
<1>11. LockStepInv'
  <2> SUFFICES ASSUME consumer.kind = "reduce", ~consumer.overlap
               PROVE  /\ \A k, j \in UnderWay' : k = j
                      /\ (\E k \in Items : item'[k] = "halted") =>
                           UnderWay' = {} /\ resultOf'.signal # "value"
                      /\ \A k \in Items : item'[k] = "scanned" => seen'[k] = sum'
                      /\ resultOf'.signal = "value" =>
                           resultOf'.value = {k \in Items : item'[k] = "done"}
    BY <1>1 DEF LockStepInv
  <2>1. UnderWay = {i}
    BY <1>2 DEF LockStepInv
  <2>2. \A k \in Items : item[k] # "halted"
    BY <2>1 DEF LockStepInv
  <2>3. \A k \in Items : k # i => item[k] \in {"idle", "done"}
    BY <2>1, <2>2 DEF UnderWay, ResultsTypeOK
  <2>4. CASE signal = "value"
    <3>1. item[i] = "scanned" /\ seen[i] = sum
      BY <1>1, <2>4 DEF LockStepInv
    <3>2. sum = {k \in Items : item'[k] = "done"}
      BY <1>3, <2>3, <2>4, <3>1 DEF SumInv
    <3> QED
      BY <1>3, <1>4, <2>1, <2>3, <2>4, <3>1, <3>2
  <2>5. CASE signal # "value"
    BY <1>3, <1>4, <2>1, <2>3, <2>5
  <2> QED
    BY <2>4, <2>5
<1> QED
  BY <1>3, <1>6, <1>7, <1>8, <1>9, <1>10, <1>11 DEF ItemsInv

(* first: the exchange of emplaced_ lets one item through.                 *)
LEMMA ClaimFirstInv ==
  ASSUME ItemsInv, NEW i \in Items, ClaimFirst(i)
  PROVE  ItemsInv'
<1> ResultsTypeOK /\ StoredInv /\ FirstInv /\ LastInv /\ SumInv /\ LockStepInv
    /\ HandedInv
  BY DEF ItemsInv
<1> DEFINE place == IF emplaced = 0 THEN "claimed" ELSE "halted"
<1>1. /\ consumer.kind = "first" /\ item[i] = "running"
      /\ item' = [item EXCEPT ![i] = place]
      /\ emplaced' = IF emplaced = 0 THEN 1 ELSE emplaced
      /\ UNCHANGED <<consumer, sum, seen, resultOf, sequence, handed>>
  BY DEF ClaimFirst
<1>2. i \in UnderWay
  BY <1>1 DEF UnderWay
<1>3. /\ HandedInv'
      /\ item' \in [Items -> {"idle", "running", "scanned", "claimed", "done",
                              "halted"}]
      /\ \A j \in Items : item'[j] = IF j = i THEN place ELSE item[j]
  <2>1. place \in {"running", "scanned", "claimed", "done", "halted"}
    OBVIOUS
  <2> HIDE DEF place
  <2> QED
    BY <1>1, <1>2, <2>1, ItemMoves
<1>4. ResultsTypeOK'
  BY <1>1, <1>3 DEF ResultsTypeOK
<1>5. StoredInv' /\ LastInv' /\ SumInv' /\ LockStepInv'
  BY <1>1 DEF StoredInv, LastInv, SumInv, LockStepInv
<1>6. FirstInv'
  <2>1. CASE emplaced = 0
    BY <1>1, <1>3, <2>1 DEF FirstInv
  <2>2. CASE emplaced # 0
    <3>1. /\ emplaced' = emplaced
          /\ \A j \in Items : item'[j] = IF j = i THEN "halted" ELSE item[j]
      BY <1>1, <1>3, <2>2
    <3> QED
      BY <1>1, <2>2, <3>1 DEF FirstInv
  <2> QED
    BY <2>1, <2>2
<1> QED
  BY <1>3, <1>4, <1>5, <1>6 DEF ItemsInv

(* The item that won constructs the result.                                *)
LEMMA ConstructFirstInv ==
  ASSUME ItemsInv, NEW i \in Items, ConstructFirst(i)
  PROVE  ItemsInv'
<1> ResultsTypeOK /\ StoredInv /\ FirstInv /\ LastInv /\ SumInv /\ LockStepInv
    /\ HandedInv
  BY DEF ItemsInv
<1>1. PICK signal \in Endings :
        /\ item[i] = "claimed"
        /\ resultOf' = [signal |-> signal, by |-> {i}, value |-> {}]
        /\ emplaced' = 2
        /\ item' = [item EXCEPT ![i] = "halted"]
        /\ UNCHANGED <<consumer, sum, seen, sequence, handed>>
  BY DEF ConstructFirst
<1>2. i \in UnderWay /\ consumer.kind = "first"
  BY <1>1 DEF UnderWay, LastInv
<1>3. /\ HandedInv'
      /\ item' \in [Items -> {"idle", "running", "scanned", "claimed", "done",
                              "halted"}]
      /\ \A j \in Items : item'[j] = IF j = i THEN "halted" ELSE item[j]
  BY <1>1, <1>2, ItemMoves
<1>4. /\ resultOf' \in Completions /\ resultOf'.signal = signal
      /\ resultOf'.by = {i} /\ resultOf' # NoResult
  BY <1>1 DEF Completions, NoResult
<1>5. ResultsTypeOK'
  BY <1>1, <1>3, <1>4 DEF ResultsTypeOK
<1>6. StoredInv' /\ LastInv' /\ SumInv' /\ LockStepInv'
  BY <1>1, <1>2, <1>4 DEF StoredInv, LastInv, SumInv, LockStepInv
<1>7. FirstInv'
  BY <1>1, <1>2, <1>3, <1>4 DEF FirstInv
<1> QED
  BY <1>3, <1>5, <1>6, <1>7 DEF ItemsInv

(* The sequence ends when no item is under way: if there was one, a result *)
(* was stored.                                                             *)
LEMMA SequenceEndsInv ==
  ASSUME ItemsInv, SequenceEnds
  PROVE  ItemsInv'
<1> ResultsTypeOK /\ StoredInv /\ FirstInv /\ LastInv /\ SumInv /\ LockStepInv
    /\ HandedInv
  BY DEF ItemsInv
<1>1. PICK signal \in Endings :
        /\ UnderWay = {} /\ sequence' = signal
        /\ \/ signal = "value" /\ handed' \in Visited
           \/ /\ signal # "value"
              /\ handed' = <<[signal |-> signal, by |-> {}, value |-> {}]>>
        /\ UNCHANGED <<consumer, item, sum, seen, emplaced, resultOf>>
  BY DEF SequenceEnds
<1>2. UnderWay' = {}
  BY <1>1 DEF UnderWay
<1>3. (\E i \in Items : item[i] # "idle") => resultOf # NoResult
  <2> SUFFICES ASSUME NEW i \in Items, item[i] # "idle" PROVE resultOf # NoResult
    OBVIOUS
  <2>1. item[i] \in {"done", "halted"} /\ \A j \in Items : item[j] # "claimed"
    BY <1>1 DEF UnderWay, ResultsTypeOK
  <2>2. CASE consumer.kind = "first"
    BY <2>1, <2>2 DEF FirstInv, ResultsTypeOK
  <2>3. CASE consumer.kind # "first"
    BY <2>1, <2>3 DEF LastInv
  <2> QED
    BY <2>2, <2>3
<1>4. handed' \in Seq(Completions)
  <2> DEFINE none == [signal |-> "stopped", by |-> {}, value |-> {}]
             garbage == [signal |-> "garbage", by |-> {}, value |-> {}]
             ended == [signal |-> signal, by |-> {}, value |-> {}]
  <2>1. none \in Completions /\ garbage \in Completions /\ ended \in Completions
        /\ resultOf \in Completions
    BY DEF Completions, Endings, ResultsTypeOK
  <2>2. \/ handed' = <<resultOf>> \/ handed' = <<>> \o <<>>
        \/ handed' = <<>> \o <<garbage>> \/ handed' = <<none>> \o <<>>
        \/ handed' = <<none>> \o <<garbage>> \/ handed' = <<ended>>
    BY <1>1 DEF Visited
  <2> HIDE DEF none, garbage, ended
  <2>3. /\ <<>> \in Seq(Completions) /\ <<none>> \in Seq(Completions)
        /\ <<garbage>> \in Seq(Completions) /\ <<ended>> \in Seq(Completions)
        /\ <<resultOf>> \in Seq(Completions)
    BY <2>1
  <2>4. \A s, t \in Seq(Completions) : s \o t \in Seq(Completions)
    OBVIOUS
  <2> QED
    BY <2>2, <2>3, <2>4, Zenon
<1>5. ResultsTypeOK'
  BY <1>1, <1>4 DEF ResultsTypeOK
<1>6. StoredInv' /\ FirstInv' /\ LastInv' /\ SumInv'
  BY <1>1 DEF StoredInv, FirstInv, LastInv, SumInv
<1>7. LockStepInv'
  BY <1>1, <1>2 DEF LockStepInv
<1>8. HandedInv'
  <2> SUFFICES ASSUME \E i \in Items : item[i] # "idle"
               PROVE  Len(handed') = 1 /\ (sequence' = "value" => handed'[1] = resultOf)
    BY <1>1, <1>2 DEF HandedInv
  <2>1. resultOf # NoResult
    BY <1>3
  <2>2. Visited = {<<resultOf>>}
    BY <2>1 DEF Visited
  <2> QED
    BY <1>1, <2>2
<1> QED
  BY <1>5, <1>6, <1>7, <1>8 DEF ItemsInv

(* Every step of ResultsNext and every stuttering step keeps the invariant.*)
LEMMA ItemsNextInv == ItemsInv /\ [ResultsNext]_resultVars => ItemsInv'
<1>1. ASSUME ItemsInv, UNCHANGED resultVars PROVE ItemsInv'
  BY <1>1 DEF resultVars, ItemsInv, ResultsTypeOK, StoredInv, FirstInv, LastInv,
    SumInv, LockStepInv, HandedInv, UnderWay
<1> QED
  BY <1>1, StartItemInv, ScanInv, EmplaceLastInv, ClaimFirstInv, ConstructFirstInv,
    SequenceEndsInv DEF ResultsNext

(* The invariant holds in every state the algorithms can reach.            *)
LEMMA ItemsInvariant == ResultsSpec => []ItemsInv
BY ItemsInitInv, ItemsNextInv, PTL DEF ResultsSpec

(* However the items of a sequence race, first, last and reduce complete   *)
(* their receiver once, and with a result that an item constructed, unless *)
(* the sequence had no item.                                               *)
THEOREM ResultIsConstructedHolds == ResultsSpec => []ResultIsConstructed
<1>1. ASSUME ItemsInv PROVE ResultIsConstructed
  <2> ResultsTypeOK /\ StoredInv /\ FirstInv /\ LastInv /\ HandedInv
    BY <1>1 DEF ItemsInv
  <2>1. (\E i \in Items : item[i] # "idle") /\ sequence # "running" =>
          resultOf # NoResult
    <3> SUFFICES ASSUME NEW i \in Items, item[i] # "idle", sequence # "running"
                 PROVE  resultOf # NoResult
      OBVIOUS
    <3>1. item[i] \in {"done", "halted"} /\ \A j \in Items : item[j] # "claimed"
      BY DEF UnderWay, ResultsTypeOK, HandedInv
    <3>2. CASE consumer.kind = "first"
      BY <3>1, <3>2 DEF FirstInv, ResultsTypeOK
    <3>3. CASE consumer.kind # "first"
      BY <3>1, <3>3 DEF LastInv
    <3> QED
      BY <3>2, <3>3
  <2>2. ASSUME NEW i \in Items, item[i] = "claimed"
        PROVE  resultOf = NoResult /\ \A j \in Items \ {i} : item[j] # "claimed"
    <3>1. consumer.kind = "first" /\ emplaced = 1
      BY <2>2 DEF LastInv, FirstInv
    <3> QED
      BY <2>2, <3>1 DEF FirstInv
  <2> QED
    BY <2>1, <2>2 DEF ResultIsConstructed, HandedInv, StoredInv
<1> QED
  BY <1>1, ItemsInvariant, PTL

(* For any set of items: what reduce delivers contains the item that       *)
(* stored it, and in lock step all that were started.                      *)
THEOREM ReduceAddsUpHolds == ResultsSpec => []ReduceAddsUp
<1>1. ASSUME ItemsInv PROVE ReduceAddsUp
  <2> ResultsTypeOK /\ SumInv /\ LockStepInv /\ HandedInv
    BY <1>1 DEF ItemsInv
  <2> SUFFICES ASSUME consumer.kind = "reduce", sequence = "value",
                      resultOf.signal = "value"
               PROVE  /\ resultOf.by \subseteq resultOf.value
                      /\ ~consumer.overlap =>
                           resultOf.value = {i \in Items : item[i] # "idle"}
    BY DEF ReduceAddsUp
  <2>1. resultOf.by \subseteq resultOf.value
    BY DEF SumInv
  <2>2. ASSUME ~consumer.overlap
        PROVE  resultOf.value = {i \in Items : item[i] # "idle"}
    <3>1. UnderWay = {}
      BY DEF HandedInv
    <3>2. \A i \in Items : item[i] # "halted"
      BY <2>2 DEF LockStepInv
    <3>3. \A i \in Items : item[i] # "idle" <=> item[i] = "done"
      BY <3>1, <3>2 DEF UnderWay, ResultsTypeOK
    <3> QED
      BY <2>2, <3>3 DEF LockStepInv
  <2> QED
    BY <2>1, <2>2
<1> QED
  BY <1>1, ItemsInvariant, PTL

(***************************************************************************)
(* BatchedReads.                                                           *)
(***************************************************************************)

BatchedSpec == BatchedInit /\ [][BatchedNext]_batchedVars

BatchedTypeOK ==
  /\ opt \in Options
  /\ main \in {"spawning", "waiting", "line", "last line", "joining", "ended", "terminated"}
  /\ worker \in [Threads -> {"none", "starting", "reading", "counting", "done"}]
  /\ left \in [Threads -> Nat]
  /\ n_bytes_read \in [Threads -> Nat]
  /\ n_io_ops \in [Threads -> Nat]
  /\ loaded \in [next : 0..opt.nthreads, bytes : Nat, ops : Nat]

(* Once a thread was started there is a file for each.                     *)
FilesInv ==
  \/ main \in {"spawning", "terminated"} /\ \A t \in Threads : worker[t] = "none"
  \/ n_files_per_thread(opt) >= 1

(* What a thread has read is what it had to read, without what is left.    *)
ReadInv ==
  \A t \in Threads :
    /\ worker[t] \in {"none", "starting"} => left[t] = 0 /\ n_bytes_read[t] = 0
    /\ worker[t] \in {"reading", "counting", "done"} =>
         left[t] + n_bytes_read[t] = BytesOf(opt, t)
    /\ worker[t] = "done" => left[t] = 0

DoneThreads == {t \in Threads : worker[t] = "done"}

CompletionsInv ==
  /\ n_completions = Cardinality(DoneThreads)
  /\ main \in {"last line", "joining", "ended"} => DoneThreads = Threads

Counts(count) == [i \in 1..opt.nthreads |-> count[i - 1]]

BytesOfAll == [t \in Threads |-> BytesOf(opt, t)]

(* The sums of the last line: those of the threads that were loaded.       *)
LoadInv ==
  /\ main \in {"spawning", "waiting"} => loaded = NoSums
  /\ main = "last line" =>
       /\ loaded.bytes = SumOfFirst(loaded.next, Counts(BytesOfAll))
       /\ loaded.ops = SumOfFirst(loaded.next, Counts(n_io_ops))
  /\ main \in {"joining", "ended"} =>
       /\ report.bytes = Total(BytesOfAll)
       /\ report.ops = Total(n_io_ops)

BatchedInv ==
  BatchedTypeOK /\ FilesInv /\ ReadInv /\ CompletionsInv /\ LoadInv

-----------------------------------------------------------------------------
(* The arithmetic of the program.                                          *)

(* Division with a remainder.                                              *)
LEMMA Division ==
  ASSUME NEW a \in Nat, NEW b \in Nat \ {0}
  PROVE  /\ a \div b \in Nat /\ a % b \in 0..(b - 1)
         /\ a = b * (a \div b) + (a % b)
OBVIOUS

(* Products grow with their factors.                                       *)
LEMMA ProductGrows ==
  ASSUME NEW a \in Nat, NEW b \in Nat, NEW q \in Nat, a <= b
  PROVE  a * q \in Nat /\ b * q \in Nat /\ a * q <= b * q /\ (a + 1) * q = a * q + q
<1>1. a * q \in Nat /\ b * q \in Nat
  OBVIOUS
<1>2. a * q <= b * q
  OBVIOUS
<1>3. (a + 1) * q = a * q + q
  OBVIOUS
<1> QED
  BY <1>1, <1>2, <1>3

(* The rounding gives a larger multiple of the block size.                 *)
LEMMA RoundsUp ==
  ASSUME NEW n \in Nat
  PROVE  /\ RoundUp(n) \in Nat /\ n < RoundUp(n)
         /\ (RoundUp(n) \div block_size) * block_size = RoundUp(n)
<1> DEFINE b == block_size
           k == n \div b
<1>1. b \in Nat \ {0}
  BY BatchedAssumption
<1> HIDE DEF b
<1>2. k \in Nat /\ n % b \in 0..(b - 1) /\ n = b * k + (n % b)
  BY <1>1, Division
<1> HIDE DEF k
<1>3. n + (b - (n % b)) = b * k + b
  BY <1>1, <1>2
<1>4. b * k + b = b * (k + 1) /\ k + 1 \in Nat
  BY <1>1, <1>2
<1>5. (b * (k + 1)) \div b = k + 1
  BY <1>1, <1>4
<1>6. (k + 1) * b = b * (k + 1)
  BY <1>1, <1>4
<1>7. RoundUp(n) = b * (k + 1)
  BY <1>3, <1>4 DEF RoundUp, b
<1>8. (RoundUp(n) \div b) * b = RoundUp(n)
  BY <1>5, <1>6, <1>7
<1>9. RoundUp(n) \in Nat /\ n < RoundUp(n)
  <2>1. b * (k + 1) \in Nat
    BY <1>1, <1>4
  <2>2. RoundUp(n) = n + (b - (n % b))
    BY DEF RoundUp, b
  <2> QED
    BY <1>1, <1>2, <1>7, <2>1, <2>2
<1> QED
  BY <1>8, <1>9 DEF b

(* What is known of the options.                                           *)
LEMMA OptionTypes ==
  ASSUME NEW o \in Options
  PROVE  /\ o.nthreads \in Nat \ {0} /\ o.nfiles \in Nat /\ Asked(o) \in Nat
         /\ n_files_per_thread(o) \in Nat
         /\ o.nthreads * n_files_per_thread(o) <= o.nfiles
<1>1. o.nthreads \in Nat \ {0} /\ o.nfiles \in Nat /\ Asked(o) \in Nat
  BY BatchedAssumption DEF Asked
<1>2. PICK n \in Nat \ {0}, f \in Nat : n = o.nthreads /\ f = o.nfiles
  BY <1>1
<1>3. f \div n \in Nat /\ n * (f \div n) <= f
  <2>1. f \div n \in Nat /\ f % n \in Nat /\ f = n * (f \div n) + (f % n)
    BY Division
  <2>2. PICK q \in Nat, r \in Nat : q = f \div n /\ f = n * q + r
    BY <2>1
  <2>3. n * q \in Nat
    OBVIOUS
  <2> QED
    BY <2>2, <2>3
<1> QED
  BY <1>1, <1>2, <1>3 DEF n_files_per_thread

(* Every thread has files.                                                 *)
LEMMA FilesOfThread ==
  ASSUME NEW o \in Options, n_files_per_thread(o) >= 1,
         NEW t \in 0..(o.nthreads - 1)
  PROVE  Cardinality(FilesOf(o, t)) \in Nat \ {0}
<1> DEFINE q == n_files_per_thread(o)
           lo == t * q
           hi == (IF t = o.nthreads - 1 THEN o.nfiles ELSE (t + 1) * q) - 1
<1>1. PICK n \in Nat \ {0}, f \in Nat :
        n = o.nthreads /\ f = o.nfiles /\ q \in Nat /\ n * q <= f
  BY OptionTypes
<1>2. q >= 1 /\ t \in 0..(n - 1)
  BY <1>1
<1> HIDE DEF q
<1>3. lo \in Nat /\ (t + 1) * q = lo + q /\ (t + 1) * q <= n * q /\ (t + 1) * q \in Nat
  BY <1>1, <1>2, ProductGrows
<1>4. hi = (IF t = n - 1 THEN f ELSE (t + 1) * q) - 1
  BY <1>1
<1>5. hi \in Int /\ lo <= hi
  <2>1. PICK m \in Nat, p \in Nat : m = (t + 1) * q /\ p = n * q
    BY <1>1, <1>3
  <2> HIDE DEF hi, lo
  <2>2. hi = (IF t = n - 1 THEN f ELSE m) - 1 /\ m = lo + q /\ p <= f /\ m <= p
    BY <1>1, <1>3, <1>4, <2>1
  <2> QED
    BY <1>1, <1>2, <1>3, <2>2
<1>6. FilesOf(o, t) = lo..hi
  BY DEF FilesOf, q
<1> HIDE DEF lo, hi
<1>7. Cardinality(lo..hi) = hi - lo + 1
  <2>1. lo \in Int
    BY <1>3
  <2>2. Cardinality(lo..hi) = IF lo > hi THEN 0 ELSE hi - lo + 1
    BY <1>5, <2>1, FS_Interval
  <2> QED
    BY <1>3, <1>5, <2>2
<1> QED
  BY <1>3, <1>5, <1>6, <1>7

(* A thread reads at least its share, however its files divide it.         *)
LEMMA ShareIsRead ==
  ASSUME NEW o \in Options, n_files_per_thread(o) >= 1,
         NEW t \in 0..(o.nthreads - 1)
  PROVE  /\ BytesOf(o, t) \in Nat /\ n_bytes_per_thread(o) \in Nat
         /\ n_bytes_per_thread(o) <= BytesOf(o, t)
         /\ Asked(o) <= o.nthreads * n_bytes_per_thread(o)
<1>1. PICK n \in Nat \ {0}, size \in Nat : n = o.nthreads /\ size = Asked(o)
  BY OptionTypes
<1>2. PICK total \in Nat : total = n_total_bytes(o) /\ size <= total
  <2>1. RoundUp(size) \in Nat /\ size < RoundUp(size)
    BY RoundsUp
  <2> QED
    BY <1>1, <2>1 DEF n_total_bytes
<1>3. PICK q \in Nat, r \in Nat : q = total \div n /\ total = n * q + r /\ r < n
  <2>1. total \div n \in Nat /\ total % n \in 0..(n - 1)
        /\ total = n * (total \div n) + (total % n)
    BY Division
  <2>2. total % n \in Nat /\ total % n < n
    BY <2>1
  <2> QED
    BY <2>1, <2>2
<1>4. PICK share \in Nat : share = RoundUp(q) /\ q < share
  BY RoundsUp
<1>5. n_bytes_per_thread(o) = share
  BY <1>1, <1>2, <1>3, <1>4 DEF n_bytes_per_thread
<1>6. size <= n * share
  <2>1. n * (q + 1) <= n * share /\ n * (q + 1) = n * q + n
    BY <1>4
  <2>2. n * q \in Nat /\ n * share \in Nat
    OBVIOUS
  <2> QED
    BY <1>2, <1>3, <2>1, <2>2
<1>7. PICK m \in Nat \ {0} : m = Cardinality(FilesOf(o, t))
  BY FilesOfThread
<1>8. PICK p \in Nat, s \in Nat : p = share \div m /\ share = m * p + s /\ s < m
  <2>1. share \div m \in Nat /\ share % m \in 0..(m - 1)
        /\ share = m * (share \div m) + (share % m)
    BY Division
  <2>2. share % m \in Nat /\ share % m < m
    BY <2>1
  <2> QED
    BY <2>1, <2>2
<1>9. PICK u \in Nat : /\ u = RoundUp(p) /\ p < u
                       /\ (u \div block_size) * block_size = u
  BY RoundsUp
<1>10. BytesOf(o, t) = m * u
  <2>1. BytesOf(o, t) = m * (u \div block_size) * block_size
    BY <1>5, <1>7, <1>8, <1>9 DEF BytesOf
  <2>2. u \div block_size \in Nat /\ block_size \in Nat
    BY BatchedAssumption, Division
  <2>3. m * (u \div block_size) * block_size = m * ((u \div block_size) * block_size)
    BY <2>2
  <2> QED
    BY <1>9, <2>1, <2>3
<1>11. share <= m * u /\ m * u \in Nat
  <2>1. m * (p + 1) <= m * u /\ m * (p + 1) = m * p + m
    BY <1>9
  <2>2. m * p \in Nat /\ m * u \in Nat
    OBVIOUS
  <2> QED
    BY <1>8, <2>1, <2>2
<1> QED
  BY <1>1, <1>5, <1>6, <1>10, <1>11

(* The subspans of files that main gives to the threads divide the files.  *)
LEMMA OneReader ==
  ASSUME NEW o \in Options, n_files_per_thread(o) >= 1, NEW f \in 0..(o.nfiles - 1)
  PROVE  Cardinality({t \in 0..(o.nthreads - 1) : f \in FilesOf(o, t)}) = 1
<1> DEFINE q == n_files_per_thread(o)
           S == {t \in 0..(o.nthreads - 1) : f \in FilesOf(o, t)}
<1>1. PICK n \in Nat \ {0}, files \in Nat :
        n = o.nthreads /\ files = o.nfiles /\ q \in Nat /\ n * q <= files
  BY OptionTypes
<1>2. q >= 1 /\ f \in Nat /\ f < files
  BY <1>1
<1>3. \A t : t \in S <=> /\ t \in 0..(n - 1)
                         /\ t * q <= f
                         /\ t # n - 1 => f < (t + 1) * q
  <2> SUFFICES ASSUME NEW t \in 0..(n - 1)
               PROVE  f \in FilesOf(o, t) <=> /\ t * q <= f
                                              /\ t # n - 1 => f < (t + 1) * q
    BY <1>1
  <2>1. FilesOf(o, t) = t * q .. ((IF t = n - 1 THEN files ELSE (t + 1) * q) - 1)
    BY <1>1 DEF FilesOf
  <2> HIDE DEF q
  <2>2. PICK a \in Nat, b \in Nat : a = t * q /\ b = (t + 1) * q
    BY <1>1
  <2>3. FilesOf(o, t) = a..((IF t = n - 1 THEN files ELSE b) - 1)
    BY <2>1, <2>2
  <2> QED
    BY <1>2, <2>2, <2>3
<1> HIDE DEF S, q
<1>4. \E t : t \in S
  <2> DEFINE T == {t \in Nat : t = n - 1 \/ f < (t + 1) * q}
  <2>1. n - 1 \in T
    OBVIOUS
  <2>2. PICK t \in T : \A u \in T : t <= u
    <3>1. T \subseteq Nat /\ T # {}
      BY <2>1
    <3> HIDE DEF T
    <3> QED
      BY <3>1, NatLeast
  <2>3. t \in 0..(n - 1) /\ (t # n - 1 => f < (t + 1) * q)
    BY <2>1, <2>2
  <2>4. t * q <= f
    <3>1. CASE t = 0
      BY <1>1, <1>2, <3>1
    <3>2. CASE t # 0
      <4>1. t - 1 \in Nat /\ (t - 1) + 1 = t /\ ~(t <= t - 1)
        BY <2>3, <3>2
      <4>2. ~(f < ((t - 1) + 1) * q)
        BY <2>2, <4>1
      <4>3. t * q \in Nat
        BY <1>1, <2>3
      <4> QED
        BY <1>2, <4>1, <4>2, <4>3
    <3> QED
      BY <3>1, <3>2
  <2> QED
    BY <1>3, <2>3, <2>4
<1>5. ASSUME NEW t \in S, NEW u \in S, t < u PROVE FALSE
  <2>1. /\ t \in Nat /\ u \in Nat /\ t # n - 1 /\ t + 1 <= u
        /\ u * q <= f /\ f < (t + 1) * q
    BY <1>3, <1>5
  <2>2. (t + 1) * q <= u * q /\ (t + 1) * q \in Nat /\ u * q \in Nat
    BY <1>1, <2>1, ProductGrows
  <2> QED
    BY <1>2, <2>1, <2>2
<1>6. PICK t : t \in S
  BY <1>4
<1>7. \A u \in S : u = t
  <2> SUFFICES ASSUME NEW u \in S, u # t PROVE FALSE
    OBVIOUS
  <2>1. u \in Nat /\ t \in Nat
    BY <1>3, <1>6
  <2>2. u < t \/ t < u
    BY <2>1
  <2> QED
    BY <1>5, <1>6, <2>2
<1>8. S = {t}
  BY <1>6, <1>7
<1> QED
  BY <1>8, FS_Singleton DEF S

-----------------------------------------------------------------------------
(* Sums over the threads.                                                  *)

(* The sum of the first counters, thread by thread.                        *)
LEMMA CountsAdd ==
  ASSUME opt \in Options, NEW c \in [Threads -> Nat]
  PROVE  /\ Counts(c) \in Seq(Nat) /\ Len(Counts(c)) = opt.nthreads
         /\ SumOfFirst(0, Counts(c)) = 0
         /\ \A t \in Threads :
              SumOfFirst(t + 1, Counts(c)) = SumOfFirst(t, Counts(c)) + c[t]
<1>1. opt.nthreads \in Nat \ {0}
  BY OptionTypes
<1>2. \A i \in 1..opt.nthreads : i - 1 \in Threads
  BY <1>1 DEF Threads
<1>3. Counts(c) \in [1..opt.nthreads -> Nat]
  BY <1>2 DEF Counts
<1>4. Counts(c) \in Seq(Nat) /\ Len(Counts(c)) = opt.nthreads
  BY <1>1, <1>3
<1>5. ASSUME NEW t \in Threads
      PROVE  SumOfFirst(t + 1, Counts(c)) = SumOfFirst(t, Counts(c)) + c[t]
  <2>1. t + 1 \in 1..opt.nthreads /\ (t + 1) - 1 = t
    BY <1>1 DEF Threads
  <2>2. Counts(c)[t + 1] = c[t]
    BY <2>1 DEF Counts
  <2> HIDE DEF Counts
  <2> QED
    BY <1>4, <2>1, <2>2, SumOfFirstAdds
<1>6. SumOfFirst(0, Counts(c)) = 0
  BY <1>4, SumOfFirstAdds
<1> QED
  BY <1>4, <1>5, <1>6

(* The sum of counters that are all at least b.                            *)
LEMMA SumAtLeast ==
  ASSUME opt \in Options, NEW c \in [Threads -> Nat], NEW b \in Nat,
         \A t \in Threads : b <= c[t]
  PROVE  opt.nthreads * b <= SumOfFirst(opt.nthreads, Counts(c))
<1> DEFINE upTo(k) == SumOfFirst(k, Counts(c))
           S == {k \in Nat : k <= opt.nthreads => upTo(k) \in Nat /\ k * b <= upTo(k)}
<1>1. opt.nthreads \in Nat \ {0}
  BY OptionTypes
<1>2. upTo(0) = 0 /\ \A t \in Threads : upTo(t + 1) = upTo(t) + c[t]
  BY CountsAdd
<1> HIDE DEF upTo
<1>3. 0 \in S
  BY <1>2
<1>4. ASSUME NEW k \in Nat, k \in S PROVE k + 1 \in S
  <2> SUFFICES ASSUME k + 1 <= opt.nthreads
               PROVE  upTo(k + 1) \in Nat /\ (k + 1) * b <= upTo(k + 1)
    OBVIOUS
  <2>1. k \in Threads /\ k <= opt.nthreads
    BY <1>1 DEF Threads
  <2>2. PICK x \in Nat, y \in Nat : x = upTo(k) /\ y = c[k] /\ k * b <= x /\ b <= y
    BY <1>4, <2>1
  <2>3. upTo(k + 1) = x + y
    BY <1>2, <2>1, <2>2
  <2>4. (k + 1) * b = k * b + b /\ k * b \in Nat
    OBVIOUS
  <2>5. k * b + b <= x + y
    BY <2>2, <2>4
  <2> QED
    BY <2>3, <2>4, <2>5
<1>5. Nat \subseteq S
  <2> HIDE DEF S
  <2> QED
    BY <1>3, <1>4, NatSetInduction
<1> QED
  BY <1>1, <1>5 DEF upTo

-----------------------------------------------------------------------------
(* The threads that have ended.                                            *)
LEMMA DoneCount ==
  ASSUME opt \in Options
  PROVE  /\ IsFiniteSet(DoneThreads)
         /\ Cardinality(DoneThreads) = opt.nthreads => DoneThreads = Threads
<1>1. opt.nthreads \in Nat \ {0}
  BY OptionTypes
<1>2. IsFiniteSet(Threads) /\ Cardinality(Threads) = opt.nthreads
  <2>1. 0 \in Int /\ opt.nthreads - 1 \in Int
    BY <1>1
  <2>2. IsFiniteSet(Threads)
        /\ Cardinality(Threads)
             = IF 0 > opt.nthreads - 1 THEN 0 ELSE (opt.nthreads - 1) - 0 + 1
    BY <2>1, FS_Interval DEF Threads
  <2> QED
    BY <1>1, <2>2
<1>3. DoneThreads \in SUBSET Threads
  BY DEF DoneThreads
<1> QED
  BY <1>2, <1>3, FS_Subset

(* The invariant holds when main begins.                                   *)
LEMMA InitBatched == BatchedInit => BatchedInv
<1> SUFFICES ASSUME BatchedInit PROVE BatchedInv
  OBVIOUS
<1>1. /\ opt \in Options /\ main = "spawning" /\ loaded = NoSums
      /\ worker = [t \in Threads |-> "none"]
      /\ left = [t \in Threads |-> 0]
      /\ n_bytes_read = [t \in Threads |-> 0]
      /\ n_io_ops = [t \in Threads |-> 0]
      /\ n_completions = 0
  BY DEF BatchedInit
<1>2. opt.nthreads \in Nat \ {0}
  BY <1>1, OptionTypes
<1>3. loaded \in [next : 0..opt.nthreads, bytes : Nat, ops : Nat]
  BY <1>1, <1>2 DEF NoSums
<1>4. BatchedTypeOK
  BY <1>1, <1>3 DEF BatchedTypeOK
<1>5. DoneThreads = {}
  BY <1>1 DEF DoneThreads
<1> QED
  BY <1>1, <1>4, <1>5, FS_EmptySet
     DEF BatchedInv, FilesInv, ReadInv, CompletionsInv, LoadInv

(* What a thread has to read does not change.                              *)
LEMMA SameOptions ==
  ASSUME opt' = opt
  PROVE  /\ Threads' = Threads /\ \A t : BytesOf(opt, t)' = BytesOf(opt, t)
         /\ Counts(BytesOfAll)' = Counts(BytesOfAll)
         /\ Total(BytesOfAll)' = Total(BytesOfAll)
<1>1. Threads' = Threads /\ \A t : BytesOf(opt, t)' = BytesOf(opt, t)
  BY DEF Threads, BytesOf, FilesOf, n_bytes_per_thread, n_total_bytes, Asked, RoundUp,
         n_files_per_thread
<1>2. BytesOfAll' = BytesOfAll
  BY <1>1 DEF BytesOfAll
<1> QED
  BY <1>1, <1>2 DEF Counts, Total

(* A step of a thread that has not ended is a step before the last line.   *)
LEMMA BeforeTheLastLine ==
  ASSUME BatchedInv, NEW t \in Threads, worker[t] # "done", main # "terminated"
  PROVE  main \in {"spawning", "waiting", "line"}
<1>1. main \notin {"last line", "joining", "ended"}
  BY DEF BatchedInv, CompletionsInv, DoneThreads
<1> QED
  BY <1>1 DEF BatchedInv, BatchedTypeOK

(* Before the last line it does not matter what the counters are.          *)
LEMMA LoadKept ==
  ASSUME BatchedInv, main \in {"spawning", "waiting", "line"},
         main' = main, loaded' = loaded
  PROVE  LoadInv'
BY DEF BatchedInv, LoadInv, NoSums

(* The construction of thread_state: the blocks to read are known.         *)
LEMMA WorkerStartsInv ==
  ASSUME BatchedInv, NEW t \in Threads, WorkerStarts(t)
  PROVE  BatchedInv'
<1>1. /\ BatchedTypeOK /\ FilesInv /\ ReadInv /\ CompletionsInv
      /\ worker[t] = "starting"
      /\ worker' = [worker EXCEPT ![t] = "reading"]
      /\ left' = [left EXCEPT ![t] = BytesOf(opt, t)]
      /\ main # "terminated"
      /\ opt' = opt /\ main' = main /\ n_bytes_read' = n_bytes_read
      /\ n_io_ops' = n_io_ops /\ n_completions' = n_completions /\ loaded' = loaded
  BY DEF BatchedInv, WorkerStarts
<1>2. Threads' = Threads /\ \A u : BytesOf(opt, u)' = BytesOf(opt, u)
  BY <1>1, SameOptions
<1>3. n_files_per_thread(opt) >= 1
  BY <1>1 DEF FilesInv
<1>4. BytesOf(opt, t) \in Nat
  BY <1>1, <1>3, ShareIsRead DEF Threads, BatchedTypeOK
<1>5. BatchedTypeOK'
  BY <1>1, <1>2, <1>4 DEF BatchedTypeOK
<1>6. FilesInv'
  BY <1>1, <1>3 DEF FilesInv, n_files_per_thread
<1>7. ReadInv'
  <2> SUFFICES ASSUME NEW u \in Threads
      PROVE  /\ worker'[u] \in {"none", "starting"} => left'[u] = 0 /\ n_bytes_read[u] = 0
             /\ worker'[u] \in {"reading", "counting", "done"} =>
                  left'[u] + n_bytes_read[u] = BytesOf(opt, u)
             /\ worker'[u] = "done" => left'[u] = 0
    BY <1>1, <1>2 DEF ReadInv
  <2>1. CASE u = t
    <3>1. worker'[u] = "reading" /\ left'[u] = BytesOf(opt, u) /\ n_bytes_read[u] = 0
      BY <1>1, <2>1 DEF BatchedTypeOK, ReadInv
    <3> QED
      BY <1>4, <2>1, <3>1
  <2>2. CASE u # t
    <3>1. worker'[u] = worker[u] /\ left'[u] = left[u]
      BY <1>1, <2>2 DEF BatchedTypeOK
    <3> QED
      BY <1>1, <3>1 DEF ReadInv
  <2> QED
    BY <2>1, <2>2
<1>8. DoneThreads' = DoneThreads
  BY <1>1, <1>2 DEF DoneThreads, BatchedTypeOK
<1>9. CompletionsInv'
  BY <1>1, <1>2, <1>8 DEF CompletionsInv
<1>10. LoadInv'
  <2>1. main \in {"spawning", "waiting", "line"}
    BY <1>1, BeforeTheLastLine
  <2> QED
    BY <1>1, <2>1, LoadKept
<1> QED
  BY <1>5, <1>6, <1>7, <1>9, <1>10 DEF BatchedInv

(* A read that ends moves bytes from what is left to what was read.        *)
LEMMA NotifyBytesInv ==
  ASSUME BatchedInv, NEW t \in Threads, NotifyBytes(t)
  PROVE  BatchedInv'
<1>1. /\ BatchedTypeOK /\ FilesInv /\ ReadInv /\ CompletionsInv
      /\ worker[t] = "reading"
      /\ worker' = [worker EXCEPT ![t] = "counting"]
      /\ main # "terminated"
      /\ opt' = opt /\ main' = main
      /\ n_io_ops' = n_io_ops /\ n_completions' = n_completions /\ loaded' = loaded
  BY DEF BatchedInv, NotifyBytes
<1>2. PICK n \in 1..block_size :
        /\ n <= left[t]
        /\ left' = [left EXCEPT ![t] = left[t] - n]
        /\ n_bytes_read' = [n_bytes_read EXCEPT ![t] = n_bytes_read[t] + n]
  BY DEF NotifyBytes
<1>3. Threads' = Threads /\ \A u : BytesOf(opt, u)' = BytesOf(opt, u)
  BY <1>1, SameOptions
<1>4. PICK a \in Nat, b \in Nat : a = left[t] /\ b = n_bytes_read[t]
  BY <1>1 DEF BatchedTypeOK
<1>5. n \in Nat /\ a - n \in Nat /\ b + n \in Nat /\ (a - n) + (b + n) = a + b
  BY <1>2, <1>4, BatchedAssumption
<1>6. BatchedTypeOK'
  <2>1. left' \in [Threads -> Nat] /\ n_bytes_read' \in [Threads -> Nat]
    BY <1>1, <1>2, <1>4, <1>5 DEF BatchedTypeOK
  <2> QED
    BY <1>1, <1>3, <2>1 DEF BatchedTypeOK
<1>7. FilesInv'
  BY <1>1 DEF FilesInv, n_files_per_thread
<1>8. ReadInv'
  <2> SUFFICES ASSUME NEW u \in Threads
      PROVE  /\ worker'[u] \in {"none", "starting"} => left'[u] = 0 /\ n_bytes_read'[u] = 0
             /\ worker'[u] \in {"reading", "counting", "done"} =>
                  left'[u] + n_bytes_read'[u] = BytesOf(opt, u)
             /\ worker'[u] = "done" => left'[u] = 0
    BY <1>1, <1>3 DEF ReadInv
  <2>1. CASE u = t
    <3>1. worker'[u] = "counting" /\ left'[u] = a - n /\ n_bytes_read'[u] = b + n
      BY <1>1, <1>2, <1>4, <2>1 DEF BatchedTypeOK
    <3>2. a + b = BytesOf(opt, u)
      BY <1>1, <1>4, <2>1 DEF ReadInv
    <3> QED
      BY <1>5, <3>1, <3>2
  <2>2. CASE u # t
    <3>1. worker'[u] = worker[u] /\ left'[u] = left[u] /\ n_bytes_read'[u] = n_bytes_read[u]
      BY <1>1, <1>2, <2>2 DEF BatchedTypeOK
    <3> QED
      BY <1>1, <3>1 DEF ReadInv
  <2> QED
    BY <2>1, <2>2
<1>9. DoneThreads' = DoneThreads
  BY <1>1, <1>3 DEF DoneThreads, BatchedTypeOK
<1>10. CompletionsInv'
  BY <1>1, <1>3, <1>9 DEF CompletionsInv
<1>11. LoadInv'
  <2>1. main \in {"spawning", "waiting", "line"}
    BY <1>1, BeforeTheLastLine
  <2> QED
    BY <1>1, <2>1, LoadKept
<1> QED
  BY <1>6, <1>7, <1>8, <1>10, <1>11 DEF BatchedInv

(* The operation is counted.                                               *)
LEMMA NotifyOpsInv ==
  ASSUME BatchedInv, NEW t \in Threads, NotifyOps(t)
  PROVE  BatchedInv'
<1>1. /\ BatchedTypeOK /\ FilesInv /\ ReadInv /\ CompletionsInv
      /\ worker[t] = "counting"
      /\ worker' = [worker EXCEPT ![t] = "reading"]
      /\ n_io_ops' = [n_io_ops EXCEPT ![t] = n_io_ops[t] + 1]
      /\ main # "terminated"
      /\ opt' = opt /\ main' = main /\ left' = left /\ n_bytes_read' = n_bytes_read
      /\ n_completions' = n_completions /\ loaded' = loaded
  BY DEF BatchedInv, NotifyOps
<1>2. Threads' = Threads /\ \A u : BytesOf(opt, u)' = BytesOf(opt, u)
  BY <1>1, SameOptions
<1>3. BatchedTypeOK'
  <2>1. n_io_ops[t] + 1 \in Nat
    <3>1. n_io_ops[t] \in Nat
      BY <1>1 DEF BatchedTypeOK
    <3> QED
      BY <3>1
  <2>2. n_io_ops' \in [Threads -> Nat]
    BY <1>1, <2>1 DEF BatchedTypeOK
  <2> QED
    BY <1>1, <1>2, <2>2 DEF BatchedTypeOK
<1>4. FilesInv'
  BY <1>1 DEF FilesInv, n_files_per_thread
<1>5. ReadInv'
  BY <1>1, <1>2 DEF ReadInv, BatchedTypeOK
<1>6. DoneThreads' = DoneThreads
  BY <1>1, <1>2 DEF DoneThreads, BatchedTypeOK
<1>7. CompletionsInv'
  BY <1>1, <1>2, <1>6 DEF CompletionsInv
<1>8. LoadInv'
  <2>1. main \in {"spawning", "waiting", "line"}
    BY <1>1, BeforeTheLastLine
  <2> QED
    BY <1>1, <2>1, LoadKept
<1> QED
  BY <1>3, <1>4, <1>5, <1>7, <1>8 DEF BatchedInv

(* A thread that has read all of its bytes reports its completion.         *)
LEMMA WorkerEndsInv ==
  ASSUME BatchedInv, NEW t \in Threads, WorkerEnds(t)
  PROVE  BatchedInv'
<1>1. /\ BatchedTypeOK /\ FilesInv /\ ReadInv /\ CompletionsInv
      /\ worker[t] = "reading" /\ left[t] = 0
      /\ worker' = [worker EXCEPT ![t] = "done"]
      /\ n_completions' = n_completions + 1
      /\ main # "terminated"
      /\ opt' = opt /\ main' = main /\ left' = left /\ n_bytes_read' = n_bytes_read
      /\ n_io_ops' = n_io_ops /\ loaded' = loaded
  BY DEF BatchedInv, WorkerEnds
<1>2. Threads' = Threads /\ \A u : BytesOf(opt, u)' = BytesOf(opt, u)
  BY <1>1, SameOptions
<1>3. BatchedTypeOK'
  BY <1>1, <1>2 DEF BatchedTypeOK
<1>4. FilesInv'
  BY <1>1 DEF FilesInv, n_files_per_thread
<1>5. ReadInv'
  BY <1>1, <1>2 DEF ReadInv, BatchedTypeOK
<1>6. main \in {"spawning", "waiting", "line"}
  BY <1>1, BeforeTheLastLine
<1>7. DoneThreads' = DoneThreads \union {t} /\ t \notin DoneThreads
  BY <1>1, <1>2 DEF DoneThreads, BatchedTypeOK
<1>8. CompletionsInv'
  <2>1. IsFiniteSet(DoneThreads)
    BY <1>1, DoneCount DEF BatchedTypeOK
  <2>2. Cardinality(DoneThreads \union {t}) = Cardinality(DoneThreads) + 1
    BY <1>7, <2>1, FS_AddElement
  <2> QED
    BY <1>1, <1>6, <1>7, <2>2 DEF CompletionsInv
<1>9. LoadInv'
  BY <1>1, <1>6, LoadKept
<1> QED
  BY <1>3, <1>4, <1>5, <1>8, <1>9 DEF BatchedInv


(* An exception ends the program.                                          *)
LEMMA WorkerThrowsInv ==
  ASSUME BatchedInv, NEW t \in Threads, WorkerThrows(t)
  PROVE  BatchedInv'
<1>1. /\ BatchedTypeOK /\ FilesInv /\ ReadInv /\ CompletionsInv
      /\ worker[t] \in {"starting", "reading"}
      /\ main' = "terminated"
      /\ UNCHANGED <<opt, worker, left, n_bytes_read, n_io_ops, n_completions, loaded>>
  BY DEF BatchedInv, WorkerThrows
<1>2. Threads' = Threads /\ \A u : BytesOf(opt, u)' = BytesOf(opt, u)
  BY <1>1, SameOptions
<1>3. BatchedTypeOK'
  BY <1>1, <1>2 DEF BatchedTypeOK
<1>4. FilesInv'
  BY <1>1 DEF FilesInv, n_files_per_thread
<1>5. ReadInv'
  BY <1>1, <1>2 DEF ReadInv
<1>6. CompletionsInv'
  BY <1>1, <1>2 DEF CompletionsInv, DoneThreads
<1>7. LoadInv'
  BY <1>1 DEF LoadInv
<1> QED
  BY <1>3, <1>4, <1>5, <1>6, <1>7 DEF BatchedInv

(* main starts a thread, or ends because there are too few files.          *)
LEMMA SpawnInv ==
  ASSUME BatchedInv, Spawn
  PROVE  BatchedInv'
<1>1. /\ BatchedTypeOK /\ FilesInv /\ ReadInv /\ CompletionsInv /\ LoadInv
      /\ main = "spawning"
      /\ UNCHANGED <<opt, left, n_bytes_read, n_io_ops, n_completions, loaded>>
  BY DEF BatchedInv, Spawn
<1>2. Threads' = Threads /\ \A u : BytesOf(opt, u)' = BytesOf(opt, u)
  BY <1>1, SameOptions
<1>3. PICK t \in Threads :
        \/ main' = "terminated" /\ worker' = worker
        \/ /\ n_files_per_thread(opt) >= 1
           /\ worker[t] = "none"
           /\ worker' = [worker EXCEPT ![t] = "starting"]
           /\ main' \in {"spawning", "waiting"}
  <2>1. n_files_per_thread(opt) \in Nat /\ 0 \in Threads
    BY <1>1, OptionTypes DEF BatchedTypeOK, Threads
  <2>2. CASE n_files_per_thread(opt) < 1
    BY <2>1, <2>2 DEF Spawn
  <2>3. CASE ~(n_files_per_thread(opt) < 1)
    <3>1. n_files_per_thread(opt) >= 1
      BY <2>1, <2>3
    <3> QED
      BY <1>1, <2>3, <3>1 DEF Spawn
  <2> QED
    BY <2>2, <2>3
<1>4. BatchedTypeOK'
  BY <1>1, <1>2, <1>3 DEF BatchedTypeOK
<1>5. FilesInv'
  <2>1. n_files_per_thread(opt)' = n_files_per_thread(opt)
    BY <1>1 DEF n_files_per_thread
  <2> QED
    BY <1>1, <1>2, <1>3, <2>1 DEF FilesInv
<1>6. ReadInv'
  BY <1>1, <1>2, <1>3 DEF ReadInv, BatchedTypeOK
<1>7. DoneThreads' = DoneThreads
  BY <1>1, <1>2, <1>3 DEF DoneThreads, BatchedTypeOK
<1>8. CompletionsInv'
  BY <1>1, <1>3, <1>7 DEF CompletionsInv
<1>9. LoadInv'
  BY <1>1, <1>3 DEF LoadInv, NoSums
<1> QED
  BY <1>4, <1>5, <1>6, <1>8, <1>9 DEF BatchedInv

(* What only changes main and the sums keeps the rest.                     *)
LEMMA CountersKept ==
  ASSUME BatchedInv,
         UNCHANGED <<opt, worker, left, n_bytes_read, n_io_ops, n_completions>>,
         main # "spawning", main # "terminated",
         main' \in {"waiting", "line", "last line", "joining", "ended"},
         loaded' \in [next : 0..opt.nthreads, bytes : Nat, ops : Nat],
         main' \in {"last line", "joining", "ended"} => DoneThreads = Threads,
         LoadInv'
  PROVE  BatchedInv'
<1>1. BatchedTypeOK /\ FilesInv /\ ReadInv /\ CompletionsInv
  BY DEF BatchedInv
<1>2. Threads' = Threads /\ \A u : BytesOf(opt, u)' = BytesOf(opt, u)
  BY SameOptions
<1>3. BatchedTypeOK'
  BY <1>1, <1>2 DEF BatchedTypeOK
<1>4. FilesInv'
  BY <1>1 DEF FilesInv, n_files_per_thread
<1>5. ReadInv'
  BY <1>1, <1>2 DEF ReadInv
<1>6. DoneThreads' = DoneThreads
  BY <1>2 DEF DoneThreads
<1>7. CompletionsInv'
  BY <1>1, <1>2, <1>6 DEF CompletionsInv
<1> QED
  BY <1>3, <1>4, <1>5, <1>7 DEF BatchedInv

(* wait_for returns; the last line begins only when all threads ended.     *)
LEMMA WaitForCompletionInv ==
  ASSUME BatchedInv, WaitForCompletion
  PROVE  BatchedInv'
<1>1. /\ BatchedTypeOK /\ CompletionsInv /\ LoadInv
      /\ main = "waiting"
      /\ main' = IF n_completions = opt.nthreads THEN "last line" ELSE "line"
      /\ UNCHANGED <<opt, worker, left, n_bytes_read, n_io_ops, n_completions, loaded>>
  BY DEF BatchedInv, WaitForCompletion
<1>2. loaded = NoSums
  BY <1>1 DEF LoadInv
<1>3. opt \in Options /\ n_io_ops \in [Threads -> Nat]
      /\ loaded \in [next : 0..opt.nthreads, bytes : Nat, ops : Nat]
  BY <1>1 DEF BatchedTypeOK
<1>4. main' = "last line" => DoneThreads = Threads
  <2> SUFFICES ASSUME main' = "last line" PROVE DoneThreads = Threads
    OBVIOUS
  <2>1. Cardinality(DoneThreads) = opt.nthreads
    BY <1>1 DEF CompletionsInv
  <2> QED
    BY <1>3, <2>1, DoneCount
<1>5. \A a, b \in Nat : a + b \in Nat
  OBVIOUS
<1>6. LoadInv'
  <2> SUFFICES ASSUME main' = "last line"
      PROVE  /\ loaded.bytes = SumOfFirst(loaded.next, Counts(BytesOfAll)')
             /\ loaded.ops = SumOfFirst(loaded.next, Counts(n_io_ops)')
    BY <1>1 DEF LoadInv
  <2>1. \A t \in Threads : BytesOf(opt, t) \in Nat
    <3>1. DoneThreads = Threads
      BY <1>4
    <3>2. \A t \in Threads : left[t] + n_bytes_read[t] = BytesOf(opt, t)
                             /\ left[t] \in Nat /\ n_bytes_read[t] \in Nat
      BY <3>1 DEF DoneThreads, BatchedInv, ReadInv, BatchedTypeOK
    <3>3. ASSUME NEW t \in Threads PROVE BytesOf(opt, t) \in Nat
      <4>1. PICK a \in Nat, b \in Nat : a = left[t] /\ b = n_bytes_read[t]
        BY <3>2
      <4>2. left[t] + n_bytes_read[t] = a + b
        BY <4>1, Zenon
      <4>3. BytesOf(opt, t) = a + b
        BY <3>2, <4>2, Zenon
      <4> QED
        BY <1>5, <4>3, Zenon
    <3> QED
      BY <3>3
  <2>2. BytesOfAll \in [Threads -> Nat]
    BY <2>1 DEF BytesOfAll
  <2>3. SumOfFirst(0, Counts(BytesOfAll)) = 0 /\ SumOfFirst(0, Counts(n_io_ops)) = 0
    BY <1>3, <2>2, CountsAdd
  <2>4. Counts(BytesOfAll)' = Counts(BytesOfAll) /\ Counts(n_io_ops)' = Counts(n_io_ops)
    BY <1>1, SameOptions DEF Counts
  <2>5. loaded.next = 0 /\ loaded.bytes = 0 /\ loaded.ops = 0
    BY <1>2 DEF NoSums
  <2> QED
    BY <2>3, <2>4, <2>5
<1>7. main' \in {"line", "last line"} /\ loaded' = loaded
  BY <1>1
<1> QED
  BY <1>1, <1>3, <1>4, <1>6, <1>7, CountersKept

(* What the threads have read when all have ended.                         *)
LEMMA AllIsRead ==
  ASSUME BatchedInv, DoneThreads = Threads
  PROVE  /\ \A t \in Threads : n_bytes_read[t] = BytesOf(opt, t)
         /\ BytesOfAll \in [Threads -> Nat]
<1>1. ASSUME NEW t \in Threads
      PROVE  n_bytes_read[t] = BytesOf(opt, t) /\ n_bytes_read[t] \in Nat
  <2>1. /\ worker[t] = "done" /\ n_bytes_read[t] \in Nat /\ left[t] = 0
        /\ left[t] + n_bytes_read[t] = BytesOf(opt, t)
    BY DEF DoneThreads, BatchedInv, ReadInv, BatchedTypeOK
  <2> QED
    BY <2>1
<1> QED
  BY <1>1 DEF BytesOfAll

(* load_stats reads the counters of the next thread.                       *)
LEMMA LoadStatsInv ==
  ASSUME BatchedInv, LoadStats
  PROVE  BatchedInv'
<1> DEFINE t == loaded.next
<1>1. /\ BatchedTypeOK /\ CompletionsInv /\ LoadInv
      /\ main \in {"line", "last line"} /\ t \in Threads
      /\ loaded' = [next |-> t + 1, bytes |-> loaded.bytes + n_bytes_read[t],
                    ops |-> loaded.ops + n_io_ops[t]]
      /\ main' = main
      /\ UNCHANGED <<opt, worker, left, n_bytes_read, n_io_ops, n_completions>>
  BY DEF BatchedInv, LoadStats
<1>2. /\ opt \in Options /\ n_io_ops \in [Threads -> Nat]
      /\ n_bytes_read \in [Threads -> Nat]
      /\ loaded \in [next : 0..opt.nthreads, bytes : Nat, ops : Nat]
  BY <1>1 DEF BatchedTypeOK
<1>3. loaded' \in [next : 0..opt.nthreads, bytes : Nat, ops : Nat]
  <2>1. t + 1 \in 0..opt.nthreads
    <3>1. opt.nthreads \in Nat \ {0} /\ t \in 0..(opt.nthreads - 1)
      BY <1>1, <1>2, OptionTypes DEF Threads
    <3> QED
      BY <3>1
  <2>2. loaded.bytes + n_bytes_read[t] \in Nat /\ loaded.ops + n_io_ops[t] \in Nat
    <3>1. /\ loaded.bytes \in Nat /\ n_bytes_read[t] \in Nat
          /\ loaded.ops \in Nat /\ n_io_ops[t] \in Nat
      BY <1>1, <1>2
    <3> QED
      BY <3>1
  <2> QED
    BY <1>1, <2>1, <2>2
<1>4. LoadInv'
  <2> SUFFICES ASSUME main = "last line"
      PROVE  /\ loaded'.bytes = SumOfFirst(loaded'.next, Counts(BytesOfAll)')
             /\ loaded'.ops = SumOfFirst(loaded'.next, Counts(n_io_ops)')
    BY <1>1 DEF LoadInv
  <2>1. /\ n_bytes_read[t] = BytesOfAll[t]
        /\ BytesOfAll \in [Threads -> Nat]
    <3>1. DoneThreads = Threads
      BY <1>1 DEF CompletionsInv
    <3>2. n_bytes_read[t] = BytesOf(opt, t) /\ BytesOfAll \in [Threads -> Nat]
      BY <1>1, <3>1, AllIsRead
    <3> QED
      BY <1>1, <3>2 DEF BytesOfAll
  <2>2. Counts(BytesOfAll)' = Counts(BytesOfAll) /\ Counts(n_io_ops)' = Counts(n_io_ops)
    BY <1>1, SameOptions DEF Counts
  <2>3. /\ loaded.bytes = SumOfFirst(t, Counts(BytesOfAll))
        /\ loaded.ops = SumOfFirst(t, Counts(n_io_ops))
    BY <1>1 DEF LoadInv
  <2>4. SumOfFirst(t + 1, Counts(BytesOfAll)) = SumOfFirst(t, Counts(BytesOfAll)) + BytesOfAll[t]
    BY <1>1, <1>2, <2>1, CountsAdd
  <2>5. SumOfFirst(t + 1, Counts(n_io_ops)) = SumOfFirst(t, Counts(n_io_ops)) + n_io_ops[t]
    BY <1>1, <1>2, CountsAdd
  <2>6. /\ loaded'.next = t + 1 /\ loaded'.bytes = loaded.bytes + n_bytes_read[t]
        /\ loaded'.ops = loaded.ops + n_io_ops[t]
    BY <1>1
  <2> QED
    BY <2>1, <2>2, <2>3, <2>4, <2>5, <2>6
<1>5. main' \in {"last line", "joining", "ended"} => DoneThreads = Threads
  BY <1>1 DEF CompletionsInv
<1>6. main # "spawning" /\ main # "terminated" /\ main' \in {"line", "last line"}
  BY <1>1
<1> QED
  BY <1>1, <1>3, <1>4, <1>5, <1>6, CountersKept

(* A line is printed when the counters of all threads were read.           *)
LEMMA PrintLineInv ==
  ASSUME BatchedInv, PrintLine
  PROVE  BatchedInv'
<1>1. /\ BatchedTypeOK /\ CompletionsInv /\ LoadInv
      /\ main \in {"line", "last line"} /\ loaded.next \notin Threads
      /\ report' = loaded /\ loaded' = NoSums
      /\ main' = IF main = "line" THEN "waiting" ELSE "joining"
      /\ UNCHANGED <<opt, worker, left, n_bytes_read, n_io_ops, n_completions>>
  BY DEF BatchedInv, PrintLine
<1>2. opt \in Options /\ opt.nthreads \in Nat \ {0}
      /\ loaded \in [next : 0..opt.nthreads, bytes : Nat, ops : Nat]
  <2>1. /\ opt \in Options
        /\ loaded \in [next : 0..opt.nthreads, bytes : Nat, ops : Nat]
    BY <1>1 DEF BatchedTypeOK
  <2> QED
    BY <2>1, OptionTypes
<1>3. loaded.next = opt.nthreads
  <2>1. PICK n \in Nat \ {0} : n = opt.nthreads
    BY <1>2
  <2>2. loaded.next \in 0..n /\ loaded.next \notin 0..(n - 1)
    BY <1>1, <1>2, <2>1 DEF Threads
  <2>3. loaded.next = n
    BY <2>2
  <2> QED
    BY <2>1, <2>3
<1>4. loaded' \in [next : 0..opt.nthreads, bytes : Nat, ops : Nat]
  <2>1. 0 \in 0..opt.nthreads
    BY <1>2
  <2> QED
    BY <1>1, <2>1 DEF NoSums
<1>5. LoadInv'
  <2>1. CASE main = "line"
    <3>1. main' = "waiting" /\ loaded' = NoSums'
      BY <1>1, <2>1 DEF NoSums
    <3> QED
      BY <3>1 DEF LoadInv
  <2>2. CASE main = "last line"
    <3>1. main' = "joining" /\ report' = loaded
      BY <1>1, <2>2
    <3>2. loaded.bytes = Total(BytesOfAll) /\ loaded.ops = Total(n_io_ops)
      <4>1. /\ loaded.bytes = SumOfFirst(opt.nthreads, Counts(BytesOfAll))
            /\ loaded.ops = SumOfFirst(opt.nthreads, Counts(n_io_ops))
        BY <1>1, <1>3, <2>2 DEF LoadInv
      <4> QED
        BY <4>1 DEF Total, Counts
    <3>3. Total(BytesOfAll)' = Total(BytesOfAll) /\ Total(n_io_ops)' = Total(n_io_ops)
      BY <1>1, SameOptions DEF Total
    <3> QED
      BY <3>1, <3>2, <3>3 DEF LoadInv
  <2> QED
    BY <1>1, <2>1, <2>2
<1>6. main' \in {"last line", "joining", "ended"} => DoneThreads = Threads
  BY <1>1 DEF CompletionsInv
<1>7. main # "spawning" /\ main # "terminated" /\ main' \in {"waiting", "joining"}
  BY <1>1
<1> QED
  BY <1>1, <1>4, <1>5, <1>6, <1>7, CountersKept

(* The threads are joined.                                                 *)
LEMMA JoinInv ==
  ASSUME BatchedInv, Join
  PROVE  BatchedInv'
<1>1. /\ BatchedTypeOK /\ CompletionsInv /\ LoadInv
      /\ main = "joining" /\ main' = "ended"
      /\ UNCHANGED <<opt, worker, left, n_bytes_read, n_io_ops, n_completions,
                     loaded, report>>
  BY DEF BatchedInv, Join
<1>2. loaded' \in [next : 0..opt.nthreads, bytes : Nat, ops : Nat]
  BY <1>1 DEF BatchedTypeOK
<1>3. LoadInv'
  <2>1. Total(BytesOfAll)' = Total(BytesOfAll) /\ Total(n_io_ops)' = Total(n_io_ops)
    BY <1>1, SameOptions DEF Total
  <2> QED
    BY <1>1, <2>1 DEF LoadInv
<1>4. DoneThreads = Threads
  BY <1>1 DEF CompletionsInv
<1> QED
  BY <1>1, <1>2, <1>3, <1>4, CountersKept

(* Every step keeps the invariant.                                         *)
LEMMA NextBatched == BatchedInv /\ [BatchedNext]_batchedVars => BatchedInv'
<1> SUFFICES ASSUME BatchedInv, [BatchedNext]_batchedVars PROVE BatchedInv'
  OBVIOUS
<1>1. CASE MainStep
  BY <1>1, SpawnInv, WaitForCompletionInv, LoadStatsInv, PrintLineInv, JoinInv DEF MainStep
<1>2. ASSUME NEW t \in Threads, WorkerStep(t) PROVE BatchedInv'
  BY <1>2, WorkerThrowsInv, WorkerStartsInv, NotifyBytesInv, NotifyOpsInv, WorkerEndsInv
     DEF WorkerStep
<1>3. CASE UNCHANGED batchedVars
  <2>1. UNCHANGED <<opt, main, worker, left, n_bytes_read, n_io_ops, n_completions,
                    loaded, report>>
    BY <1>3 DEF batchedVars
  <2>2. Threads' = Threads /\ \A u : BytesOf(opt, u)' = BytesOf(opt, u)
    BY <2>1, SameOptions
  <2>3. BatchedTypeOK' /\ ReadInv'
    BY <2>1, <2>2 DEF BatchedInv, BatchedTypeOK, ReadInv
  <2>4. FilesInv'
    BY <2>1, <2>2 DEF BatchedInv, FilesInv, n_files_per_thread
  <2>5. CompletionsInv'
    BY <2>1, <2>2 DEF BatchedInv, CompletionsInv, DoneThreads
  <2>6. LoadInv'
    <3>1. BytesOfAll' = BytesOfAll
      BY <2>1, <2>2 DEF BytesOfAll
    <3> QED
      BY <2>1, <3>1 DEF BatchedInv, LoadInv, Counts, Total, NoSums
  <2> QED
    BY <2>3, <2>4, <2>5, <2>6 DEF BatchedInv
<1> QED
  BY <1>1, <1>2, <1>3 DEF BatchedNext

(* The invariant holds however the threads and main interleave.            *)
LEMMA BatchedInvariant == BatchedSpec => []BatchedInv
<1> QED
  BY InitBatched, NextBatched, PTL DEF BatchedSpec

(* The last line counts every byte and every read of all threads, each     *)
(* file was read by one thread, and at least as many bytes were read as    *)
(* the user asked for, for any number of threads, files and bytes.         *)
THEOREM LastLineIsCompleteHolds == BatchedSpec => []LastLineIsComplete
<1>1. BatchedInv => LastLineIsComplete
  <2> SUFFICES ASSUME BatchedInv, main \in {"joining", "ended"}
      PROVE  /\ \A f \in 0..(opt.nfiles - 1) :
                  Cardinality({t \in Threads : f \in FilesOf(opt, t)}) = 1
             /\ report.bytes = Total([t \in Threads |-> BytesOf(opt, t)])
             /\ report.ops = Total(n_io_ops)
             /\ report.bytes >= Asked(opt)
    BY DEF LastLineIsComplete
  <2>1. /\ BatchedTypeOK /\ opt \in Options /\ DoneThreads = Threads
        /\ report.bytes = Total(BytesOfAll) /\ report.ops = Total(n_io_ops)
    BY DEF BatchedInv, BatchedTypeOK, CompletionsInv, LoadInv
  <2>2. n_files_per_thread(opt) >= 1
    BY DEF BatchedInv, FilesInv
  <2>3. opt.nthreads \in Nat \ {0} /\ Asked(opt) \in Nat
    BY <2>1, OptionTypes
  <2>4. \A f \in 0..(opt.nfiles - 1) :
          Cardinality({t \in Threads : f \in FilesOf(opt, t)}) = 1
    BY <2>1, <2>2, OneReader DEF Threads
  <2>5. BytesOfAll \in [Threads -> Nat]
    BY <2>1, AllIsRead
  <2>6. PICK share \in Nat :
          /\ Asked(opt) <= opt.nthreads * share
          /\ \A t \in Threads : share <= BytesOfAll[t]
    <3>1. 0 \in Threads
      BY <2>3 DEF Threads
    <3>2. \A t \in Threads :
            /\ n_bytes_per_thread(opt) \in Nat
            /\ n_bytes_per_thread(opt) <= BytesOf(opt, t)
            /\ Asked(opt) <= opt.nthreads * n_bytes_per_thread(opt)
      BY <2>1, <2>2, ShareIsRead DEF Threads
    <3> QED
      BY <3>1, <3>2 DEF BytesOfAll
  <2>7. opt.nthreads * share <= Total(BytesOfAll)
    BY <2>1, <2>5, <2>6, SumAtLeast DEF Total, Counts
  <2>8. Total(BytesOfAll) \in Nat
    <3>1. Counts(BytesOfAll) \in Seq(Nat) /\ Len(Counts(BytesOfAll)) = opt.nthreads
      BY <2>1, <2>5, CountsAdd
    <3>2. opt.nthreads \in 0..Len(Counts(BytesOfAll))
      BY <2>3, <3>1
    <3>3. SumOfFirst(opt.nthreads, Counts(BytesOfAll)) \in Nat
      BY <3>1, <3>2, SumOfFirstAdds
    <3> QED
      BY <3>3 DEF Total, Counts
  <2>9. report.bytes >= Asked(opt)
    <3>1. PICK n \in Nat, b \in Nat : n = opt.nthreads /\ b = Total(BytesOfAll)
      BY <2>3, <2>8
    <3>2. n * share \in Nat /\ Asked(opt) <= n * share /\ n * share <= b
      BY <2>6, <2>7, <3>1
    <3> QED
      BY <2>1, <2>3, <3>1, <3>2
  <2> QED
    BY <2>1, <2>4, <2>9 DEF BytesOfAll
<1> QED
  BY <1>1, BatchedInvariant, PTL


=============================================================================
