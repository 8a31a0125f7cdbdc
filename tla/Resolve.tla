------------------------------ MODULE Resolve ------------------------------
(***************************************************************************)
(* sio::async::resolve (ip/resolve.hpp) with the endpoints it makes        *)
(* (ip/endpoint.hpp, ip/address.hpp).  getaddrinfo_a (libc) answers on a   *)
(* thread of its own with a list of addresses.  A port has two bytes of    *)
(* the given radix; a number in network order is the swapped one.          *)
(***************************************************************************)
EXTENDS Integers, Sequences

CONSTANTS
  Radix,       \* 256 in the code
  MaxResults   \* bound on the length of the list

ASSUME ResolveAssumption == Radix \in Nat \ {0} /\ MaxResults \in Nat

Ports == 0..(Radix * Radix - 1)

htons(n) == (n % Radix) * Radix + n \div Radix
ntohs(n) == htons(n)

(* endpoint(address, port) and endpoint::port for both families.           *)
endpoint(family, port) == [family |-> family, sin_port |-> htons(port)]

port_of(ep) == ntohs(ep.sin_port)

(* resolver_result: the port of the sockaddr, which is in network order,   *)
(* goes to the constructor of endpoint, which takes one in host order.     *)
resolver_result(ai) == endpoint(ai.family, ai.sin_port)

VARIABLES
  query,     \* the port of the service that is asked for
  lookup,    \* where the operation is
  gai,       \* ar_result: the list of getaddrinfo_a; freed or not
  iter,      \* result_iter_: the place in the list
  results,   \* the endpoints of the items, in order
  answer     \* how the receiver was completed

resolveVars == <<query, lookup, gai, iter, results, answer>>

ResolveInit ==
  /\ query \in Ports
  /\ lookup = "connected"
  /\ gai = [list |-> <<>>, freed |-> 0]
  /\ iter = 0
  /\ results = <<>>
  /\ answer = <<>>

(* start: the result of getaddrinfo_a is ignored, so a call it refuses is  *)
(* never answered.                                                         *)
StartLookup ==
  /\ lookup = "connected"
  /\ lookup' \in {"submitted", "refused"}
  /\ UNCHANGED <<query, gai, iter, results, answer>>

(* start_next: an item for the endpoint at the iterator is connected and   *)
(* started, or that throws and the list is not freed.                      *)
StartResult(list, i) ==
  \/ /\ lookup' = "item"
     /\ results' = Append(results, resolver_result(list[i]))
     /\ UNCHANGED answer
  \/ /\ lookup' = "threw"
     /\ answer' = Append(answer, "error")
     /\ UNCHANGED results

(* notify: an empty list, an error, a cancelled request, or the first      *)
(* item.  For EAI_INPROGRESS it returns, to be called again.               *)
Notify ==
  /\ lookup = "submitted"
  /\ \/ \E n \in 1..MaxResults, families \in [1..MaxResults -> {"v4", "v6"}] :
          LET list == [i \in 1..n |-> [family |-> families[i],
                                       sin_port |-> htons(query)]]
          IN gai' = [gai EXCEPT !.list = list] /\ iter' = 1 /\ StartResult(list, 1)
     \/ /\ lookup' = "done"
        /\ \E signal \in {"value", "stopped", "error"} : answer' = Append(answer, signal)
        /\ UNCHANGED <<gai, iter, results>>
  /\ UNCHANGED query

(* freeaddrinfo(ar_result).                                                *)
Free == gai' = [gai EXCEPT !.freed = @ + 1]

(* Mutant of ResultValue: the list is freed with every item.               *)
ResultValueFrees ==
  /\ lookup = "item"
  /\ iter' = iter + 1
  /\ Free
  /\ IF iter < Len(gai.list)
       THEN StartResult(gai.list, iter + 1)
       ELSE /\ lookup' = "done"
            /\ answer' = Append(answer, "value")
            /\ UNCHANGED results
  /\ UNCHANGED query

(* next_receiver::set_value: the next item, or the end.                    *)
ResultValue ==
  /\ lookup = "item"
  /\ iter' = iter + 1
  /\ IF iter < Len(gai.list)
       THEN StartResult(gai.list, iter + 1) /\ UNCHANGED gai
       ELSE /\ lookup' = "done"
            /\ answer' = Append(answer, "value")
            /\ Free
            /\ UNCHANGED results
  /\ UNCHANGED query

(* next_receiver::set_stopped.                                             *)
ResultStopped ==
  /\ lookup = "item"
  /\ lookup' = "done"
  /\ Free
  /\ \E signal \in {"value", "stopped"} : answer' = Append(answer, signal)
  /\ UNCHANGED <<query, iter, results>>

ResolveNext == StartLookup \/ Notify \/ ResultValue \/ ResultStopped

-----------------------------------------------------------------------------
(* When the receiver is completed the list was freed, once and not while   *)
(* an item could still read it; only an exception leaves it behind.  The   *)
(* items are the entries of the list in their order, and when the iterator *)
(* has left the list there was one for each of them.                       *)
ListIsFreedOnce ==
  /\ gai.freed <= 1
  /\ lookup = "item" => gai.freed = 0
  /\ answer # <<>> /\ lookup # "threw" => gai.freed = IF gai.list = <<>> THEN 0 ELSE 1
  /\ \A i \in 1..Len(results) : results[i] = resolver_result(gai.list[i])
  /\ lookup = "done" /\ iter > Len(gai.list) => Len(results) = Len(gai.list)

(* The endpoint of an item has the port of the service that was asked for. *)
(* A port whose two bytes differ comes out swapped, because the port of    *)
(* the sockaddr is converted to network order a second time.               *)
ResolvedPortIsAsked == \A i \in 1..Len(results) : port_of(results[i]) = query

(* A request that getaddrinfo_a accepts completes the receiver.            *)
LookupCompletes == lookup = "submitted" ~> answer # <<>>
=============================================================================
