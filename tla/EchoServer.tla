----------------------------- MODULE EchoServer -----------------------------
(***************************************************************************)
(* The server of examples/tcp_echo_server.cpp, the composition of most of  *)
(* the library: use_resources opens an acceptor (io_uring/socket_handle),  *)
(* async::accept is repeat(accept_once) | fork (net_concepts.hpp,          *)
(* sequence/repeat.hpp), every client is served by finally(echo, close),   *)
(* and ignore_all ends with the first error.  Fork is modelled in detail   *)
(* by module Fork; here it is its reference count and its stop source.     *)
(***************************************************************************)
EXTENDS Integers, FiniteSets

CONSTANT Clients

VARIABLES
  acceptor,    \* the listening socket
  accepting,   \* repeat and the accept operation
  client,      \* per connection: where it is
  refs,        \* fork: ref_counter_
  forkStop,    \* fork: stop_source_
  asked,       \* the receiver of use_resources requested stop
  failure,     \* whether an error was stored
  server       \* how use_resources ended

serverVars == <<acceptor, accepting, client, refs, forkStop, asked,
                failure, server>>

ServerInit ==
  /\ acceptor = "none"
  /\ accepting = "none"
  /\ client = [c \in Clients |-> "none"]
  /\ refs = 0
  /\ forkStop = FALSE
  /\ asked = FALSE
  /\ failure = FALSE
  /\ server = "running"

(* socket_::operation_base::complete and the continuation of               *)
(* acceptor::open: socket, setsockopt, bind, listen; then the body of      *)
(* use_resources starts, and fork with one reference.  After a stop        *)
(* request the item is refused and the acceptor is closed.                 *)
OpenAcceptor ==
  /\ acceptor = "none" /\ server = "running"
  /\ acceptor' = IF asked THEN "closing" ELSE "open"
  /\ accepting' = IF asked THEN "ended" ELSE "repeat"
  /\ refs' = IF asked THEN 0 ELSE 1
  /\ UNCHANGED <<client, forkStop, asked, failure, server>>

(* The same, when socket fails (nothing is open) or when throw_on_error    *)
(* leaves the descriptor behind.                                           *)
OpenAcceptorFails ==
  /\ acceptor = "none" /\ server = "running"
  /\ acceptor' \in {"failed", "lost"}
  /\ failure' = TRUE
  /\ server' = "error"
  /\ UNCHANGED <<accepting, client, refs, forkStop, asked>>

(* decrease_ref: the last reference completes ignore_all's receiver, first *)
(* stops its item, and use_resources closes the acceptor.                  *)
Release(n) ==
  /\ refs' = refs - n
  /\ acceptor' = IF refs - n = 0 THEN "closing" ELSE acceptor

(* Mutant of Repeat: set_next takes no reference for the item.             *)
RepeatWithoutReference ==
  /\ accepting = "repeat"
  /\ IF forkStop
       THEN accepting' = "ended" /\ Release(1)
       ELSE accepting' = "accepting" /\ UNCHANGED <<refs, acceptor>>
  /\ UNCHANGED <<client, forkStop, asked, failure, server>>

(* operation::repeat: after a stop request the sequence ends with          *)
(* set_value and fork drops its own reference; else accept_once is         *)
(* subscribed again, fork's set_next takes a reference, and the accept     *)
(* operation is submitted.                                                 *)
Repeat ==
  /\ accepting = "repeat"
  /\ IF forkStop
       THEN accepting' = "ended" /\ Release(1)
       ELSE accepting' = "accepting" /\ refs' = refs + 1 /\ UNCHANGED acceptor
  /\ UNCHANGED <<client, forkStop, asked, failure, server>>

(* accept_operation_base::complete with a socket.  fork's item operation   *)
(* is allocated and started, and repeat::receiver::set_value goes on.  If  *)
(* fork was stopped in between, item_operation::start deletes the item and *)
(* its socket handle, which closes nothing.                                *)
AcceptValue(c) ==
  /\ accepting = "accepting"
  /\ client[c] = "none"
  /\ accepting' = "repeat"
  /\ client' = [client EXCEPT ![c] = IF forkStop THEN "lost" ELSE "echoing"]
  /\ IF forkStop THEN Release(1) ELSE UNCHANGED <<refs, acceptor>>
  /\ UNCHANGED <<forkStop, asked, failure, server>>

(* async_new throws: set_error, request_stop, decrease_ref.                *)
AllocateFails(c) ==
  /\ accepting = "accepting"
  /\ client[c] = "none"
  /\ accepting' = "repeat"
  /\ client' = [client EXCEPT ![c] = "lost"]
  /\ forkStop' = TRUE
  /\ failure' = TRUE
  /\ Release(1)
  /\ UNCHANGED <<asked, server>>

(* accept_operation_base::complete with an error, or stopped by fork's     *)
(* stop token: upon_error and upon_stopped of fork's set_next.             *)
AcceptFails ==
  /\ accepting = "accepting"
  /\ accepting' = "repeat"
  /\ \E error \in BOOLEAN :
       (error \/ forkStop) /\ failure' = (failure \/ error)
  /\ forkStop' = TRUE
  /\ Release(1)
  /\ UNCHANGED <<client, asked, server>>

(* echo_input ends: at the end of the stream, with an error or stopped;    *)
(* exec::finally keeps the result and starts close.                        *)
EchoEnds(c) ==
  /\ client[c] = "echoing"
  /\ client' = [client EXCEPT ![c] = "closing"]
  /\ UNCHANGED <<acceptor, accepting, refs, forkStop, asked, failure, server>>

(* Mutant of ClientClosed: an item stops fork however it ends.             *)
ClientClosedStops(c) ==
  /\ client[c] = "closing"
  /\ client' = [client EXCEPT ![c] = "closed"]
  /\ \E error \in BOOLEAN : failure' = (failure \/ error)
  /\ forkStop' = TRUE
  /\ Release(1)
  /\ UNCHANGED <<accepting, asked, server>>

(* close_operation_base::complete, then fork's item_receiver: after an     *)
(* error of the echo or of close ignore_all keeps it and stops the item,   *)
(* which stops fork; the item is deleted and final_receiver drops its      *)
(* reference.                                                              *)
ClientClosed(c) ==
  /\ client[c] = "closing"
  /\ client' = [client EXCEPT ![c] = "closed"]
  /\ \E error \in BOOLEAN :
       /\ failure' = (failure \/ error)
       /\ forkStop' = (forkStop \/ error)
  /\ Release(1)
  /\ UNCHANGED <<accepting, asked, server>>

(* Another sender of when_any ended.  While fork runs, its callback        *)
(* requests stop and gives up a reference that is not its own.             *)
StopServer ==
  /\ server = "running" /\ ~asked
  /\ asked' = TRUE
  /\ IF refs > 0 THEN forkStop' = TRUE /\ Release(1)
                 ELSE UNCHANGED <<forkStop, refs, acceptor>>
  /\ UNCHANGED <<accepting, client, failure, server>>

(* The acceptor is closed and use_resources ends.                          *)
AcceptorClosed ==
  /\ acceptor = "closing"
  /\ acceptor' = "closed"
  /\ server' = IF asked THEN "stopped" ELSE IF failure THEN "error" ELSE "value"
  /\ UNCHANGED <<accepting, client, refs, forkStop, asked, failure>>

ServerStep ==
  \/ OpenAcceptor \/ OpenAcceptorFails \/ Repeat \/ AcceptFails
  \/ \E c \in Clients : AcceptValue(c) \/ AllocateFails(c) \/ EchoEnds(c) \/ ClientClosed(c)
  \/ AcceptorClosed

ServerNext == ServerStep \/ StopServer

-----------------------------------------------------------------------------
(* Unless the receiver requests stop, the server ends after all its        *)
(* clients: while a connection is served or an accept is under way, the    *)
(* acceptor is open and what the clients refer to is alive.                *)
ServerOutlivesClients ==
  ~asked /\ acceptor \in {"closing", "closed"} =>
    /\ accepting = "ended"
    /\ \A c \in Clients : client[c] \in {"none", "closed", "lost"}

(* Unless the receiver requests stop, the server ends only because         *)
(* something failed, and with that error: a client that leaves in order    *)
(* stops neither repeat nor the others.                                    *)
EndsOnlyWithFailure == ~asked /\ server # "running" => server = "error"

(* Once fork is stopped, by a failed accept or client or from outside, the *)
(* server ends if its clients do.                                          *)
StoppedServerEnds == forkStop ~> server # "running"
=============================================================================
