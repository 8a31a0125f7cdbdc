------------------------------- MODULE Deferred -------------------------------
(***************************************************************************)
(* sio::deferred (deferred.hpp): a union of the arguments of a constructor *)
(* and of the object they make, and a flag that says which of the two is   *)
(* alive.  async_channel::open carries its context, which cannot be moved, *)
(* from sender to operation as a deferred and makes it in place with       *)
(* operator(), so that the handles may point to it.                        *)
(*                                                                         *)
(* Nothing in the class keeps a caller from copying or moving a deferred   *)
(* that was called, or from calling it again: both read arguments that     *)
(* were destroyed, which is undefined, and a behaviour ends there.         *)
(***************************************************************************)
CONSTANT Places  \* where a deferred may be: in a sender, in an operation, ...

VARIABLES
  exists,     \* the places that hold a deferred
  alive,      \* which member of data_ is alive
  emplaced,   \* emplaced_
  threw,      \* the places where the constructor of Tp threw
  deadRead,   \* the places whose dead arguments were read
  deadEnded   \* the places whose destructor destroyed a member that was dead

deferredVars == <<exists, alive, emplaced, threw, deadRead, deadEnded>>

DeferredInit ==
  /\ exists = {}
  /\ alive = [p \in Places |-> "none"]
  /\ emplaced = [p \in Places |-> FALSE]
  /\ threw = {}
  /\ deadRead = {}
  /\ deadEnded = {}

Defined == deadRead = {} /\ deadEnded = {}

(* A deferred begins to exist at p with a tuple of arguments.              *)
Begin(p, flag) ==
  /\ p \notin exists
  /\ exists' = exists \union {p}
  /\ alive' = [alive EXCEPT ![p] = "args"]
  /\ emplaced' = [emplaced EXCEPT ![p] = flag]
  /\ threw' = threw \ {p}
  /\ UNCHANGED deadEnded

(* deferred(As&&...).                                                      *)
Make(p) == Begin(p, FALSE) /\ UNCHANGED deadRead

(* The copy and the move constructor: storage takes the arguments of the   *)
(* other, dead or alive, and emplaced_ is copied.  What was moved from     *)
(* still has a tuple of arguments.                                         *)
Copy(p, q) ==
  /\ p \in exists
  /\ Begin(q, emplaced[p])
  /\ deadRead' = IF alive[p] = "args" THEN deadRead ELSE deadRead \union {p}

(* Mutant of Call: emplaced_ is not set.                                   *)
CallWithoutFlag(p) ==
  /\ p \in exists
  /\ alive' = [alive EXCEPT ![p] = "value"]
  /\ deadRead' = IF alive[p] = "args" THEN deadRead ELSE deadRead \union {p}
  /\ UNCHANGED <<exists, emplaced, threw, deadEnded>>

(* operator(): the arguments are moved out and destroyed, then the value   *)
(* is constructed.  If that throws nothing is alive and the flag is as it  *)
(* was.                                                                    *)
Call(p) ==
  /\ p \in exists
  /\ deadRead' = IF alive[p] = "args" THEN deadRead ELSE deadRead \union {p}
  /\ \/ /\ alive' = [alive EXCEPT ![p] = "value"]
        /\ emplaced' = [emplaced EXCEPT ![p] = TRUE]
        /\ UNCHANGED threw
     \/ /\ alive' = [alive EXCEPT ![p] = "none"]
        /\ threw' = threw \union {p}
        /\ UNCHANGED emplaced
  /\ UNCHANGED <<exists, deadEnded>>

(* ~deferred: destroys the member that the flag names.                     *)
End(p) ==
  /\ p \in exists
  /\ exists' = exists \ {p}
  /\ deadEnded' = IF alive[p] = (IF emplaced[p] THEN "value" ELSE "args")
                    THEN deadEnded ELSE deadEnded \union {p}
  /\ alive' = [alive EXCEPT ![p] = "none"]
  /\ UNCHANGED <<emplaced, threw, deadRead>>

DeferredNext ==
  /\ Defined
  /\ \/ \E p \in Places : Make(p) \/ Call(p) \/ End(p)
     \/ \E p, q \in Places : Copy(p, q)

DeferredSpec == DeferredInit /\ [][DeferredNext]_deferredVars

-----------------------------------------------------------------------------
(* However deferred objects were made, copied, moved and called, the       *)
(* destructor destroys the member that is alive, once: emplaced_ goes      *)
(* wrong only through dead arguments that a caller reads, after which      *)
(* nothing is claimed, or through a constructor that threw, after which    *)
(* the arguments are destroyed a second time.                              *)
DestroysWhatIsAlive == deadEnded \subseteq threw
=============================================================================
