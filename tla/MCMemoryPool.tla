---------------------------- MODULE MCMemoryPool ----------------------------
(* Instances of MemoryPool for TLC: four uses of one size class, or three  *)
(* of one and one of another.                                              *)
EXTENDS MemoryPool, TLC

CONSTANTS o1, o2, o3, o4, o5

(* 17 and 31 bytes with the header, and the largest request whose block    *)
(* size is an int.                                                         *)
MCSize == o1 :> 1 @@ o2 :> 15 @@ o3 :> 1 @@ o4 :> 15 @@ o5 :> 1073741807

VARIABLE uses  \* the uses of the pool in this behaviour

mcVars == <<vars, uses>>

MCInit == Init /\ uses \in {{o1, o2, o3, o4}, {o1, o2, o3, o5}}

(* A use that is not one of them never starts.                             *)
Used(A) == A /\ (\A o \in Ops \ uses : pc'[o] = "idle") /\ UNCHANGED uses

MCNext == Used(Next) /\ stopRequested' \subseteq uses

MCSpec ==
  /\ MCInit /\ [][MCNext]_mcVars
  /\ \A o \in Ops : WF_mcVars(Used(Step(o)))
=============================================================================
