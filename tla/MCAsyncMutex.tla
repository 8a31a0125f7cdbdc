---------------------------- MODULE MCAsyncMutex ----------------------------
(* Instances of AsyncMutex for TLC.                                        *)
EXTENDS AsyncMutex, TLC

(* Sound for the invariants only: operations are interchangeable.          *)
OpsSymmetry == Permutations(Ops)
=============================================================================
