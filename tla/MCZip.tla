-------------------------------- MODULE MCZip --------------------------------
(* Instances of Zip for TLC.                                               *)
EXTENDS Zip
=============================================================================
