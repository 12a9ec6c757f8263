---------------------------- MODULE MCLocalApic ----------------------------
(* Instances of LocalApic: the constants are given in the configurations.  *)
EXTENDS LocalApic
=============================================================================
