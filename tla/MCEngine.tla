------------------------------ MODULE MCEngine ------------------------------
(***************************************************************************)
(* Instances of Engine for TLC: the loops, stoppers and servers are model  *)
(* values given by the configuration files.                                *)
(***************************************************************************)
EXTENDS Engine
=============================================================================
