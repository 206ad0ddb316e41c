------------------------------ MODULE MCLocalHosts ------------------------------
(***************************************************************************)
(* Small instances of LocalHosts.                                          *)
(***************************************************************************)
EXTENDS LocalHosts, TLC
===============================================================================
