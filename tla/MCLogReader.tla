------------------------------ MODULE MCLogReader ------------------------------
(***************************************************************************)
(* Small instances of LogReader: a few domains, and a dict that evicts     *)
(* beyond one or two of them.                                              *)
(***************************************************************************)
EXTENDS LogReader, TLC

MCSymmetry == Permutations(Domains) \cup Permutations(Clients)
===============================================================================
