------------------------------- MODULE MCQueryLog -------------------------------
(***************************************************************************)
(* A small instance of QueryLog: a day of three ticks, east of Greenwich.  *)
(***************************************************************************)
EXTENDS QueryLog

\* One that keeps everything, one that keeps nothing, and two proper ones.
MCRetentions == {-1, 0, 1, 2}
===============================================================================
