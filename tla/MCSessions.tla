------------------------------- MODULE MCSessions -------------------------------
(***************************************************************************)
(* Small instances of Sessions: a day of a few ticks.                      *)
(***************************************************************************)
EXTENDS Sessions, TLC

\* West of Greenwich.
MCWest == -2

\* One that has passed when the session begins, one shorter than the cookie's
\* age and one longer.
MCTimeouts == {-1, 1, 3}

MCSymmetry == Permutations(Tokens) \cup Permutations(Tasks)
===============================================================================
