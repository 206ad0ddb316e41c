----------------------------- MODULE MCBlocklists -----------------------------
(***************************************************************************)
(* Small instances of Blocklists: a domain and one below it; sources that  *)
(* serve the one or the other.                                             *)
(***************************************************************************)
EXTENDS Blocklists, TLC

CONSTANTS Parent, Child

MCDomains == {Parent, Child}

MCUnder == (Parent :> {Parent, Child}) @@ (Child :> {Child})

\* What a source serves: a list of the parent domain, or one of the child.
MCFeeds == {{Parent}, {Child}}

\* Enough where only the order of the steps matters.
MCOneFeed == {{Parent}}

MCSymmetry == Permutations(Tasks) \cup Permutations(Lists)
===============================================================================
