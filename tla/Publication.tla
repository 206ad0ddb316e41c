------------------------------ MODULE Publication ------------------------------
(***************************************************************************)
(* What the blocklist pipeline promises, with everything abstracted that   *)
(* is not what dnsmasq is told: a configuration that wants some domains    *)
(* blocked, and an output that is either cut or says what the              *)
(* configuration wants at the moment it is published, never anything else. *)
(***************************************************************************)
CONSTANTS Domains

VARIABLES
  want,    \* the domains the configuration says to block
  out,     \* the output file
  dns      \* what dnsmasq has loaded

vars == <<want, out, dns>>

Cut == [whole |-> FALSE, domains |-> {}]

Published(S) == [whole |-> TRUE, domains |-> S]

Init == want = {} /\ out = Published({}) /\ dns = Published({})

Change == want' \in SUBSET Domains /\ UNCHANGED <<out, dns>>

\* A publication is under way: there is no output until it is done.
Open == out' = Cut /\ UNCHANGED <<want, dns>>

Publish == out' = Published(want) /\ UNCHANGED <<want, dns>>

Load == dns' = out /\ UNCHANGED <<want, out>>

Next == Change \/ Open \/ Publish \/ Load

\* Nothing but the configuration is ever published.
Safety == Init /\ [][Next]_vars

\* What is wanted and stays wanted is published, and loaded.
Spec == Safety /\ WF_vars(Publish) /\ WF_vars(Load)
===============================================================================
