-------------------------------- MODULE MCPanels --------------------------------
(***************************************************************************)
(* A small instance of Panels: a domain in two spellings, the names of the *)
(* host itself, a file with a line for nothing of each sort and one        *)
(* without.                                                                *)
(***************************************************************************)
EXTENDS Panels, TLC

CONSTANTS ads, Ads, spy, localhost, LocalHost, local

MCLower == [n \in Names |-> CASE n = Ads -> ads [] n = LocalHost -> localhost [] OTHER -> n]

Hosts(n) == [kind |-> "hosts", name |-> n]
Plain(n) == [kind |-> "plain", name |-> n]

MCFiles == {<<Hosts(localhost), Hosts(ads), Plain(spy)>>,
            <<Hosts(local), Plain(Ads), Hosts(ads), Hosts(LocalHost)>>}

\* The parsers, on every file of three lines.
ASSUME ParsersAgree == \A file \in [1..3 -> Line] : Announced(file, Preview(file))
===============================================================================
