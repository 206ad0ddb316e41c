------------------------------- MODULE HostsFormat ------------------------------
(***************************************************************************)
(* The two parsers of a list of domains: that of the server, which decides *)
(* what is blocked, and that of the dashboard, which announces how many    *)
(* domains a file has.  A line is what both make of its text: its form,    *)
(* and the name in it.                                                     *)
(***************************************************************************)
EXTENDS Integers, Sequences, FiniteSets

CONSTANTS
  Names,      \* what can stand for a domain in a line
  Lower,      \* a name in lower case
  Qualified,  \* names of two labels or more, the last one of letters
  Loopback,   \* localhost, 0.0.0.0, broadcasthost
  LocalName   \* local

ASSUME LowerAssumption == Lower \in [Names -> Names]
ASSUME LoopbackAssumption == \A n \in Loopback : n \in Names /\ Lower[n] = n

\* "# ...", "0.0.0.0 name", "name", "||name^", "address=/name/...", "1.2.3.4"
Kinds == {"comment", "hosts", "plain", "adguard", "dnsmasq", "address"}

Line == [kind : Kinds, name : Names]

-------------------------------------------------------------------------------
\* parse_hosts_content: what a line adds to the list, whose repetitions go.
Domain(line) ==
  CASE line.kind \in {"adguard", "dnsmasq"} -> {Lower[line.name]}
    [] line.kind = "hosts"   -> {Lower[line.name]} \ (Loopback \cup {LocalName})
    [] line.kind = "plain"   -> {Lower[n] : n \in {line.name} \cap Qualified}
    [] line.kind = "address" -> {line.name}
    [] OTHER -> {}

Parsed(file) == UNION {Domain(file[i]) : i \in DOMAIN file}

-------------------------------------------------------------------------------
\* processBlFile: whether a line is counted.
Counted(line) ==
  \/ line.kind = "hosts" /\ line.name \notin Loopback
  \/ line.kind = "plain" /\ line.name \in Qualified

Preview(file) == Cardinality({i \in DOMAIN file : Counted(file[i])})

-------------------------------------------------------------------------------
\* The forms the docstring of parse_hosts_content names.
Documented(file) == \A i \in DOMAIN file : file[i].kind \in {"comment", "hosts", "plain"}

\* No line is for nothing: none names the host itself, no two the same domain.
Neat(file) ==
  /\ \A i \in DOMAIN file :
       Counted(file[i]) => Lower[file[i].name] \notin Loopback \cup {LocalName}
  /\ \A i, j \in DOMAIN file :
       /\ i # j /\ Counted(file[i]) /\ Counted(file[j])
       => Lower[file[i].name] # Lower[file[j].name]

\* What is announced is what is imported, and never less.
Announced(file, count) ==
  Documented(file) =>
    /\ Cardinality(Parsed(file)) <= count
    /\ Neat(file) => Cardinality(Parsed(file)) = count
===============================================================================
