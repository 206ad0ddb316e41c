------------------------------- MODULE LogReader -------------------------------
(***************************************************************************)
(* The log reader of HexBlock: a thread that follows dnsmasq's log, pairs  *)
(* a query line with the line that answers it by the domain they name, and *)
(* has the event loop insert a row in query_log for the pair.              *)
(*                                                                         *)
(* dnsmasq answers one query after the other, so it logs a query and its   *)
(* answer next to each other.  A line stands for the query it belongs to;  *)
(* the reader sees no more of that than the line's text has: the domain,   *)
(* and in a query line the client.                                         *)
(***************************************************************************)
EXTENDS Naturals, Sequences, SequencesExt

CONSTANTS
  Domains,   \* domain names
  Clients,   \* addresses of clients
  Local,     \* whoever's query lines the reader skips: 127.0.0.1, but also any
             \* client that asks for a type _QUERY_RE does not match (type=65)
  Askers,    \* bound: which of them ask
  Answers,   \* how dnsmasq may answer: "block", "forward", "cached"
  Limit,     \* 5000: how many queries may be pending
  Evicted,   \* 1000: how many of them are dropped beyond that
  MaxAsks,   \* bound: queries asked
  Rotations, \* bound: rotations of the log file
  DbFails    \* an INSERT may fail (the database is locked)

ASSUME LocalAssumption == Local \notin Clients
ASSUME AskersAssumption == Askers \subseteq Clients \cup {Local}
ASSUME AnswersAssumption == Answers \subseteq {"block", "forward", "cached"}
ASSUME LimitAssumption == Limit \in Nat /\ Evicted \in 1..Limit
ASSUME BoundsAssumption == MaxAsks \in Nat /\ Rotations \in Nat /\ DbFails \in BOOLEAN

VARIABLES
  asks,       \* history: the queries, in the order dnsmasq got them
  unread,     \* lines of the file the reader has open, from where it is
  next,       \* lines of the file at LOG_FILE, if that is another one
  rotated,    \* LOG_FILE is another file
  writes,     \* the file dnsmasq writes to: the reader's ("here"), LOG_FILE
              \* ("next"), or one that neither has any more ("gone")
  reader,     \* the reader is about to read a line, or waits at the end
  pending,    \* queries without an answer, in the order of the dict
  inserting,  \* _insert calls that run on the event loop
  rows,       \* query_log
  events,     \* what was published
  rotations   \* bound: rotations so far

vars == <<asks, unread, next, rotated, writes, reader, pending, inserting,
          rows, events, rotations>>

-------------------------------------------------------------------------------
(* Types *)

Ask == [domain : Domains, client : Clients \cup {Local},
        answer : {"block", "forward", "cached"}]

Line == [kind : {"query", "block", "forward", "cached"}, ask : 1..MaxAsks]

\* A row of query_log: the query it was taken for (0: from a client
\* "unknown"), and the answer it was inserted at.
Row == [from : 0..MaxAsks, at : 1..MaxAsks]

DomainOf(n) == asks[n].domain

TypeOK ==
  /\ asks \in Seq(Ask)
  /\ unread \in Seq(Line)
  /\ next \in Seq(Line)
  /\ rotated \in BOOLEAN
  /\ writes \in {"here", "next", "gone"}
  /\ reader \in {"read", "end"}
  /\ pending \in Seq(1..MaxAsks)
  /\ \A m, n \in DOMAIN pending :
       DomainOf(pending[m]) = DomainOf(pending[n]) => m = n
  /\ Len(pending) <= Limit + 1  \* although only some lines check it
  /\ inserting \in Seq(Row)
  /\ rows \in Seq(Row)
  /\ events \in Seq(Row)
  /\ rotations \in 0..Rotations

-------------------------------------------------------------------------------
(* dnsmasq *)

\* The lines of a query. A query may be forwarded to both upstream servers; one
\* that is blocked has a single answer (it asks for one type).
Lines(ask, answer) ==
  LET line(kind) == [kind |-> kind, ask |-> ask] IN
  {<<line("query"), line(answer)>>} \cup
    IF answer = "forward"
    THEN {<<line("query"), line("forward"), line("forward")>>} ELSE {}

Query(domain, client, answer) ==
  /\ Len(asks) < MaxAsks
  /\ answer \in Answers
  /\ asks' = Append(asks, [domain |-> domain, client |-> client, answer |-> answer])
  /\ \E lines \in Lines(Len(asks'), answer) :
       /\ unread' = IF writes = "here" THEN unread \o lines ELSE unread
       /\ next' = IF writes = "next" THEN next \o lines ELSE next
  /\ UNCHANGED <<rotated, writes, reader, pending, inserting, rows, events,
                 rotations>>

\* The log file is renamed and a new one created.
Rotate ==
  /\ rotations < Rotations
  /\ ~rotated
  /\ writes = "here"
  /\ rotated' = TRUE
  /\ rotations' = rotations + 1
  /\ UNCHANGED <<asks, unread, next, writes, reader, pending, inserting, rows,
                 events>>

\* dnsmasq is told to open LOG_FILE again.
Reopen ==
  /\ \/ rotated /\ writes = "here" /\ writes' = "next"
     \/ writes = "gone" /\ writes' = "here"
  /\ UNCHANGED <<asks, unread, next, rotated, reader, pending, inserting, rows,
                 events, rotations>>

-------------------------------------------------------------------------------
(* The reader's dict of pending queries *)

Waiting(domain) == \E n \in DOMAIN pending : DomainOf(pending[n]) = domain

Place(domain) == CHOOSE n \in DOMAIN pending : DomainOf(pending[n]) = domain

\* pending.pop(domain): what remains, and the row it gives; nothing pending
\* gives ("A", "unknown").
Pop(domain) == RemoveAt(pending, Place(domain))

Popped(line) ==
  [from |-> IF Waiting(DomainOf(line.ask)) THEN pending[Place(DomainOf(line.ask))]
            ELSE 0,
   at |-> line.ask]

-------------------------------------------------------------------------------
(* Mutants: errors the checks must notice *)

\* A domain that is pending is not taken again.
PutOnce(ask) == IF Waiting(DomainOf(ask)) THEN pending ELSE Append(pending, ask)

\* No eviction.
EvictNothing(seq) == seq

\* The event is lost with the row.
InsertFailUnpublished(n) ==
  /\ DbFails
  /\ inserting' = RemoveAt(inserting, n)
  /\ UNCHANGED <<asks, unread, next, rotated, writes, reader, pending, rows,
                 events, rotations>>

-------------------------------------------------------------------------------
(* The reader *)

\* pending[domain] = ...: a domain that is there keeps its place.
Put(ask) ==
  IF Waiting(DomainOf(ask))
  THEN [pending EXCEPT ![Place(DomainOf(ask))] = ask]
  ELSE Append(pending, ask)

Evict(seq) == IF Len(seq) > Limit THEN SubSeq(seq, Evicted + 1, Len(seq)) ELSE seq

\* Mutant: pending.get instead of pending.pop.
ForwardLineKeeps(line) ==
  /\ line.kind = "forward"
  /\ Waiting(DomainOf(line.ask))
  /\ inserting' = Append(inserting, Popped(line))
  /\ pending' = Evict(pending)

\* Every line that names 127.0.0.1 is skipped; the answers do not name it.  A
\* query line that does not match is skipped as well: it gets as far as the check
\* of the dict's size, but the dict is never above its limit at a query line.
LocalLine(line) == line.kind = "query" /\ asks[line.ask].client = Local

QueryLine(line) ==
  /\ line.kind = "query"
  /\ ~LocalLine(line)
  /\ pending' = Put(line.ask)
  /\ UNCHANGED inserting

BlockLine(line) ==
  /\ line.kind = "block"
  /\ inserting' = Append(inserting, Popped(line))
  /\ pending' = IF Waiting(DomainOf(line.ask)) THEN Pop(DomainOf(line.ask)) ELSE pending

ForwardLine(line) ==
  /\ line.kind = "forward"
  /\ Waiting(DomainOf(line.ask))
  /\ inserting' = Append(inserting, Popped(line))
  /\ pending' = Evict(Pop(DomainOf(line.ask)))

\* A line of no interest, or of a query that is not pending.
OtherLine(line) ==
  /\ line.kind = "forward" => ~Waiting(DomainOf(line.ask))
  /\ line.kind \in {"forward", "cached"}
  /\ pending' = Evict(pending)
  /\ UNCHANGED inserting

ReadLine ==
  /\ reader = "read"
  /\ unread # <<>>
  /\ unread' = Tail(unread)
  /\ LET line == Head(unread) IN
     \/ QueryLine(line)
     \/ BlockLine(line)
     \/ ForwardLine(line)
     \/ OtherLine(line)
     \/ LocalLine(line) /\ UNCHANGED <<pending, inserting>>
  /\ UNCHANGED <<asks, next, rotated, writes, reader, rows, events, rotations>>

\* readline returned nothing: the reader sleeps.
ReadEnd ==
  /\ reader = "read"
  /\ unread = <<>>
  /\ reader' = "end"
  /\ UNCHANGED <<asks, unread, next, rotated, writes, pending, inserting, rows,
                 events, rotations>>

\* After the sleep it opens LOG_FILE, if that is another file, whatever was
\* written to the old one in the meantime.
Wake ==
  /\ reader = "end"
  /\ reader' = "read"
  /\ rotated' = FALSE
  /\ unread' = IF rotated THEN next ELSE unread
  /\ next' = <<>>
  /\ writes' = CASE ~rotated -> writes
                 [] writes = "next" -> "here"
                 [] OTHER -> "gone"
  /\ UNCHANGED <<asks, pending, inserting, rows, events, rotations>>

-------------------------------------------------------------------------------
(* The event loop: _insert *)

\* Several _insert calls run at a time; each publishes after its commit.
Insert(n) ==
  /\ rows' = Append(rows, inserting[n])
  /\ events' = Append(events, inserting[n])
  /\ inserting' = RemoveAt(inserting, n)
  /\ UNCHANGED <<asks, unread, next, rotated, writes, reader, pending, rotations>>

\* The error is logged; the event is published all the same.
InsertFail(n) ==
  /\ DbFails
  /\ events' = Append(events, inserting[n])
  /\ inserting' = RemoveAt(inserting, n)
  /\ UNCHANGED <<asks, unread, next, rotated, writes, reader, pending, rows,
                 rotations>>

-------------------------------------------------------------------------------
Init ==
  /\ asks = <<>>
  /\ unread = <<>>
  /\ next = <<>>
  /\ rotated = FALSE
  /\ writes = "here"
  /\ reader = "read"
  /\ pending = <<>>
  /\ inserting = <<>>
  /\ rows = <<>>
  /\ events = <<>>
  /\ rotations = 0

Next ==
  \/ \E domain \in Domains, client \in Askers, answer \in Answers :
       Query(domain, client, answer)
  \/ Rotate
  \/ Reopen
  \/ ReadLine
  \/ ReadEnd
  \/ Wake
  \/ \E n \in DOMAIN inserting : Insert(n) \/ InsertFail(n)

Spec == Init /\ [][Next]_vars

-------------------------------------------------------------------------------
(* Properties *)

\* Everything that was logged has been read and dealt with.
Quiet == unread = <<>> /\ next = <<>> /\ inserting = <<>>

Published(n) == \E k \in DOMAIN events : events[k].at = n

FromClient(n) == asks[n].client # Local

\* A row has the client of the very query that was answered, although the reader
\* finds it by the domain alone, keeps queries that dnsmasq answered from its
\* cache, and skips the query lines of the health check but not the lines that
\* answer it.  (Of queries whose lines are skipped nothing is said.)
Attributed ==
  \A k \in DOMAIN events : FromClient(events[k].at) => events[k].from = events[k].at

\* A query is counted once, although it may be forwarded twice.
OnceEach ==
  \A j, k \in DOMAIN events : events[j].at = events[k].at => j = k

\* A client's query that was blocked or forwarded is published in the end,
\* whatever was evicted, whether or not the database took the row, and for as
\* long as the log is not rotated.
NothingMissed ==
  Quiet /\ rotations = 0 =>
    \A n \in DOMAIN asks :
      FromClient(n) /\ asks[n].answer # "cached" => Published(n)
===============================================================================
