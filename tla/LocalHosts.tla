------------------------------- MODULE LocalHosts -------------------------------
(***************************************************************************)
(* The local DNS records of HexBlock: the dns_records table, and           *)
(* local-hosts.conf, which every change rebuilds from it.                  *)
(*                                                                         *)
(* A change commits, then reads the whole table, then writes the file and  *)
(* signals dnsmasq without awaiting; other changes come in between.        *)
(***************************************************************************)
EXTENDS Naturals, FiniteSets

CONSTANTS
  Names,    \* hostnames, in lower case
  Ips,      \* addresses
  Tasks,    \* slots for concurrent requests
  MaxIds,   \* bound: records ever added
  MaxOps,   \* bound: requests and crashes
  Crashes,     \* the process may crash
  ReloadFails, \* dnsmasq may not be signalled (the error is only logged)
  WriteFails   \* the file may not be opened, or not be written to the end

ASSUME LocalHostsBounds == MaxIds \in Nat /\ MaxOps \in Nat /\ Crashes \in BOOLEAN
ASSUME LocalHostsFailures == ReloadFails \in BOOLEAN /\ WriteFails \in BOOLEAN
ASSUME LocalHostsTasks == IsFiniteSet(Tasks)

VARIABLES
  records,  \* the dns_records table
  lastId,   \* its AUTOINCREMENT
  hosts,    \* the host-record lines of local-hosts.conf
  loaded,   \* what dnsmasq has loaded
  hup,      \* dnsmasq has been signalled and has not re-read its files yet
  task,     \* the requests under way
  ops,      \* bound: requests and crashes so far
  alone,    \* history: the requests under way that no other has overlapped
  repaired  \* history: nothing overlapped or crashed since such a request was
            \* answered and dnsmasq signalled

vars == <<records, lastId, hosts, loaded, hup, task, ops, alone, repaired>>

Record == [id : 1..MaxIds, name : Names, ip : Ips]

HostRecord == [name : Names, ip : Ips]

\* The rows a rebuild has read.
Task == [pc : {"idle", "select", "write"}, rows : SUBSET HostRecord]

IdleTask == [pc |-> "idle", rows |-> {}]

\* hostname is UNIQUE.
OneEach(S) == \A r, q \in S : r.name = q.name => r = q

TypeOK ==
  /\ records \in SUBSET Record /\ OneEach(records)
  /\ lastId \in 0..MaxIds
  /\ hosts \in SUBSET HostRecord /\ OneEach(hosts)
  /\ loaded \in SUBSET HostRecord
  /\ hup \in BOOLEAN
  /\ task \in [Tasks -> Task]
  /\ ops \in 0..MaxOps
  /\ alone \in SUBSET Tasks
  /\ repaired \in BOOLEAN

HostRecords == {[name |-> r.name, ip |-> r.ip] : r \in records}

Active(tasks) == {t \in Tasks : tasks[t].pc # "idle"}

\* The history, in every action: who is alone, and whether the server has been
\* repaired by a request that was.
Accompanied == Cardinality(Active(task')) > 1

Remember(isRepaired) ==
  /\ alone' = IF Accompanied THEN {} ELSE Active(task') \ (Active(task) \ alone)
  /\ repaired' = (~Accompanied /\ isRepaired)

Begin(t) ==
  /\ ops < MaxOps
  /\ task[t].pc = "idle"
  /\ ops' = ops + 1

Goto(t, pc, rows) == task' = [task EXCEPT ![t] = [pc |-> pc, rows |-> rows]]

-------------------------------------------------------------------------------
(* Mutants: errors the checks must notice *)

\* A delete returns without a rebuild.
DeleteOnly(t, id) ==
  /\ Begin(t)
  /\ records' = {r \in records : r.id # id}
  /\ UNCHANGED <<lastId, hosts, loaded, hup, task>>
  /\ Remember(repaired)

\* dnsmasq is not signalled.
WriteQuietly(t) ==
  /\ task[t].pc = "write"
  /\ hosts' = task[t].rows
  /\ Goto(t, "idle", {})
  /\ UNCHANGED <<records, lastId, loaded, hup, ops>>
  /\ Remember(t \in alone)

-------------------------------------------------------------------------------
(* The handlers *)

\* A hostname that exists is refused (409), and nothing is rebuilt.
Add(t, name, ip) ==
  /\ Begin(t)
  /\ lastId < MaxIds
  /\ \A r \in records : r.name # name
  /\ lastId' = lastId + 1
  /\ records' = records \cup {[id |-> lastId', name |-> name, ip |-> ip]}
  /\ Goto(t, "select", {})
  /\ UNCHANGED <<hosts, loaded, hup>>
  /\ Remember(repaired)

\* A record that is gone is deleted again without a complaint.
Delete(t, id) ==
  /\ Begin(t)
  /\ records' = {r \in records : r.id # id}
  /\ Goto(t, "select", {})
  /\ UNCHANGED <<lastId, hosts, loaded, hup>>
  /\ Remember(repaired)

\* _rebuild_local_hosts: the SELECT ...
Select(t) ==
  /\ task[t].pc = "select"
  /\ Goto(t, "write", HostRecords)
  /\ UNCHANGED <<records, lastId, hosts, loaded, hup, ops>>
  /\ Remember(repaired)

\* ... and, after the await, the write and the signal.  (What dnsmasq may see of
\* a file being written is left out: the signal makes it read the file again.)
Write(t) ==
  /\ task[t].pc = "write"
  /\ hosts' = task[t].rows
  /\ hup' = TRUE
  /\ Goto(t, "idle", {})
  /\ UNCHANGED <<records, lastId, loaded, ops>>
  /\ Remember(t \in alone)

\* The reload command fails, which leaves nothing but a line in the log.
WriteUnsignalled(t) ==
  /\ ReloadFails
  /\ task[t].pc = "write"
  /\ hosts' = task[t].rows
  /\ Goto(t, "idle", {})
  /\ UNCHANGED <<records, lastId, loaded, hup, ops>>
  /\ Remember(FALSE)

\* Any part of what is to be written may be in the file when a write is cut.
CutShort(t) == task[t].pc = "write" /\ hosts' \in SUBSET task[t].rows

\* mkdir or write_text raises, in the latter case when the file is cut already:
\* an error 500, and no signal.
WriteFail(t) ==
  /\ WriteFails
  /\ task[t].pc = "write"
  /\ CutShort(t) \/ UNCHANGED hosts
  /\ Goto(t, "idle", {})
  /\ UNCHANGED <<records, lastId, loaded, hup, ops>>
  /\ Remember(FALSE)

DnsmasqReread ==
  /\ hup
  /\ hup' = FALSE
  /\ loaded' = hosts
  /\ UNCHANGED <<records, lastId, hosts, task, ops>>
  /\ Remember(repaired)

\* Nothing rebuilds the file when the process is back.
Crash ==
  /\ Crashes
  /\ ops < MaxOps
  /\ ops' = ops + 1
  /\ task' = [t \in Tasks |-> IdleTask]
  /\ UNCHANGED hosts \/ \E t \in Tasks : CutShort(t)
  /\ UNCHANGED <<records, lastId, loaded, hup>>
  /\ Remember(repaired /\ Active(task) = {})

-------------------------------------------------------------------------------
Init ==
  /\ records = {}
  /\ lastId = 0
  /\ hosts = {}
  /\ loaded = {}
  /\ hup = FALSE
  /\ task = [t \in Tasks |-> IdleTask]
  /\ ops = 0
  /\ alone = {}
  /\ repaired = TRUE

Next ==
  \/ \E t \in Tasks :
       \/ \E name \in Names, ip \in Ips : Add(t, name, ip)
       \/ \E id \in 1..lastId : Delete(t, id)
       \/ Select(t)
       \/ Write(t)
       \/ WriteUnsignalled(t)
       \/ WriteFail(t)
  \/ DnsmasqReread
  \/ Crash

Spec == Init /\ [][Next]_vars

\* The event loop runs what is ready; dnsmasq answers a signal.
Fairness ==
  /\ WF_vars(DnsmasqReread)
  /\ \A t \in Tasks : WF_vars(Select(t) \/ Write(t) \/ WriteUnsignalled(t) \/ WriteFail(t))

FairSpec == Spec /\ Fairness

-------------------------------------------------------------------------------
(* Properties *)

\* Once every request is answered, the file is the table.  (The docstring of
\* _rebuild_local_hosts: "Full rebuild of local-hosts.conf from the
\* dns_records table".)  Overlapping requests, crashes and failing writes may
\* break it; the next request that has the server to itself repairs it.
FileIsTable == Active(task) = {} /\ repaired => hosts = HostRecords

\* What is in the table for good is what dnsmasq answers in the end, if the
\* last request had the server to itself and dnsmasq was signalled.
Answered == <>[](repaired => loaded = HostRecords)
===============================================================================
