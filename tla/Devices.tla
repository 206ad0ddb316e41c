-------------------------------- MODULE Devices --------------------------------
(***************************************************************************)
(* The devices of HexBlock: the devices table, which holds the WireGuard   *)
(* peers somebody added and the clients the log reader discovered, and     *)
(* wg0.conf, which holds the peers again.                                  *)
(*                                                                         *)
(* An add counts the peers, appends to wg0.conf and then inserts the row;  *)
(* a delete rewrites wg0.conf and then deletes the row; a discovery looks  *)
(* for a row and then inserts it.  Activities interleave between these     *)
(* steps, and a step may fail.  wg0.conf is changed without awaiting.      *)
(***************************************************************************)
EXTENDS Naturals, FiniteSets, Sequences, Functions

CONSTANTS
  Ids,       \* ids of the devices table (AUTOINCREMENT: never reused)
  Keys,      \* public keys: each add generates one of its own
  Addrs,     \* addresses of clients on the network
  Tasks,     \* slots for concurrent activities
  Ops,       \* bound: the operations the environment performs
  MaxOps,    \* bound: how many of them
  Failures,  \* the steps that may fail
  None       \* no id, key or address

ASSUME DevicesNone == None \notin Ids \cup Keys \cup Addrs
ASSUME DevicesTasks == IsFiniteSet(Tasks)
ASSUME DevicesOps == Ops \subseteq {"add", "delete", "seen", "crash"} /\ MaxOps \in Nat
ASSUME DevicesFailures == Failures \subseteq {"conf", "insert", "wg", "torn"}

VARIABLES
  devices,    \* the devices table
  conf,       \* the lines of wg0.conf that matter, by their places
  places,     \* the places used: that of a line taken out stays empty
  confExists, \* there is a wg0.conf (nothing in the app creates it)
  generated,  \* the keys generated so far
  task,       \* the activities under way
  ops,        \* bound: operations performed so far
  past        \* history: "overlap", two activities were under way at once;
              \* "removal", lines were taken out of wg0.conf, or it was torn

vars == <<devices, conf, places, confExists, generated, task, ops, past>>

-------------------------------------------------------------------------------
(* The table, the file and the activities *)

\* offset stands for wg_assigned_ip, the address of that number in the subnet.
Row == [state : {"unused", "present", "deleted"}, key : Keys \cup {None},
        offset : Nat, ip : Addrs \cup {None}]

NoRow == [state |-> "unused", key |-> None, offset |-> 0, ip |-> None]

Line == [kind : {"[Interface]", "[Peer]", "PublicKey", "AllowedIPs"},
         key : Keys \cup {None}]

Interface == <<[kind |-> "[Interface]", key |-> None]>>

\* What add_peer appends for a peer.
Fragment(k) == <<[kind |-> "[Peer]", key |-> None],
                 [kind |-> "PublicKey", key |-> k],
                 [kind |-> "AllowedIPs", key |-> k]>>

Task == [pc : {"idle", "append", "insert", "remove", "delete", "lookup", "found",
               "discover"},
         id : Ids \cup {None}, key : Keys \cup {None}, offset : Nat,
         ip : Addrs \cup {None}]

IdleTask == [pc |-> "idle", id |-> None, key |-> None, offset |-> 0, ip |-> None]

TypeOK ==
  /\ devices \in [Ids -> Row]
  /\ places \in Nat
  /\ DOMAIN conf \subseteq 1..places /\ conf \in [DOMAIN conf -> Line]
  /\ confExists \in BOOLEAN
  /\ generated \in SUBSET Keys
  /\ task \in [Tasks -> Task]
  /\ ops \in 0..MaxOps
  /\ past \subseteq {"overlap", "removal"}

Present == {i \in Ids : devices[i].state = "present"}

\* The rows with a wg_public_key.
Peers == {i \in Present : devices[i].key # None}

At(t, pc) == task[t].pc = pc

Insert(key, offset, ip) ==
  \E i \in {j \in Ids : devices[j].state = "unused"} :
    devices' = [devices EXCEPT ![i] = [state |-> "present", key |-> key,
                                       offset |-> offset, ip |-> ip]]

Done(t) == task' = [task EXCEPT ![t] = IdleTask]

\* The history, in every action.
Remember ==
  past' = past
    \cup (IF Cardinality({t \in Tasks : task'[t].pc # "idle"}) > 1
          THEN {"overlap"} ELSE {})
    \cup (IF ~(DOMAIN conf \subseteq DOMAIN conf') THEN {"removal"} ELSE {})

Begin(op, t, record) ==
  /\ op \in Ops
  /\ ops < MaxOps
  /\ At(t, "idle")
  /\ ops' = ops + 1
  /\ task' = [task EXCEPT ![t] = record]

-------------------------------------------------------------------------------
(* Mutants: errors the checks must notice *)

\* The COUNT takes the rows with an ip_address only.
OffsetOfAddressed == Cardinality({i \in Peers : devices[i].ip # None}) + 2

\* The address is not passed on to the row.
InsertWithoutAddress(t) ==
  /\ At(t, "insert")
  /\ Insert(task[t].key, None, task[t].ip)
  /\ Done(t)
  /\ UNCHANGED <<conf, places, confExists, generated, ops>>
  /\ Remember

\* The row is inserted although wg0.conf could not be written.
AppendFailsQuietly(t) ==
  /\ "conf" \in Failures
  /\ At(t, "append")
  /\ confExists
  /\ task' = [task EXCEPT ![t].pc = "insert"]
  /\ UNCHANGED <<devices, conf, places, confExists, generated, ops>>
  /\ Remember

\* A peer that the interface does not know is left in wg0.conf.
RemoveSkipped(t) ==
  /\ "wg" \in Failures
  /\ At(t, "remove")
  /\ task' = [task EXCEPT ![t].pc = "delete"]
  /\ UNCHANGED <<devices, conf, places, confExists, generated, ops>>
  /\ Remember

\* A discovery inserts without looking.
LookupBlind(t) ==
  /\ At(t, "lookup")
  /\ task' = [task EXCEPT ![t].pc = "discover"]
  /\ UNCHANGED <<devices, conf, places, confExists, generated, ops>>
  /\ Remember

-------------------------------------------------------------------------------
(* Adding a peer *)

\* The next address: the server is .1, clients start at .2.
Offset == Cardinality(Peers) + 2

\* generate_keypair and the COUNT.  (If wg cannot be run, that ends the request
\* before anything has changed.)
Add(t, ip) ==
  \E k \in Keys \ generated :
    /\ generated' = generated \cup {k}
    /\ Begin("add", t, [IdleTask EXCEPT !.pc = "append", !.key = k,
                                        !.offset = Offset, !.ip = ip])
    /\ UNCHANGED <<devices, conf, places, confExists>>
    /\ Remember

\* The lines come behind all others.
AppendLines(lines) ==
  /\ conf' = [n \in DOMAIN conf \cup (places + 1)..(places + Len(lines)) |->
                IF n \in DOMAIN conf THEN conf[n] ELSE lines[n - places]]
  /\ places' = places + Len(lines)

\* From the last SELECT to the end of add_peer there is no await.
AppendPeer(t) ==
  /\ At(t, "append")
  /\ IF confExists THEN AppendLines(Fragment(task[t].key))
     ELSE UNCHANGED <<conf, places>>
  /\ task' = [task EXCEPT ![t].pc = "insert"]
  /\ UNCHANGED <<devices, confExists, generated, ops>>
  /\ Remember

\* open(conf_path, "a") raises (the mount may be read-only): an error 500.
AppendFail(t) ==
  /\ "conf" \in Failures
  /\ At(t, "append")
  /\ confExists
  /\ Done(t)
  /\ UNCHANGED <<devices, conf, places, confExists, generated, ops>>
  /\ Remember

InsertPeer(t) ==
  /\ At(t, "insert")
  /\ Insert(task[t].key, task[t].offset, task[t].ip)
  /\ Done(t)
  /\ UNCHANGED <<conf, places, confExists, generated, ops>>
  /\ Remember

\* The INSERT raises (the database is locked).
InsertFail(t) ==
  /\ "insert" \in Failures
  /\ At(t, "insert")
  /\ Done(t)
  /\ UNCHANGED <<devices, conf, places, confExists, generated, ops>>
  /\ Remember

-------------------------------------------------------------------------------
(* Deleting a device *)

\* What remove_peer drops: the [Peer] lines before a PublicKey line with the key
\* (it goes through all it has kept so far), and from that line on all others,
\* up to the next [Peer].
Dropped(lines, key) ==
  LET matches == {m \in DOMAIN lines :
                    lines[m].kind = "PublicKey" /\ lines[m].key = key}
      header(n) == lines[n].kind = "[Peer]"
  IN {n \in DOMAIN lines :
        \E m \in matches :
          \/ header(n) /\ n < m
          \/ m <= n /\ \A l \in m..n : l \in DOMAIN lines => ~header(l)}

WithoutPeer(lines, key) == Restrict(lines, DOMAIN lines \ Dropped(lines, key))

\* The SELECT of delete_device.
Delete(t) ==
  \E i \in Present :
    /\ Begin("delete", t,
             [IdleTask EXCEPT !.id = i, !.key = devices[i].key,
                !.pc = IF devices[i].key = None THEN "delete" ELSE "remove"])
    /\ UNCHANGED <<devices, conf, places, confExists, generated>>
    /\ Remember

\* remove_peer, whether or not the interface knew the peer.
RemovePeer(t) ==
  /\ At(t, "remove")
  /\ conf' = IF confExists THEN WithoutPeer(conf, task[t].key) ELSE conf
  /\ task' = [task EXCEPT ![t].pc = "delete"]
  /\ UNCHANGED <<devices, places, confExists, generated, ops>>
  /\ Remember

\* wg times out or is not there, or wg0.conf cannot be written: an error 500.
RemoveFail(t) ==
  /\ "wg" \in Failures
  /\ At(t, "remove")
  /\ Done(t)
  /\ UNCHANGED <<devices, conf, places, confExists, generated, ops>>
  /\ Remember

DeleteRow(t) ==
  /\ At(t, "delete")
  /\ devices' = [devices EXCEPT ![task[t].id].state = "deleted"]
  /\ Done(t)
  /\ UNCHANGED <<conf, places, confExists, generated, ops>>
  /\ Remember

-------------------------------------------------------------------------------
(* Discovering a client: _upsert_device *)

HasRow(ip) == \E i \in Present : devices[i].ip = ip

\* The log reader has seen a query of a client.
Seen(t, ip) ==
  /\ Begin("seen", t, [IdleTask EXCEPT !.pc = "lookup", !.ip = ip])
  /\ UNCHANGED <<devices, conf, places, confExists, generated>>
  /\ Remember

Lookup(t) ==
  /\ At(t, "lookup")
  /\ task' = [task EXCEPT ![t].pc = IF HasRow(task[t].ip) THEN "found" ELSE "discover"]
  /\ UNCHANGED <<devices, conf, places, confExists, generated, ops>>
  /\ Remember

\* The UPDATE of last_seen, which changes nothing that is modelled here.
Touch(t) ==
  /\ At(t, "found")
  /\ Done(t)
  /\ UNCHANGED <<devices, conf, places, confExists, generated, ops>>
  /\ Remember

\* INSERT OR IGNORE, after the name was resolved; no index makes it ignore.
Discover(t) ==
  /\ At(t, "discover")
  /\ Insert(None, 0, task[t].ip)
  /\ Done(t)
  /\ UNCHANGED <<conf, places, confExists, generated, ops>>
  /\ Remember

-------------------------------------------------------------------------------
(* Crashes *)

\* The process dies and is restarted; a write of wg0.conf under way is lost
\* with what the file held before ("torn").
Crash ==
  /\ "crash" \in Ops
  /\ ops < MaxOps
  /\ ops' = ops + 1
  /\ task' = [t \in Tasks |-> IdleTask]
  /\ \/ conf' = conf
     \/ /\ "torn" \in Failures
        /\ confExists
        /\ \E t \in Tasks : At(t, "remove")
        /\ conf' = <<>>
  /\ UNCHANGED <<devices, places, confExists, generated>>
  /\ Remember

-------------------------------------------------------------------------------
Init ==
  /\ devices = [i \in Ids |-> NoRow]
  /\ confExists \in BOOLEAN
  /\ conf = IF confExists THEN Interface ELSE <<>>
  /\ places = Len(conf)
  /\ generated = {}
  /\ task = [t \in Tasks |-> IdleTask]
  /\ ops = 0
  /\ past = {}

Next ==
  \/ Crash
  \/ \E t \in Tasks :
       \/ \E ip \in Addrs \cup {None} : Add(t, ip)
       \/ AppendPeer(t)
       \/ AppendFail(t)
       \/ InsertPeer(t)
       \/ InsertFail(t)
       \/ Delete(t)
       \/ RemovePeer(t)
       \/ RemoveFail(t)
       \/ DeleteRow(t)
       \/ \E ip \in Addrs : Seen(t, ip)
       \/ Lookup(t)
       \/ Touch(t)
       \/ Discover(t)

Spec == Init /\ [][Next]_vars

-------------------------------------------------------------------------------
(* Properties *)

\* A deleted peer is gone from wg0.conf as well: however the steps of adds and
\* deletes interleave, fail and crash, its key is not in the file again.
DeletedIsGone ==
  \A i \in Ids : devices[i].state = "deleted" /\ devices[i].key # None =>
    \A n \in DOMAIN conf : conf[n].key # devices[i].key

\* No two peers have the same address.  (The comment of add_peer: "Assign next
\* available IP in the subnet".)
DistinctAddresses ==
  \A i, j \in Peers : i # j => devices[i].offset # devices[j].offset

\* The lines of a peer are in the file, one after the other.
Whole(key) ==
  \E n \in 0..places :
    \A d \in 1..3 : n + d \in DOMAIN conf /\ conf[n + d] = Fragment(key)[d]

\* A peer of the table is a peer of wg0.conf: its key follows a [Peer] line
\* and its address comes next.  It holds although the file is appended before
\* the row is inserted, and adds overlap, fail and crash in between; but only
\* until the first removal, which takes [Peer] lines of others with it.
PeersKept ==
  confExists /\ "removal" \notin past => \A i \in Peers :
    Whole(devices[i].key)

\* No two peers have the same address as long as adds do not overlap and no
\* peer is deleted: failed and crashed adds, and clients that were discovered,
\* do not disturb the count.
AddressesDistinct ==
  "overlap" \notin past /\ (\A i \in Ids : devices[i].state # "deleted") =>
    DistinctAddresses

\* A client is discovered once as long as discoveries do not overlap, deletes
\* and failures included.
DiscoveredOnce ==
  "overlap" \notin past =>
    \A i, j \in Present \ Peers : devices[i].ip = devices[j].ip => i = j
===============================================================================
