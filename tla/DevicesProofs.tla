------------------------------ MODULE DevicesProofs -----------------------------
(***************************************************************************)
(* For any number of devices, keys, addresses and operations: addresses    *)
(* and discovered clients are distinct as long as activities do not        *)
(* overlap; a deleted peer is gone from wg0.conf, and one of the table is  *)
(* in it, whatever overlaps.                                               *)
(***************************************************************************)
EXTENDS Devices, FiniteSetTheorems, TLAPS

(***************************************************************************)
(* The invariant                                                           *)
(***************************************************************************)

\* The table and the activities have their types; the rows are finitely many.
Typed ==
  /\ devices \in [Ids -> Row]
  /\ task \in [Tasks -> Task]
  /\ IsFiniteSet(Present)

\* Each step has what it needs.
Carries ==
  \A t \in Tasks :
    /\ task[t].pc \in {"append", "insert"} => task[t].key \in Keys
    /\ task[t].pc \in {"remove", "delete"} => task[t].id \in Ids
    /\ task[t].pc \in {"lookup", "discover"} => task[t].ip \in Addrs

Under(t) == task[t].pc # "idle"

\* Without an overlap, one activity is under way.
OneUnderWay ==
  "overlap" \notin past => \A t, u \in Tasks : Under(t) /\ Under(u) => t = u

NoneDeleted == \A i \in Ids : devices[i].state # "deleted"

\* As long as nothing was deleted, the addresses given are those below the next,
\* which is what an add has counted.
AddressesBelow ==
  "overlap" \notin past /\ NoneDeleted =>
    /\ \A i \in Peers : devices[i].offset < Offset
    /\ \A t \in Tasks : task[t].pc \in {"append", "insert"} => task[t].offset = Offset
    /\ DistinctAddresses

\* A discovery goes on only if the client has no row, and then nobody else gives
\* it one.
DiscoveredIsNew ==
  "overlap" \notin past =>
    /\ \A t \in Tasks : task[t].pc = "discover" => ~HasRow(task[t].ip)
    /\ \A i, j \in Present \ Peers : devices[i].ip = devices[j].ip => i = j

Inv == Typed /\ Carries /\ OneUnderWay /\ AddressesBelow /\ DiscoveredIsNew

\* The lines of wg0.conf have their types; without a file there are none.
ConfTyped ==
  /\ places \in Nat
  /\ DOMAIN conf \subseteq 1..places
  /\ conf \in [DOMAIN conf -> Line]
  /\ confExists \in BOOLEAN
  /\ ~confExists => DOMAIN conf = {}

\* A key is generated once, carried by one add, and then by the row it inserts;
\* a delete knows the key of its row.
KeysHeld ==
  /\ generated \subseteq Keys
  /\ \A i \in Ids :
       /\ devices[i].key \in generated \cup {None}
       /\ devices[i].state = "unused" => devices[i].key = None
  /\ \A t \in Tasks :
       /\ task[t].pc \in {"append", "insert"} =>
            /\ task[t].key \in generated
            /\ \A i \in Ids : devices[i].key # task[t].key
            /\ \A u \in Tasks : u # t /\ task[u].pc \in {"append", "insert"} =>
                 task[u].key # task[t].key
       /\ task[t].pc \in {"remove", "delete"} =>
            /\ devices[task[t].id].state # "unused"
            /\ task[t].key = devices[task[t].id].key

\* Headers have no key, and an address comes next to the key it belongs to.
WellFormed ==
  \A n \in DOMAIN conf :
    /\ conf[n].kind \in {"[Interface]", "[Peer]"} => conf[n].key = None
    /\ conf[n].kind = "AllowedIPs" =>
         /\ n - 1 \in DOMAIN conf
         /\ conf[n - 1].kind = "PublicKey" /\ conf[n - 1].key = conf[n].key

\* wg0.conf has no line of the key.
Absent(key) == \A n \in DOMAIN conf : conf[n].key # key

\* A peer is out of wg0.conf before its row is deleted.
RemovedFirst ==
  \A t \in Tasks : task[t].pc = "delete" /\ task[t].key # None =>
    Absent(task[t].key)

\* A peer is in wg0.conf before its row is inserted.
AppendedFirst ==
  confExists /\ "removal" \notin past =>
    \A t \in Tasks : task[t].pc = "insert" => Whole(task[t].key)

FileInv ==
  /\ Inv
  /\ ConfTyped /\ KeysHeld /\ WellFormed
  /\ RemovedFirst /\ DeletedIsGone
  /\ AppendedFirst /\ PeersKept

(***************************************************************************)
(* The history                                                             *)
(***************************************************************************)

\* What is remembered as no overlap was none, and leaves one activity.
LEMMA NoOverlap ==
  ASSUME Remember, "overlap" \notin past'
  PROVE  /\ "overlap" \notin past
         /\ \A t, u \in Tasks : task'[t].pc # "idle" /\ task'[u].pc # "idle" => t = u
<1> DEFINE A == {t \in Tasks : task'[t].pc # "idle"}
<1>1. "overlap" \notin past /\ ~(Cardinality(A) > 1)
  BY DEF Remember
<1>2. SUFFICES ASSUME NEW t \in A, NEW u \in A, t # u
               PROVE  Cardinality(A) > 1
  BY <1>1
<1>3. {t, u} \subseteq A /\ IsFiniteSet(A)
  BY DevicesTasks, FS_Subset
<1>4. IsFiniteSet({t, u}) /\ Cardinality({t, u}) = 2
  <2>1. IsFiniteSet({t}) /\ Cardinality({t}) = 1 /\ u \notin {t} /\ {t} \cup {u} = {t, u}
    BY <1>2, FS_Singleton
  <2>2. IsFiniteSet({t} \cup {u}) /\ Cardinality({t} \cup {u}) = Cardinality({t}) + 1
    BY ONLY <2>1, FS_AddElement
  <2> QED BY <2>1, <2>2
<1>5. Cardinality({t, u}) <= Cardinality(A) /\ Cardinality(A) \in Nat
  BY <1>3, FS_Subset, FS_CardinalityType
<1> QED BY <1>4, <1>5

\* Every action remembers.
LEMMA OneUnderWayKept ==
  ASSUME OneUnderWay, Remember \/ UNCHANGED vars
  PROVE  OneUnderWay' /\ ("overlap" \notin past' => "overlap" \notin past)
<1>1. CASE Remember
  BY <1>1, NoOverlap DEF OneUnderWay, Under
<1>2. CASE UNCHANGED vars
  BY <1>2 DEF OneUnderWay, Under, vars
<1> QED BY <1>1, <1>2

(***************************************************************************)
(* The rows                                                                *)
(***************************************************************************)

LEMMA PeersAreFinite ==
  ASSUME Typed
  PROVE  Peers \subseteq Present /\ IsFiniteSet(Peers) /\ Offset \in Nat
<1>1. Peers \subseteq Present /\ IsFiniteSet(Peers)
  BY FS_Subset DEF Typed, Peers
<1> QED BY <1>1, FS_CardinalityType DEF Offset

\* The step changes no row.
LEMMA RowsKept ==
  ASSUME devices' = devices
  PROVE  /\ Present' = Present /\ Peers' = Peers /\ Offset' = Offset
         /\ NoneDeleted' = NoneDeleted /\ DistinctAddresses' = DistinctAddresses
         /\ \A ip : HasRow(ip)' = HasRow(ip)
BY DEF Present, Peers, Offset, NoneDeleted, DistinctAddresses, HasRow

\* A row is added.
LEMMA RowAdded ==
  ASSUME Typed, NEW key \in Keys \cup {None}, NEW offset \in Nat,
         NEW ip \in Addrs \cup {None}, Insert(key, offset, ip)
  PROVE  /\ devices' \in [Ids -> Row]
         /\ IsFiniteSet(Present')
         /\ NoneDeleted' => NoneDeleted
         /\ \E i \in Ids \ Present :
              /\ Present' = Present \cup {i}
              /\ Peers' = IF key = None THEN Peers ELSE Peers \cup {i}
              /\ devices'[i].key = key /\ devices'[i].offset = offset
              /\ devices'[i].ip = ip
              /\ \A j \in Present : devices'[j] = devices[j]
<1>1. PICK i \in Ids : /\ devices[i].state = "unused"
                       /\ devices' = [devices EXCEPT ![i] = [state |-> "present", key |-> key,
                                                     offset |-> offset, ip |-> ip]]
  BY DEF Insert
<1>2. devices' \in [Ids -> Row]
  BY <1>1 DEF Typed, Row
<1>3. i \notin Present
  BY <1>1 DEF Present
<1>4. /\ devices'[i] = [state |-> "present", key |-> key, offset |-> offset, ip |-> ip]
      /\ \A j \in Ids : j # i => devices'[j] = devices[j]
  BY <1>1 DEF Typed
<1>5. Present' = Present \cup {i}
  BY <1>4 DEF Present
<1>6. Peers' = IF key = None THEN Peers ELSE Peers \cup {i}
  BY <1>3, <1>4, <1>5 DEF Peers, Present
<1>7. IsFiniteSet(Present')
  BY <1>5, FS_AddElement DEF Typed
<1>8. NoneDeleted' => NoneDeleted
  BY <1>1, <1>4 DEF NoneDeleted
<1>9. \A j \in Present : devices'[j] = devices[j]
  BY <1>3, <1>4 DEF Present
<1> QED BY <1>2, <1>3, <1>4, <1>5, <1>6, <1>7, <1>8, <1>9

\* A row is deleted.
LEMMA RowDeleted ==
  ASSUME Typed, NEW i \in Ids, devices' = [devices EXCEPT ![i].state = "deleted"]
  PROVE  /\ devices' \in [Ids -> Row]
         /\ IsFiniteSet(Present')
         /\ ~NoneDeleted'
         /\ Present' = Present \ {i} /\ Peers' = Peers \ {i}
         /\ \A j \in Ids : devices'[j].ip = devices[j].ip
<1>1. devices' \in [Ids -> Row]
  BY DEF Typed, Row
<1>2. /\ devices'[i].state = "deleted" /\ devices'[i].key = devices[i].key
      /\ devices'[i].ip = devices[i].ip
      /\ \A j \in Ids : j # i => devices'[j] = devices[j]
  BY DEF Typed, Row
<1>3. Present' = Present \ {i}
  BY <1>2 DEF Present
<1>4. Peers' = Peers \ {i}
  BY <1>2, <1>3 DEF Peers, Present
<1>5. IsFiniteSet(Present')
  BY <1>3, FS_Subset DEF Typed
<1>6. ~NoneDeleted'
  BY <1>2 DEF NoneDeleted
<1> QED BY <1>1, <1>2, <1>3, <1>4, <1>5, <1>6

(***************************************************************************)
(* The actions                                                             *)
(***************************************************************************)

\* An action that changes the activities and no row: it begins an activity, ends
\* one, or takes it a step further.
LEMMA TaskStepKeeps ==
  ASSUME Inv, devices' = devices,
         NEW t \in Tasks, NEW record \in Task, task' = [task EXCEPT ![t] = record],
         Remember,
         record.pc \in {"append", "insert"} =>
           /\ record.key \in Keys
           /\ \/ record.offset = Offset
              \/ task[t].pc = "append" /\ record.offset = task[t].offset,
         record.pc \in {"remove", "delete"} => record.id \in Ids,
         record.pc \in {"lookup", "discover"} => record.ip \in Addrs,
         record.pc = "discover" => ~HasRow(record.ip)
  PROVE  Inv'
<1>1. task' \in [Tasks -> Task] /\ task'[t] = record
      /\ \A u \in Tasks : u # t => task'[u] = task[u]
  BY DEF Inv, Typed
<1>2. Typed'
  BY <1>1, RowsKept DEF Inv, Typed
<1>3. Carries'
  BY <1>1 DEF Inv, Carries
<1>4. OneUnderWay' /\ ("overlap" \notin past' => "overlap" \notin past)
  BY OneUnderWayKept DEF Inv
<1>5. AddressesBelow'
  <2> SUFFICES ASSUME "overlap" \notin past', NoneDeleted'
               PROVE  /\ \A i \in Peers' : devices'[i].offset < Offset'
                      /\ \A u \in Tasks :
                           task'[u].pc \in {"append", "insert"} => task'[u].offset = Offset'
                      /\ DistinctAddresses'
    BY DEF AddressesBelow
  <2>1. /\ \A i \in Peers : devices[i].offset < Offset
        /\ \A u \in Tasks : task[u].pc \in {"append", "insert"} => task[u].offset = Offset
        /\ DistinctAddresses
    BY <1>4, RowsKept DEF Inv, AddressesBelow
  <2>2. \A u \in Tasks :
          task'[u].pc \in {"append", "insert"} => task'[u].offset = Offset
    BY <1>1, <2>1
  <2> QED BY <2>1, <2>2, RowsKept
<1>6. DiscoveredIsNew'
  BY <1>1, <1>4, RowsKept DEF Inv, DiscoveredIsNew
<1> QED BY <1>2, <1>3, <1>4, <1>5, <1>6 DEF Inv

\* A peer's row comes in, at the address that was counted.
LEMMA InsertPeerKeeps ==
  ASSUME Inv, NEW t \in Tasks, InsertPeer(t)
  PROVE  Inv'
<1>1. /\ Insert(task[t].key, task[t].offset, task[t].ip)
      /\ task' = [task EXCEPT ![t] = IdleTask]
      /\ Remember /\ task[t].pc = "insert"
  BY DEF InsertPeer, Done, At
<1>2. task[t].key \in Keys /\ task[t].offset \in Nat /\ task[t].ip \in Addrs \cup {None}
  BY <1>1 DEF Inv, Typed, Carries, Task
<1>3. PICK i \in Ids \ Present :
        /\ Present' = Present \cup {i} /\ Peers' = Peers \cup {i}
        /\ devices'[i].offset = task[t].offset
        /\ \A j \in Present : devices'[j] = devices[j]
  BY <1>1, <1>2, RowAdded, DevicesNone DEF Inv
<1>4. Typed' /\ Carries'
  <2>1. IdleTask \in Task /\ IdleTask.pc = "idle"
    BY DEF IdleTask, Task
  <2>2. task' \in [Tasks -> Task] /\ devices' \in [Ids -> Row] /\ IsFiniteSet(Present')
    BY <1>1, <1>2, <2>1, RowAdded DEF Inv, Typed
  <2> QED BY <1>1, <2>1, <2>2 DEF Inv, Typed, Carries
<1>5. OneUnderWay' /\ ("overlap" \notin past' => "overlap" \notin past)
  BY <1>1, OneUnderWayKept DEF Inv
<1>6. "overlap" \notin past' => \A u \in Tasks : task'[u].pc = "idle"
  BY <1>1, <1>5 DEF Inv, Typed, OneUnderWay, Under, IdleTask
<1>7. Offset' = Offset + 1 /\ Offset \in Nat
  <2>1. IsFiniteSet(Peers) /\ i \notin Peers /\ Offset \in Nat
    BY <1>3, PeersAreFinite DEF Inv
  <2>2. Cardinality(Peers \cup {i}) = Cardinality(Peers) + 1 /\ Cardinality(Peers) \in Nat
    BY <2>1, FS_AddElement, FS_CardinalityType
  <2> QED BY <1>3, <2>1, <2>2 DEF Offset
<1>8. AddressesBelow'
  <2> SUFFICES ASSUME "overlap" \notin past', NoneDeleted'
               PROVE  /\ \A j \in Peers' : devices'[j].offset < Offset'
                      /\ DistinctAddresses'
    BY <1>6 DEF AddressesBelow
  <2>1. NoneDeleted /\ "overlap" \notin past
    BY <1>1, <1>2, <1>5, RowAdded DEF Inv
  <2>2. /\ \A j \in Peers : devices[j].offset < Offset
        /\ task[t].offset = Offset
        /\ DistinctAddresses
    BY <1>1, <2>1 DEF Inv, AddressesBelow
  <2>3. \A j \in Peers : devices'[j] = devices[j] /\ devices[j].offset \in Nat
    BY <1>3 DEF Inv, Typed, Peers, Present, Row
  <2>4. \A j \in Peers' : devices'[j].offset < Offset'
    BY <1>3, <1>7, <2>2, <2>3
  <2>5. DistinctAddresses'
    BY <1>3, <1>7, <2>2, <2>3 DEF DistinctAddresses
  <2> QED BY <2>4, <2>5
<1>9. DiscoveredIsNew'
  <2>1. /\ Present' \ Peers' = Present \ Peers
        /\ \A j \in Present : devices'[j] = devices[j]
    BY <1>3 DEF Peers
  <2> QED BY <1>5, <1>6, <2>1 DEF Inv, DiscoveredIsNew
<1> QED BY <1>4, <1>5, <1>8, <1>9 DEF Inv

\* A discovered client's row comes in: it is no peer, and the client has no other.
LEMMA DiscoverKeeps ==
  ASSUME Inv, NEW t \in Tasks, Discover(t)
  PROVE  Inv'
<1>1. /\ Insert(None, 0, task[t].ip)
      /\ task' = [task EXCEPT ![t] = IdleTask]
      /\ Remember /\ task[t].pc = "discover"
  BY DEF Discover, Done, At
<1>2. task[t].ip \in Addrs
  BY <1>1 DEF Inv, Carries
<1>3. PICK i \in Ids \ Present :
        /\ Present' = Present \cup {i} /\ Peers' = Peers
        /\ devices'[i].ip = task[t].ip
        /\ \A j \in Present : devices'[j] = devices[j]
  BY <1>1, <1>2, RowAdded DEF Inv
<1>4. Typed' /\ Carries'
  <2>1. IdleTask \in Task /\ IdleTask.pc = "idle"
    BY DEF IdleTask, Task
  <2>2. task' \in [Tasks -> Task] /\ devices' \in [Ids -> Row] /\ IsFiniteSet(Present')
    BY <1>1, <1>2, <2>1, RowAdded DEF Inv, Typed
  <2> QED BY <1>1, <2>1, <2>2 DEF Inv, Typed, Carries
<1>5. OneUnderWay' /\ ("overlap" \notin past' => "overlap" \notin past)
  BY <1>1, OneUnderWayKept DEF Inv
<1>6. "overlap" \notin past' => \A u \in Tasks : task'[u].pc = "idle"
  BY <1>1, <1>5 DEF Inv, Typed, OneUnderWay, Under, IdleTask
<1>7. AddressesBelow'
  <2> SUFFICES ASSUME "overlap" \notin past', NoneDeleted'
               PROVE  /\ \A j \in Peers' : devices'[j].offset < Offset'
                      /\ DistinctAddresses'
    BY <1>6 DEF AddressesBelow
  <2>1. NoneDeleted /\ "overlap" \notin past
    BY <1>1, <1>2, <1>5, RowAdded DEF Inv
  <2>2. (\A j \in Peers : devices[j].offset < Offset) /\ DistinctAddresses
    BY <2>1 DEF Inv, AddressesBelow
  <2>3. Offset' = Offset /\ \A j \in Peers : devices'[j] = devices[j]
    BY <1>3 DEF Offset, Peers
  <2> QED BY <1>3, <2>2, <2>3 DEF DistinctAddresses
<1>8. DiscoveredIsNew'
  <2> SUFFICES ASSUME "overlap" \notin past', NEW j \in Present' \ Peers',
                      NEW k \in Present' \ Peers', devices'[j].ip = devices'[k].ip
               PROVE  j = k
    BY <1>6 DEF DiscoveredIsNew
  <2>1. /\ ~HasRow(task[t].ip)
        /\ \A a, b \in Present \ Peers : devices[a].ip = devices[b].ip => a = b
    BY <1>1, <1>5 DEF Inv, DiscoveredIsNew
  <2>2. \A a \in Present : devices[a].ip # task[t].ip
    BY <2>1 DEF HasRow
  <2> QED BY <1>3, <2>1, <2>2
<1> QED BY <1>4, <1>5, <1>7, <1>8 DEF Inv

\* A row is deleted: the addresses are no longer promised, and no client gets
\* a second row by that.
LEMMA DeleteRowKeeps ==
  ASSUME Inv, NEW t \in Tasks, DeleteRow(t)
  PROVE  Inv'
<1>1. /\ devices' = [devices EXCEPT ![task[t].id].state = "deleted"]
      /\ task' = [task EXCEPT ![t] = IdleTask]
      /\ Remember /\ task[t].pc = "delete"
  BY DEF DeleteRow, Done, At
<1>2. task[t].id \in Ids
  BY <1>1 DEF Inv, Carries
<1>3. /\ devices' \in [Ids -> Row] /\ IsFiniteSet(Present') /\ ~NoneDeleted'
      /\ Present' = Present \ {task[t].id} /\ Peers' = Peers \ {task[t].id}
      /\ \A j \in Ids : devices'[j].ip = devices[j].ip
  BY <1>1, <1>2, RowDeleted DEF Inv
<1>4. Typed' /\ Carries'
  <2>1. IdleTask \in Task /\ IdleTask.pc = "idle"
    BY DEF IdleTask, Task
  <2>2. task' \in [Tasks -> Task]
    BY <1>1, <2>1 DEF Inv, Typed
  <2> QED BY <1>1, <1>3, <2>1, <2>2 DEF Inv, Typed, Carries
<1>5. OneUnderWay' /\ ("overlap" \notin past' => "overlap" \notin past)
  BY <1>1, OneUnderWayKept DEF Inv
<1>6. "overlap" \notin past' => \A u \in Tasks : task'[u].pc = "idle"
  BY <1>1, <1>5 DEF Inv, Typed, OneUnderWay, Under, IdleTask
<1>7. AddressesBelow'
  BY <1>3 DEF AddressesBelow
<1>8. DiscoveredIsNew'
  <2>1. Present' \ Peers' \subseteq (Present \ Peers) \cap Ids
    BY <1>3 DEF Present
  <2> QED BY <1>3, <1>5, <1>6, <2>1 DEF Inv, DiscoveredIsNew
<1> QED BY <1>4, <1>5, <1>7, <1>8 DEF Inv

\* The rows stay, and every activity is idle or where it was.
LEMMA NothingBegun ==
  ASSUME Inv, devices' = devices, Remember \/ UNCHANGED vars,
         task' \in [Tasks -> Task],
         \A t \in Tasks : task'[t] = task[t] \/ task'[t] = IdleTask
  PROVE  Inv'
<1>1. IdleTask.pc = "idle"
  BY DEF IdleTask
<1>2. Typed' /\ Carries'
  BY <1>1, RowsKept DEF Inv, Typed, Carries
<1>3. OneUnderWay' /\ ("overlap" \notin past' => "overlap" \notin past)
  BY OneUnderWayKept DEF Inv
<1>4. AddressesBelow'
  <2> SUFFICES ASSUME "overlap" \notin past', NoneDeleted'
               PROVE  /\ \A i \in Peers' : devices'[i].offset < Offset'
                      /\ \A u \in Tasks :
                           task'[u].pc \in {"append", "insert"} => task'[u].offset = Offset'
                      /\ DistinctAddresses'
    BY DEF AddressesBelow
  <2>1. /\ \A i \in Peers : devices[i].offset < Offset
        /\ \A u \in Tasks : task[u].pc \in {"append", "insert"} => task[u].offset = Offset
        /\ DistinctAddresses
    BY <1>3, RowsKept DEF Inv, AddressesBelow
  <2>2. \A u \in Tasks :
          task'[u].pc \in {"append", "insert"} => task'[u].offset = Offset
    BY <1>1, <2>1
  <2> QED BY <2>1, <2>2, RowsKept
<1>5. DiscoveredIsNew'
  BY <1>1, <1>3, RowsKept DEF Inv, DiscoveredIsNew
<1> QED BY <1>2, <1>3, <1>4, <1>5 DEF Inv

\* An activity ends without a row being changed.
LEMMA EndKeeps ==
  ASSUME Inv, NEW t \in Tasks,
         AppendFail(t) \/ InsertFail(t) \/ RemoveFail(t) \/ Touch(t)
  PROVE  Inv'
<1>1. devices' = devices /\ task' = [task EXCEPT ![t] = IdleTask] /\ Remember
  BY DEF AppendFail, InsertFail, RemoveFail, Touch, Done
<1>2. IdleTask \in Task
  BY DEF IdleTask, Task
<1>3. task' \in [Tasks -> Task] /\ \A u \in Tasks : task'[u] = task[u] \/ task'[u] = IdleTask
  BY <1>1, <1>2 DEF Inv, Typed
<1> QED BY <1>1, <1>3, NothingBegun

LEMMA CrashKeeps ==
  ASSUME Inv, Crash
  PROVE  Inv'
<1>1. devices' = devices /\ task' = [t \in Tasks |-> IdleTask] /\ Remember
  BY DEF Crash
<1>2. IdleTask \in Task
  BY DEF IdleTask, Task
<1>3. task' \in [Tasks -> Task] /\ \A u \in Tasks : task'[u] = IdleTask
  BY <1>1, <1>2
<1> QED BY <1>1, <1>3, NothingBegun

\* A request begins.
LEMMA BeginKeeps ==
  ASSUME Inv, NEW t \in Tasks,
         \/ \E ip \in Addrs \cup {None} : Add(t, ip)
         \/ Delete(t)
         \/ \E ip \in Addrs : Seen(t, ip)
  PROVE  Inv'
<1>1. CASE \E ip \in Addrs \cup {None} : Add(t, ip)
  <2>1. PICK ip \in Addrs \cup {None}, k \in Keys :
          /\ task' = [task EXCEPT ![t] = [IdleTask EXCEPT !.pc = "append", !.key = k,
                                                        !.offset = Offset, !.ip = ip]]
          /\ devices' = devices /\ Remember
    BY <1>1 DEF Add, Begin
  <2> DEFINE record == [IdleTask EXCEPT !.pc = "append", !.key = k,
                                        !.offset = Offset, !.ip = ip]
  <2>2. /\ record \in Task
        /\ record.pc = "append" /\ record.key = k /\ record.offset = Offset
    BY PeersAreFinite DEF IdleTask, Task, Inv
  <2>3. task' = [task EXCEPT ![t] = record]
    BY <2>1
  <2> HIDE DEF record
  <2> QED BY <2>1, <2>2, <2>3, TaskStepKeeps
<1>2. CASE Delete(t)
  <2>1. PICK i \in Present :
          /\ task' = [task EXCEPT ![t] =
                        [IdleTask EXCEPT !.id = i, !.key = devices[i].key,
                           !.pc = IF devices[i].key = None THEN "delete" ELSE "remove"]]
          /\ devices' = devices /\ Remember
    BY <1>2 DEF Delete, Begin
  <2> DEFINE record == [IdleTask EXCEPT !.id = i, !.key = devices[i].key,
                          !.pc = IF devices[i].key = None THEN "delete" ELSE "remove"]
  <2>2. i \in Ids /\ devices[i].key \in Keys \cup {None}
    BY DEF Inv, Typed, Present, Row
  <2>3. /\ record \in Task
        /\ record.pc \in {"delete", "remove"} /\ record.id = i
    BY <2>2 DEF IdleTask, Task
  <2>4. task' = [task EXCEPT ![t] = record]
    BY <2>1
  <2> HIDE DEF record
  <2> QED BY <2>1, <2>2, <2>3, <2>4, TaskStepKeeps
<1>3. CASE \E ip \in Addrs : Seen(t, ip)
  <2>1. PICK ip \in Addrs :
          /\ task' = [task EXCEPT ![t] = [IdleTask EXCEPT !.pc = "lookup", !.ip = ip]]
          /\ devices' = devices /\ Remember
    BY <1>3 DEF Seen, Begin
  <2> DEFINE record == [IdleTask EXCEPT !.pc = "lookup", !.ip = ip]
  <2>2. record \in Task /\ record.pc = "lookup" /\ record.ip = ip
    BY DEF IdleTask, Task
  <2>3. task' = [task EXCEPT ![t] = record]
    BY <2>1
  <2> HIDE DEF record
  <2> QED BY <2>1, <2>2, <2>3, TaskStepKeeps
<1> QED BY <1>1, <1>2, <1>3

\* A request goes on, without a row being changed.
LEMMA GoOnKeeps ==
  ASSUME Inv, NEW t \in Tasks, AppendPeer(t) \/ RemovePeer(t) \/ Lookup(t)
  PROVE  Inv'
<1>1. task[t] \in Task
  BY DEF Inv, Typed
<1>2. CASE AppendPeer(t)
  <2> DEFINE record == [task[t] EXCEPT !.pc = "insert"]
  <2>1. /\ task' = [task EXCEPT ![t] = record] /\ devices' = devices /\ Remember
        /\ task[t].pc = "append"
    BY <1>2 DEF AppendPeer, At
  <2>2. /\ record \in Task /\ record.pc = "insert" /\ record.key = task[t].key
        /\ record.offset = task[t].offset
    BY <1>1 DEF Task
  <2>3. task[t].key \in Keys
    BY <2>1 DEF Inv, Carries
  <2> HIDE DEF record
  <2> QED BY <2>1, <2>2, <2>3, TaskStepKeeps
<1>3. CASE RemovePeer(t)
  <2> DEFINE record == [task[t] EXCEPT !.pc = "delete"]
  <2>1. /\ task' = [task EXCEPT ![t] = record] /\ devices' = devices /\ Remember
        /\ task[t].pc = "remove"
    BY <1>3 DEF RemovePeer, At
  <2>2. record \in Task /\ record.pc = "delete" /\ record.id = task[t].id
    BY <1>1 DEF Task
  <2>3. task[t].id \in Ids
    BY <2>1 DEF Inv, Carries
  <2> HIDE DEF record
  <2> QED BY <2>1, <2>2, <2>3, TaskStepKeeps
<1>4. CASE Lookup(t)
  <2> DEFINE record == [task[t] EXCEPT !.pc = IF HasRow(task[t].ip) THEN "found" ELSE "discover"]
  <2>1. /\ task' = [task EXCEPT ![t] = record] /\ devices' = devices /\ Remember
        /\ task[t].pc = "lookup"
    BY <1>4 DEF Lookup, At
  <2>2. /\ record \in Task /\ record.ip = task[t].ip
        /\ record.pc \in {"found", "discover"}
        /\ record.pc = "discover" => ~HasRow(record.ip)
    BY <1>1 DEF Task
  <2>3. task[t].ip \in Addrs
    BY <2>1 DEF Inv, Carries
  <2> HIDE DEF record
  <2> QED BY <2>1, <2>2, <2>3, TaskStepKeeps
<1> QED BY <1>2, <1>3, <1>4

-------------------------------------------------------------------------------
LEMMA Initially == Init => Inv
<1> SUFFICES ASSUME Init PROVE Inv
  OBVIOUS
<1>1. NoRow \in Row /\ NoRow.state = "unused"
  BY DEF NoRow, Row
<1>2. IdleTask \in Task /\ IdleTask.pc = "idle"
  BY DEF IdleTask, Task
<1>3. Present = {} /\ Peers = {}
  BY <1>1 DEF Init, Present, Peers
<1>4. Typed /\ Carries
  BY <1>1, <1>2, <1>3, FS_EmptySet DEF Init, Typed, Carries
<1>5. \A t \in Tasks : task[t].pc = "idle"
  BY <1>2 DEF Init
<1> QED BY <1>3, <1>4, <1>5
     DEF Inv, OneUnderWay, Under, AddressesBelow, DistinctAddresses, DiscoveredIsNew

LEMMA InvInductive == Spec => []Inv
<1>1. Inv /\ [Next]_vars => Inv'
  <2> SUFFICES ASSUME Inv, [Next]_vars PROVE Inv'
    OBVIOUS
  <2>1. CASE Next
    BY <2>1, CrashKeeps, BeginKeeps, GoOnKeeps, EndKeeps, InsertPeerKeeps,
       DiscoverKeeps, DeleteRowKeeps DEF Next
  <2>2. CASE UNCHANGED vars
    BY <2>2, NothingBegun DEF vars, Inv, Typed
  <2> QED BY <2>1, <2>2
<1> QED BY <1>1, Initially, PTL DEF Spec

(***************************************************************************)
(* wg0.conf: what is done to its lines                                     *)
(***************************************************************************)

\* The lines of a peer come behind all others.
LEMMA LinesAppended ==
  ASSUME ConfTyped, confExists, NEW k \in Keys, AppendLines(Fragment(k)),
         confExists' = confExists
  PROVE  /\ ConfTyped' /\ places' = places + 3
         /\ \A n \in DOMAIN conf : n \in DOMAIN conf' /\ conf'[n] = conf[n]
         /\ \A d \in 1..3 : /\ places + d \in DOMAIN conf'
                            /\ conf'[places + d] = Fragment(k)[d]
         /\ \A n \in DOMAIN conf' \ DOMAIN conf : n - places \in 1..3
<1> DEFINE new == (places + 1)..(places + 3)
<1>1. Len(Fragment(k)) = 3 /\ \A d \in 1..3 : Fragment(k)[d] \in Line
  BY DEF Fragment, Line
<1>2. /\ conf' = [n \in DOMAIN conf \cup new |->
                    IF n \in DOMAIN conf THEN conf[n] ELSE Fragment(k)[n - places]]
      /\ places' = places + 3
  BY <1>1 DEF AppendLines
<1>3. /\ DOMAIN conf \subseteq 1..places /\ places \in Nat
      /\ \A n \in DOMAIN conf : conf[n] \in Line
  BY DEF ConfTyped
<1>4. \A n \in DOMAIN conf' : conf'[n] \in Line
  <2>1. ASSUME NEW n \in DOMAIN conf', n \notin DOMAIN conf PROVE n - places \in 1..3
    BY <1>2, <1>3, <2>1
  <2> QED BY <1>1, <1>2, <1>3, <2>1
<1>5. \A d \in 1..3 : places + d \in new /\ places + d \notin DOMAIN conf
                      /\ (places + d) - places = d
  BY <1>3
<1>6. ConfTyped'
  <2>1. DOMAIN conf' \subseteq 1..places'
    BY <1>2, <1>3
  <2>2. conf' \in [DOMAIN conf' -> Line]
    BY <1>2, <1>4
  <2> QED BY <1>2, <1>3, <2>1, <2>2 DEF ConfTyped
<1>7. \A d \in 1..3 : /\ places + d \in DOMAIN conf'
                      /\ conf'[places + d] = Fragment(k)[d]
  BY <1>2, <1>5
<1>8. \A n \in DOMAIN conf' \ DOMAIN conf : n - places \in 1..3
  BY <1>2, <1>3
<1> QED BY <1>2, <1>6, <1>7, <1>8

LEMMA LinesDropped ==
  ASSUME NEW k, conf' = WithoutPeer(conf, k)
  PROVE  /\ DOMAIN conf' = DOMAIN conf \ Dropped(conf, k)
         /\ \A n \in DOMAIN conf' : conf'[n] = conf[n]
BY DEF WithoutPeer, Restrict

\* remove_peer drops every line of the peer ...
LEMMA PeerDropped ==
  ASSUME ConfTyped, WellFormed, NEW k \in Keys, NEW n \in DOMAIN conf, conf[n].key = k
  PROVE  n \in Dropped(conf, k)
<1>1. n \in Nat /\ conf[n].kind \in {"PublicKey", "AllowedIPs"}
  <2>1. n \in Nat /\ conf[n] \in Line
    BY DEF ConfTyped
  <2>2. conf[n].key # None
    BY DevicesNone
  <2> QED BY <2>1, <2>2 DEF WellFormed, Line
<1>2. CASE conf[n].kind = "PublicKey"
  <2>1. \A l \in n..n : l = n
    BY <1>1
  <2> QED BY <1>1, <1>2, <2>1 DEF Dropped
<1>3. CASE conf[n].kind = "AllowedIPs"
  <2> DEFINE m == n - 1
  <2>1. /\ m \in DOMAIN conf /\ conf[m].kind = "PublicKey" /\ conf[m].key = k
        /\ m <= n /\ \A l \in m..n : l = m \/ l = n
    BY <1>1, <1>3 DEF WellFormed, ConfTyped
  <2> HIDE DEF m
  <2> QED BY <1>3, <2>1 DEF Dropped
<1> QED BY <1>1, <1>2, <1>3

\* ... and no PublicKey without its AllowedIPs.
LEMMA PairKept ==
  ASSUME ConfTyped, WellFormed, NEW k, NEW n \in DOMAIN conf,
         conf[n].kind = "AllowedIPs", n - 1 \in Dropped(conf, k)
  PROVE  n \in Dropped(conf, k)
<1> DEFINE h == n - 1
<1>1. /\ n \in Nat /\ h \in Nat /\ h \in DOMAIN conf /\ conf[h].kind = "PublicKey"
      /\ h <= n /\ \A m \in Nat : \A l \in m..n : l \in m..h \/ l = n
  BY DEF ConfTyped, WellFormed
<1>2. h \in Dropped(conf, k)
  OBVIOUS
<1> HIDE DEF h
<1>3. PICK m \in DOMAIN conf :
        /\ conf[m].kind = "PublicKey" /\ conf[m].key = k
        /\ m <= h /\ \A l \in m..h : l \in DOMAIN conf => conf[l].kind # "[Peer]"
  BY <1>1, <1>2 DEF Dropped
<1>4. m \in Nat
  BY DEF ConfTyped
<1>5. m <= n /\ \A l \in m..n : l \in DOMAIN conf => conf[l].kind # "[Peer]"
  BY <1>1, <1>3, <1>4
<1> QED BY <1>3, <1>5 DEF Dropped

\* How a step changes the file.
ConfMoves ==
  \/ conf' = conf /\ places' = places
  \/ /\ confExists
     /\ \E t \in Tasks : AppendPeer(t) /\ AppendLines(Fragment(task[t].key))
  \/ \E t \in Tasks : /\ RemovePeer(t) /\ places' = places
                      /\ conf' = WithoutPeer(conf, task[t].key)
  \/ Crash /\ places' = places /\ conf' = <<>>

LEMMA StepMovesConf ==
  ASSUME [Next]_vars
  PROVE  ConfMoves /\ confExists' = confExists
<1>1. ASSUME NEW t \in Tasks, AppendPeer(t) PROVE ConfMoves /\ confExists' = confExists
  BY <1>1 DEF AppendPeer, ConfMoves
<1>2. ASSUME NEW t \in Tasks, RemovePeer(t) PROVE ConfMoves /\ confExists' = confExists
  BY <1>2 DEF RemovePeer, ConfMoves
<1>3. ASSUME Crash PROVE ConfMoves /\ confExists' = confExists
  BY <1>3 DEF Crash, ConfMoves
<1>4. ASSUME NEW t \in Tasks, NEW ip, Add(t, ip) \/ Seen(t, ip)
      PROVE  ConfMoves /\ confExists' = confExists
  BY <1>4 DEF Add, Seen, ConfMoves
<1>5. ASSUME NEW t \in Tasks,
             \/ AppendFail(t) \/ InsertPeer(t) \/ InsertFail(t) \/ Delete(t)
             \/ RemoveFail(t) \/ DeleteRow(t) \/ Lookup(t) \/ Touch(t) \/ Discover(t)
      PROVE  ConfMoves /\ confExists' = confExists
  BY <1>5 DEF AppendFail, InsertPeer, InsertFail, Delete, RemoveFail, DeleteRow,
     Lookup, Touch, Discover, ConfMoves
<1>6. CASE UNCHANGED vars
  BY <1>6 DEF vars, ConfMoves
<1> QED BY <1>1, <1>2, <1>3, <1>4, <1>5, <1>6 DEF Next

\* Lines stay as they are, at the places they have.
LEMMA LinesStay ==
  ASSUME Carries, ConfTyped, [Next]_vars
  PROVE  /\ ConfTyped' /\ places <= places'
         /\ \A n \in DOMAIN conf \cap DOMAIN conf' : conf'[n] = conf[n]
<1>1. confExists' = confExists
  BY StepMovesConf
<1>2. CASE conf' = conf /\ places' = places
  BY <1>1, <1>2 DEF ConfTyped
<1>3. ASSUME confExists, NEW t \in Tasks, AppendPeer(t),
             AppendLines(Fragment(task[t].key))
      PROVE  /\ ConfTyped' /\ places <= places'
             /\ \A n \in DOMAIN conf \cap DOMAIN conf' : conf'[n] = conf[n]
  <2>1. task[t].key \in Keys
    BY <1>3 DEF AppendPeer, At, Carries
  <2>2. places \in Nat
    BY DEF ConfTyped
  <2> QED BY <1>1, <1>3, <2>1, <2>2, LinesAppended
<1>4. ASSUME NEW k, places' = places, conf' = WithoutPeer(conf, k)
      PROVE  /\ ConfTyped' /\ places <= places'
             /\ \A n \in DOMAIN conf \cap DOMAIN conf' : conf'[n] = conf[n]
  <2>1. /\ DOMAIN conf' \subseteq DOMAIN conf
        /\ \A n \in DOMAIN conf' : conf'[n] = conf[n]
    BY <1>4, LinesDropped
  <2>2. conf' = [n \in DOMAIN conf' |-> conf'[n]]
    BY <1>4 DEF WithoutPeer, Restrict
  <2>3. conf' \in [DOMAIN conf' -> Line]
    BY <2>1, <2>2 DEF ConfTyped
  <2> QED BY <1>1, <1>4, <2>1, <2>3 DEF ConfTyped
<1>5. CASE places' = places /\ conf' = <<>>
  BY <1>1, <1>5 DEF ConfTyped
<1> QED BY <1>2, <1>3, <1>4, <1>5, StepMovesConf DEF ConfMoves

LEMMA WellFormedKept ==
  ASSUME Carries, ConfTyped, WellFormed, [Next]_vars
  PROVE  WellFormed'
<1>1. CASE conf' = conf
  BY <1>1 DEF WellFormed
<1>2. ASSUME confExists, NEW t \in Tasks, AppendPeer(t),
             AppendLines(Fragment(task[t].key))
      PROVE  WellFormed'
  <2> DEFINE k == task[t].key
  <2>1. k \in Keys /\ confExists' = confExists
    BY <1>2, StepMovesConf DEF AppendPeer, At, Carries
  <2>2. /\ \A n \in DOMAIN conf : n \in DOMAIN conf' /\ conf'[n] = conf[n]
        /\ \A d \in 1..3 : /\ places + d \in DOMAIN conf'
                           /\ conf'[places + d] = Fragment(k)[d]
        /\ \A n \in DOMAIN conf' \ DOMAIN conf : n - places \in 1..3
    BY <1>2, <2>1, LinesAppended
  <2>3. ConfTyped' /\ places \in Nat
    BY <1>2, <2>1, LinesAppended DEF ConfTyped
  <2> HIDE DEF k
  <2>4. ASSUME NEW n \in DOMAIN conf', n \in DOMAIN conf
        PROVE  /\ conf'[n].kind \in {"[Interface]", "[Peer]"} => conf'[n].key = None
               /\ conf'[n].kind = "AllowedIPs" =>
                    /\ n - 1 \in DOMAIN conf'
                    /\ conf'[n - 1].kind = "PublicKey"
                    /\ conf'[n - 1].key = conf'[n].key
    BY <2>2, <2>4 DEF WellFormed
  <2>5. ASSUME NEW n \in DOMAIN conf', n \notin DOMAIN conf
        PROVE  /\ conf'[n].kind \in {"[Interface]", "[Peer]"} => conf'[n].key = None
               /\ conf'[n].kind = "AllowedIPs" =>
                    /\ n - 1 \in DOMAIN conf'
                    /\ conf'[n - 1].kind = "PublicKey"
                    /\ conf'[n - 1].key = conf'[n].key
    <3>1. n \in Nat /\ n - places \in 1..3
      BY <2>2, <2>3, <2>5 DEF ConfTyped
    <3>2. n = places + 1 \/ n = places + 2 \/ n = places + 3
      BY <2>3, <3>1
    <3>3. /\ conf'[places + 1] = [kind |-> "[Peer]", key |-> None]
          /\ conf'[places + 2] = [kind |-> "PublicKey", key |-> k]
          /\ conf'[places + 3] = [kind |-> "AllowedIPs", key |-> k]
          /\ places + 2 \in DOMAIN conf' /\ (places + 3) - 1 = places + 2
      BY <2>2, <2>3 DEF Fragment
    <3> QED BY <3>2, <3>3
  <2> QED BY <2>4, <2>5 DEF WellFormed
<1>3. ASSUME NEW k, conf' = WithoutPeer(conf, k)
      PROVE  WellFormed'
  <2>1. /\ DOMAIN conf' = DOMAIN conf \ Dropped(conf, k)
        /\ \A n \in DOMAIN conf' : conf'[n] = conf[n]
    BY <1>3, LinesDropped
  <2>2. ASSUME NEW n \in DOMAIN conf', conf[n].kind = "AllowedIPs"
        PROVE  n - 1 \in DOMAIN conf'
    BY <2>1, <2>2, PairKept DEF WellFormed
  <2> QED BY <2>1, <2>2 DEF WellFormed
<1>4. CASE conf' = <<>>
  BY <1>4 DEF WellFormed
<1> QED BY <1>1, <1>2, <1>3, <1>4, StepMovesConf DEF ConfMoves

\* A key that is not in the file comes in with an add of that key only.
LEMMA AbsentStays ==
  ASSUME Carries, ConfTyped, [Next]_vars, NEW key \in Keys, Absent(key),
         \A t \in Tasks : task[t].pc = "append" => task[t].key # key
  PROVE  Absent(key)'
<1>1. CASE conf' = conf
  BY <1>1 DEF Absent
<1>2. ASSUME confExists, NEW t \in Tasks, AppendPeer(t),
             AppendLines(Fragment(task[t].key))
      PROVE  Absent(key)'
  <2> DEFINE k == task[t].key
  <2>1. k \in Keys /\ k # key /\ confExists' = confExists
    BY <1>2, StepMovesConf DEF AppendPeer, At, Carries
  <2>2. /\ \A n \in DOMAIN conf : n \in DOMAIN conf' /\ conf'[n] = conf[n]
        /\ \A d \in 1..3 : conf'[places + d] = Fragment(k)[d]
        /\ \A n \in DOMAIN conf' \ DOMAIN conf : n - places \in 1..3
        /\ ConfTyped'
    BY <1>2, <2>1, LinesAppended
  <2> HIDE DEF k
  <2>3. ASSUME NEW n \in DOMAIN conf', n \notin DOMAIN conf
        PROVE  conf'[n].key # key
    <3>1. n \in Nat /\ n - places \in 1..3 /\ places \in Nat
      BY <2>2, <2>3 DEF ConfTyped
    <3>2. n = places + 1 \/ n = places + 2 \/ n = places + 3
      BY <3>1
    <3>3. \A d \in 1..3 : Fragment(k)[d].key # key
      BY <2>1, DevicesNone DEF Fragment
    <3> QED BY <2>2, <3>2, <3>3
  <2> QED BY <2>2, <2>3 DEF Absent
<1>3. ASSUME NEW k, conf' = WithoutPeer(conf, k)
      PROVE  Absent(key)'
  BY <1>3, LinesDropped DEF Absent
<1>4. CASE conf' = <<>>
  BY <1>4 DEF Absent
<1> QED BY <1>1, <1>2, <1>3, <1>4, StepMovesConf DEF ConfMoves

\* Until lines are taken out, what is in the file stays whole.
LEMMA WholeStays ==
  ASSUME Carries, ConfTyped, [Next]_vars, "removal" \notin past'
  PROVE  /\ "removal" \notin past
         /\ \A key : Whole(key) => Whole(key)'
<1>1. DOMAIN conf \subseteq DOMAIN conf' /\ "removal" \notin past
  <2>1. CASE Remember
    BY <2>1 DEF Remember
  <2>2. CASE UNCHANGED vars
    BY <2>2 DEF vars
  <2>3. Remember \/ UNCHANGED vars
    BY DEF Next, Crash, Add, AppendPeer, AppendFail, InsertPeer, InsertFail, Delete,
       RemovePeer, RemoveFail, DeleteRow, Seen, Lookup, Touch, Discover
  <2> QED BY <2>1, <2>2, <2>3
<1>2. /\ \A n \in DOMAIN conf : conf'[n] = conf[n]
      /\ 0..places \subseteq 0..places'
  BY <1>1, LinesStay DEF ConfTyped
<1>3. ASSUME NEW key, Whole(key) PROVE Whole(key)'
  <2>1. PICK n \in 0..places :
          \A d \in 1..3 : n + d \in DOMAIN conf /\ conf[n + d] = Fragment(key)[d]
    BY <1>3 DEF Whole
  <2>2. \A d \in 1..3 : n + d \in DOMAIN conf' /\ conf'[n + d] = Fragment(key)[d]
    BY <1>1, <1>2, <2>1
  <2>3. Fragment(key)' = Fragment(key)
    BY DEF Fragment
  <2> QED BY <1>2, <2>2, <2>3 DEF Whole
<1> QED BY <1>1, <1>3

(***************************************************************************)
(* Keys                                                                    *)
(***************************************************************************)

\* What a step does to a row.
RowMoves(i) ==
  \/ devices'[i] = devices[i]
  \/ \E t \in Tasks :
       /\ InsertPeer(t) /\ devices[i].state = "unused"
       /\ devices'[i].state = "present" /\ devices'[i].key = task[t].key
  \/ \E t \in Tasks :
       /\ Discover(t) /\ devices[i].state = "unused"
       /\ devices'[i].state = "present" /\ devices'[i].key = None
  \/ \E t \in Tasks :
       /\ DeleteRow(t) /\ task[t].id = i
       /\ devices'[i].state = "deleted" /\ devices'[i].key = devices[i].key

LEMMA StepMovesRows ==
  ASSUME Typed, Carries, [Next]_vars, NEW i \in Ids
  PROVE  RowMoves(i)
<1>0. devices \in [Ids -> Row] /\ task \in [Tasks -> Task]
  BY DEF Typed
<1>1. ASSUME NEW t \in Tasks, InsertPeer(t) PROVE RowMoves(i)
  <2>1. PICK j \in Ids :
          /\ devices[j].state = "unused"
          /\ devices' = [devices EXCEPT ![j] = [state |-> "present", key |-> task[t].key,
                                                offset |-> task[t].offset, ip |-> task[t].ip]]
    BY <1>1 DEF InsertPeer, Insert
  <2>2. CASE j = i
    <3>1. devices'[i] = [state |-> "present", key |-> task[t].key,
                         offset |-> task[t].offset, ip |-> task[t].ip]
      BY <1>0, <2>1, <2>2
    <3> QED BY <1>1, <2>1, <2>2, <3>1 DEF RowMoves
  <2>3. CASE j # i
    BY <1>0, <2>1, <2>3 DEF RowMoves
  <2> QED BY <2>2, <2>3
<1>2. ASSUME NEW t \in Tasks, Discover(t) PROVE RowMoves(i)
  <2>1. PICK j \in Ids :
          /\ devices[j].state = "unused"
          /\ devices' = [devices EXCEPT ![j] = [state |-> "present", key |-> None,
                                                offset |-> 0, ip |-> task[t].ip]]
    BY <1>2 DEF Discover, Insert
  <2>2. CASE j = i
    <3>1. devices'[i] = [state |-> "present", key |-> None,
                         offset |-> 0, ip |-> task[t].ip]
      BY <1>0, <2>1, <2>2
    <3> QED BY <1>2, <2>1, <2>2, <3>1 DEF RowMoves
  <2>3. CASE j # i
    BY <1>0, <2>1, <2>3 DEF RowMoves
  <2> QED BY <2>2, <2>3
<1>3. ASSUME NEW t \in Tasks, DeleteRow(t) PROVE RowMoves(i)
  <2>1. devices' = [devices EXCEPT ![task[t].id].state = "deleted"]
    BY <1>3 DEF DeleteRow
  <2>2. CASE task[t].id = i
    <3>1. devices'[i] = [devices[i] EXCEPT !.state = "deleted"] /\ devices[i] \in Row
      BY <1>0, <2>1, <2>2
    <3>2. devices'[i].state = "deleted" /\ devices'[i].key = devices[i].key
      BY <3>1 DEF Row
    <3> QED BY <1>3, <2>2, <3>2 DEF RowMoves
  <2>3. CASE task[t].id # i
    BY <1>0, <2>1, <2>3 DEF RowMoves
  <2> QED BY <2>2, <2>3
<1>4. ASSUME devices' = devices PROVE RowMoves(i)
  BY <1>4 DEF RowMoves
<1>5. ASSUME NEW t \in Tasks, NEW ip, Add(t, ip) \/ Seen(t, ip) PROVE RowMoves(i)
  BY <1>4, <1>5 DEF Add, Seen
<1>6. ASSUME NEW t \in Tasks,
             \/ AppendPeer(t) \/ AppendFail(t) \/ InsertFail(t) \/ Delete(t)
             \/ RemovePeer(t) \/ RemoveFail(t) \/ Lookup(t) \/ Touch(t)
      PROVE  RowMoves(i)
  BY <1>4, <1>6 DEF AppendPeer, AppendFail, InsertFail, Delete, RemovePeer, RemoveFail,
     Lookup, Touch
<1>7. CASE Crash \/ UNCHANGED vars
  BY <1>4, <1>7 DEF Crash, vars
<1> QED BY <1>1, <1>2, <1>3, <1>5, <1>6, <1>7 DEF Next

\* A row that is there keeps its key and stays.
LEMMA RowsStay ==
  ASSUME Typed, Carries, [Next]_vars, NEW i \in Ids, devices[i].state # "unused"
  PROVE  devices'[i].state # "unused" /\ devices'[i].key = devices[i].key
BY StepMovesRows DEF RowMoves

\* What a step does to an activity; the steps that hold no key are left out.
TaskMoves(t) ==
  \/ task'[t] = task[t]
  \/ task'[t].pc \in {"idle", "lookup", "found", "discover"}
  \/ /\ task'[t].pc = "append" /\ task'[t].key \in Keys \ generated
     /\ generated' = generated \cup {task'[t].key} /\ devices' = devices
     /\ \A u \in Tasks : u # t => task'[u] = task[u]
  \/ /\ AppendPeer(t) /\ task[t].pc = "append"
     /\ task'[t].pc = "insert" /\ task'[t].key = task[t].key
  \/ /\ task'[t].pc \in {"remove", "delete"} /\ devices' = devices
     /\ task'[t].id \in Present /\ task'[t].key = devices[task'[t].id].key
     /\ task'[t].pc = "delete" => task'[t].key = None
  \/ /\ RemovePeer(t) /\ task[t].pc = "remove"
     /\ task'[t].pc = "delete" /\ task'[t].id = task[t].id /\ task'[t].key = task[t].key

LEMMA StepMovesTasks ==
  ASSUME Typed, [Next]_vars, NEW t \in Tasks
  PROVE  TaskMoves(t)
<1>0. task \in [Tasks -> Task] /\ IdleTask.pc = "idle"
  BY DEF Typed, IdleTask
<1>1. ASSUME NEW u \in Tasks, u # t, NEW record, task' = [task EXCEPT ![u] = record]
      PROVE  TaskMoves(t)
  BY <1>0, <1>1 DEF TaskMoves
<1>2. ASSUME task' = [task EXCEPT ![t] = IdleTask] PROVE TaskMoves(t)
  BY <1>0, <1>2 DEF TaskMoves
<1>3. ASSUME NEW u \in Tasks, NEW ip \in Addrs \cup {None}, Add(u, ip)
      PROVE  TaskMoves(t)
  <2>1. PICK k \in Keys \ generated :
          /\ generated' = generated \cup {k} /\ devices' = devices
          /\ task' = [task EXCEPT ![u] = [IdleTask EXCEPT !.pc = "append", !.key = k,
                                            !.offset = Offset, !.ip = ip]]
    BY <1>3 DEF Add, Begin
  <2> DEFINE record == [IdleTask EXCEPT !.pc = "append", !.key = k,
                                        !.offset = Offset, !.ip = ip]
  <2>2. record.pc = "append" /\ record.key = k
    BY DEF IdleTask
  <2>3. task' = [task EXCEPT ![u] = record]
    BY <2>1
  <2> HIDE DEF record
  <2>4. CASE u = t
    <3>1. task'[t] = record /\ \A v \in Tasks : v # t => task'[v] = task[v]
      BY <1>0, <2>3, <2>4
    <3> QED BY <2>1, <2>2, <3>1 DEF TaskMoves
  <2> QED BY <1>1, <2>3, <2>4
<1>4. ASSUME NEW u \in Tasks, AppendPeer(u) PROVE TaskMoves(t)
  <2>1. task' = [task EXCEPT ![u].pc = "insert"] /\ task[u].pc = "append"
    BY <1>4 DEF AppendPeer, At
  <2>2. CASE u = t
    <3>1. task'[t] = [task[t] EXCEPT !.pc = "insert"] /\ task[t] \in Task
      BY <1>0, <2>1, <2>2
    <3>2. task'[t].pc = "insert" /\ task'[t].key = task[t].key
      BY <3>1 DEF Task
    <3> QED BY <1>4, <2>1, <2>2, <3>2 DEF TaskMoves
  <2>3. CASE u # t
    BY <1>0, <2>1, <2>3 DEF TaskMoves
  <2> QED BY <2>2, <2>3
<1>5. ASSUME NEW u \in Tasks, Delete(u) PROVE TaskMoves(t)
  <2>1. PICK i \in Present :
          /\ devices' = devices
          /\ task' = [task EXCEPT ![u] =
                        [IdleTask EXCEPT !.id = i, !.key = devices[i].key,
                           !.pc = IF devices[i].key = None THEN "delete" ELSE "remove"]]
    BY <1>5 DEF Delete, Begin
  <2> DEFINE record == [IdleTask EXCEPT !.id = i, !.key = devices[i].key,
                          !.pc = IF devices[i].key = None THEN "delete" ELSE "remove"]
  <2>2. /\ record.id = i /\ record.key = devices[i].key
        /\ record.pc \in {"remove", "delete"} /\ record.pc = "delete" => record.key = None
    BY DEF IdleTask
  <2>3. task' = [task EXCEPT ![u] = record]
    BY <2>1
  <2> HIDE DEF record
  <2>4. CASE u = t
    <3>1. task'[t] = record
      BY <1>0, <2>3, <2>4
    <3> QED BY <2>1, <2>2, <3>1 DEF TaskMoves
  <2> QED BY <1>1, <2>3, <2>4
<1>6. ASSUME NEW u \in Tasks, RemovePeer(u) PROVE TaskMoves(t)
  <2>1. task' = [task EXCEPT ![u].pc = "delete"] /\ task[u].pc = "remove"
    BY <1>6 DEF RemovePeer, At
  <2>2. CASE u = t
    <3>1. task'[t] = [task[t] EXCEPT !.pc = "delete"] /\ task[t] \in Task
      BY <1>0, <2>1, <2>2
    <3>2. /\ task'[t].pc = "delete" /\ task'[t].key = task[t].key
          /\ task'[t].id = task[t].id
      BY <3>1 DEF Task
    <3> QED BY <1>6, <2>1, <2>2, <3>2 DEF TaskMoves
  <2>3. CASE u # t
    BY <1>0, <2>1, <2>3 DEF TaskMoves
  <2> QED BY <2>2, <2>3
<1>7. ASSUME NEW u \in Tasks, NEW ip \in Addrs, Seen(u, ip) PROVE TaskMoves(t)
  <2> DEFINE record == [IdleTask EXCEPT !.pc = "lookup", !.ip = ip]
  <2>1. task' = [task EXCEPT ![u] = record] /\ record.pc = "lookup"
    BY <1>7 DEF Seen, Begin, IdleTask
  <2> HIDE DEF record
  <2>2. CASE u = t
    BY <1>0, <2>1, <2>2 DEF TaskMoves
  <2> QED BY <1>1, <2>1, <2>2
<1>8. ASSUME NEW u \in Tasks, Lookup(u) PROVE TaskMoves(t)
  <2>1. task' = [task EXCEPT ![u].pc = IF HasRow(task[u].ip) THEN "found" ELSE "discover"]
    BY <1>8 DEF Lookup
  <2>2. CASE u = t
    <3>1. task'[t].pc \in {"found", "discover"}
      BY <1>0, <2>1, <2>2 DEF Task
    <3> QED BY <3>1 DEF TaskMoves
  <2>3. CASE u # t
    BY <1>0, <2>1, <2>3 DEF TaskMoves
  <2> QED BY <2>2, <2>3
<1>9. ASSUME NEW u \in Tasks,
             \/ AppendFail(u) \/ InsertPeer(u) \/ InsertFail(u) \/ RemoveFail(u)
             \/ DeleteRow(u) \/ Touch(u) \/ Discover(u)
      PROVE  TaskMoves(t)
  <2>1. task' = [task EXCEPT ![u] = IdleTask]
    BY <1>9 DEF AppendFail, InsertPeer, InsertFail, RemoveFail, DeleteRow, Touch,
       Discover, Done
  <2> QED BY <1>1, <1>2, <2>1
<1>10. CASE Crash
  BY <1>0, <1>10 DEF Crash, TaskMoves
<1>11. CASE UNCHANGED vars
  BY <1>11 DEF vars, TaskMoves
<1> QED BY <1>3, <1>4, <1>5, <1>6, <1>7, <1>8, <1>9, <1>10, <1>11 DEF Next

LEMMA KeysHeldKept ==
  ASSUME Typed, Carries, KeysHeld, [Next]_vars
  PROVE  KeysHeld'
<1>1. generated \subseteq generated' /\ generated' \subseteq Keys
  <2>1. CASE generated' = generated
    BY <2>1 DEF KeysHeld
  <2>2. ASSUME NEW t \in Tasks, NEW ip \in Addrs \cup {None}, Add(t, ip)
        PROVE  generated \subseteq generated' /\ generated' \subseteq Keys
    BY <2>2 DEF Add, KeysHeld
  <2>3. ASSUME NEW t \in Tasks,
               \/ AppendPeer(t) \/ AppendFail(t) \/ InsertPeer(t) \/ InsertFail(t)
               \/ Delete(t) \/ RemovePeer(t) \/ RemoveFail(t) \/ DeleteRow(t)
               \/ (\E ip \in Addrs : Seen(t, ip))
               \/ Lookup(t) \/ Touch(t) \/ Discover(t)
        PROVE  generated' = generated
    BY <2>3 DEF AppendPeer, AppendFail, InsertPeer, InsertFail, Delete, RemovePeer,
       RemoveFail, DeleteRow, Seen, Lookup, Touch, Discover
  <2>4. CASE Crash \/ UNCHANGED vars
    BY <2>1, <2>4 DEF Crash, vars
  <2> QED BY <2>1, <2>2, <2>3, <2>4 DEF Next
<1>2. ASSUME NEW i \in Ids
      PROVE  /\ devices'[i].key \in generated' \cup {None}
             /\ devices'[i].state = "unused" => devices'[i].key = None
  <2>1. /\ devices[i].key \in generated \cup {None}
        /\ devices[i].state = "unused" => devices[i].key = None
    BY DEF KeysHeld
  <2>2. ASSUME NEW t \in Tasks, InsertPeer(t) PROVE task[t].key \in generated
    BY <2>2 DEF InsertPeer, At, KeysHeld
  <2> QED BY <1>1, <2>1, <2>2, StepMovesRows DEF RowMoves
\* A key that is carried is carried from before, or new.
<1>3. ASSUME NEW t \in Tasks, task'[t].pc \in {"append", "insert"}
      PROVE  \/ /\ task[t].pc \in {"append", "insert"} /\ task'[t].key = task[t].key
                /\ task[t].key \in generated /\ ~InsertPeer(t)
             \/ /\ task'[t].key \in Keys \ generated /\ devices' = devices
                /\ generated' = generated \cup {task'[t].key}
                /\ \A u \in Tasks : u # t => task'[u] = task[u]
  <2>1. ~InsertPeer(t)
    BY <1>3 DEF InsertPeer, Done, Typed, IdleTask
  <2>2. CASE task[t].pc \in {"append", "insert"} /\ task'[t].key = task[t].key
    BY <2>1, <2>2 DEF KeysHeld
  <2> QED BY <1>3, <2>2, StepMovesTasks DEF TaskMoves
<1>4. ASSUME NEW t \in Tasks, task'[t].pc \in {"append", "insert"}
      PROVE  /\ task'[t].key \in generated'
             /\ \A i \in Ids : devices'[i].key # task'[t].key
  <2>1. CASE /\ task'[t].key \in Keys \ generated /\ devices' = devices
             /\ generated' = generated \cup {task'[t].key}
    BY <2>1, DevicesNone DEF KeysHeld
  <2>2. CASE /\ task[t].pc \in {"append", "insert"} /\ task'[t].key = task[t].key
             /\ task[t].key \in generated /\ ~InsertPeer(t)
    <3>1. task[t].key # None
      BY <2>2, DevicesNone DEF KeysHeld
    <3>2. ASSUME NEW u \in Tasks, InsertPeer(u) PROVE task[u].key # task[t].key
      BY <2>2, <3>2 DEF KeysHeld, InsertPeer, At
    <3>3. \A i \in Ids : devices[i].key # task[t].key
      BY <2>2 DEF KeysHeld
    <3>4. \A i \in Ids : devices'[i].key # task[t].key
      BY <3>1, <3>2, <3>3, StepMovesRows DEF RowMoves
    <3> QED BY <1>1, <2>2, <3>4
  <2> QED BY <1>3, <1>4, <2>1, <2>2
<1>5. ASSUME NEW t \in Tasks, task'[t].pc \in {"append", "insert"},
             NEW u \in Tasks, u # t, task'[u].pc \in {"append", "insert"}
      PROVE  task'[u].key # task'[t].key
  <2>1. \A v \in Tasks : task[v].pc \in {"append", "insert"} => task[v].key \in generated
    BY DEF KeysHeld
  <2>2. CASE task'[t].key \notin generated
    BY <1>3, <1>5, <2>1, <2>2
  <2>3. CASE task'[u].key \notin generated
    BY <1>3, <1>5, <2>1, <2>3
  <2>4. CASE task'[t].key \in generated /\ task'[u].key \in generated
    <3>1. /\ task[t].pc \in {"append", "insert"} /\ task'[t].key = task[t].key
          /\ task[u].pc \in {"append", "insert"} /\ task'[u].key = task[u].key
      BY <1>3, <1>5, <2>4
    <3> QED BY <1>5, <3>1 DEF KeysHeld
  <2> QED BY <2>2, <2>3, <2>4
<1>6. ASSUME NEW t \in Tasks, task'[t].pc \in {"remove", "delete"}
      PROVE  /\ devices'[task'[t].id].state # "unused"
             /\ task'[t].key = devices'[task'[t].id].key
  <2>1. CASE /\ task[t].pc \in {"remove", "delete"} /\ task'[t].id = task[t].id
             /\ task'[t].key = task[t].key
    <3>1. /\ task[t].id \in Ids /\ devices[task[t].id].state # "unused"
          /\ task[t].key = devices[task[t].id].key
      BY <2>1 DEF Carries, KeysHeld
    <3> QED BY <2>1, <3>1, RowsStay
  <2>2. CASE /\ devices' = devices /\ task'[t].id \in Present
             /\ task'[t].key = devices[task'[t].id].key
    BY <2>2 DEF Present
  <2> QED BY <1>6, <2>1, <2>2, StepMovesTasks DEF TaskMoves
<1> QED BY <1>1, <1>2, <1>4, <1>5, <1>6 DEF KeysHeld

(***************************************************************************)
(* The file and the table                                                  *)
(***************************************************************************)

\* The key of a row is not appended again.
LEMMA RowsKeyIsNotAppended ==
  ASSUME Carries, ConfTyped, KeysHeld, [Next]_vars,
         NEW i \in Ids, NEW key, key = devices[i].key, key # None, Absent(key)
  PROVE  Absent(key)'
<1>1. key \in Keys /\ \A t \in Tasks : task[t].pc = "append" => task[t].key # key
  BY DEF KeysHeld
<1> QED BY <1>1, AbsentStays

\* A delete goes on to the row when the peer is out of the file.
LEMMA RemovedFirstKept ==
  ASSUME Typed, Carries, ConfTyped, KeysHeld, WellFormed, RemovedFirst, [Next]_vars
  PROVE  RemovedFirst'
<1> SUFFICES ASSUME NEW t \in Tasks, task'[t].pc = "delete",
                    NEW key, key = task'[t].key, key # None
             PROVE  Absent(key)'
  BY DEF RemovedFirst, Absent
<1>1. CASE task'[t] = task[t]
  <2>1. task[t].id \in Ids /\ key = devices[task[t].id].key /\ Absent(key)
    BY <1>1 DEF Carries, KeysHeld, RemovedFirst
  <2> QED BY <2>1, RowsKeyIsNotAppended
<1>2. CASE RemovePeer(t) /\ task'[t].key = task[t].key
  <2>1. /\ key = task[t].key /\ key = devices[task[t].id].key /\ task[t].id \in Ids
        /\ conf' = IF confExists THEN WithoutPeer(conf, key) ELSE conf
    BY <1>2 DEF RemovePeer, At, Carries, KeysHeld
  <2>2. key \in Keys
    BY <2>1 DEF KeysHeld
  <2>3. CASE confExists
    BY <2>1, <2>2, <2>3, PeerDropped, LinesDropped DEF Absent
  <2>4. CASE ~confExists
    BY <2>1, <2>4 DEF ConfTyped, Absent
  <2> QED BY <2>3, <2>4
<1> QED BY <1>1, <1>2, StepMovesTasks DEF TaskMoves

LEMMA DeletedStaysGone ==
  ASSUME Typed, Carries, ConfTyped, KeysHeld, RemovedFirst, DeletedIsGone, [Next]_vars
  PROVE  DeletedIsGone'
<1> SUFFICES ASSUME NEW i \in Ids, devices'[i].state = "deleted",
                    NEW key, key = devices'[i].key, key # None
             PROVE  Absent(key)'
  BY DEF DeletedIsGone, Absent
<1>1. CASE devices'[i] = devices[i]
  <2>1. key = devices[i].key /\ Absent(key)
    BY <1>1 DEF DeletedIsGone, Absent
  <2> QED BY <2>1, RowsKeyIsNotAppended
<1>2. ASSUME NEW t \in Tasks, DeleteRow(t), task[t].id = i,
             devices'[i].key = devices[i].key
      PROVE  Absent(key)'
  <2>1. key = devices[i].key /\ key = task[t].key /\ task[t].pc = "delete"
    BY <1>2 DEF DeleteRow, At, KeysHeld
  <2>2. Absent(key)
    BY <2>1 DEF RemovedFirst
  <2> QED BY <2>1, <2>2, RowsKeyIsNotAppended
<1> QED BY <1>1, <1>2, StepMovesRows DEF RowMoves

\* An append makes its peer whole.
LEMMA AppendMakesWhole ==
  ASSUME Carries, ConfTyped, confExists, NEW t \in Tasks, AppendPeer(t),
         NEW key, key = task[t].key
  PROVE  Whole(key)'
<1>1. key \in Keys /\ AppendLines(Fragment(key)) /\ confExists' = confExists
  BY DEF AppendPeer, At, Carries
<1>2. /\ ConfTyped' /\ places \in Nat /\ places' = places + 3
      /\ \A d \in 1..3 : /\ places + d \in DOMAIN conf'
                         /\ conf'[places + d] = Fragment(key)[d]
  BY <1>1, LinesAppended DEF ConfTyped
<1>3. places \in 0..places' /\ Fragment(key)' = Fragment(key)
  BY <1>2 DEF Fragment
<1> QED BY <1>2, <1>3 DEF Whole

LEMMA AppendedFirstKept ==
  ASSUME Typed, Carries, ConfTyped, AppendedFirst, [Next]_vars
  PROVE  AppendedFirst'
<1> SUFFICES ASSUME confExists', "removal" \notin past',
                    NEW t \in Tasks, task'[t].pc = "insert",
                    NEW key, key = task'[t].key
             PROVE  Whole(key)'
  BY DEF AppendedFirst, Whole, Fragment
<1>1. /\ confExists /\ "removal" \notin past
      /\ \A k : Whole(k) => Whole(k)'
  BY StepMovesConf, WholeStays
<1>2. CASE task'[t] = task[t]
  <2>1. Whole(key)
    BY <1>1, <1>2 DEF AppendedFirst
  <2> QED BY <1>1, <2>1
<1>3. CASE AppendPeer(t) /\ task'[t].key = task[t].key
  BY <1>1, <1>3, AppendMakesWhole
<1> QED BY <1>2, <1>3, StepMovesTasks DEF TaskMoves

LEMMA PeersStayKept ==
  ASSUME Typed, Carries, ConfTyped, AppendedFirst, PeersKept, [Next]_vars
  PROVE  PeersKept'
<1> SUFFICES ASSUME confExists', "removal" \notin past',
                    NEW i \in Peers', NEW key, key = devices'[i].key
             PROVE  Whole(key)'
  BY DEF PeersKept, Whole, Fragment
<1>1. /\ confExists /\ "removal" \notin past
      /\ \A k : Whole(k) => Whole(k)'
  BY StepMovesConf, WholeStays
<1>2. i \in Ids /\ devices'[i].state = "present" /\ key # None
  BY DEF Peers, Present
<1>3. CASE devices'[i] = devices[i]
  <2>1. i \in Peers /\ key = devices[i].key
    BY <1>2, <1>3 DEF Peers, Present
  <2>2. Whole(key)
    BY <1>1, <2>1 DEF PeersKept
  <2> QED BY <1>1, <2>2
<1>4. ASSUME NEW t \in Tasks, InsertPeer(t), devices'[i].key = task[t].key
      PROVE  Whole(key)'
  <2>1. Whole(key)
    BY <1>1, <1>4 DEF AppendedFirst, InsertPeer, At
  <2> QED BY <1>1, <2>1
<1> QED BY <1>2, <1>3, <1>4, StepMovesRows DEF RowMoves

LEMMA FileInitially == Init => FileInv
<1> SUFFICES ASSUME Init PROVE FileInv
  OBVIOUS
<1>1. Inv
  BY Initially
<1>2. /\ \A i \in Ids : devices[i].state = "unused" /\ devices[i].key = None
      /\ \A t \in Tasks : task[t].pc = "idle"
  BY DEF Init, NoRow, IdleTask
<1>3. /\ Interface[1] = [kind |-> "[Interface]", key |-> None]
      /\ DOMAIN Interface = 1..1 /\ Len(Interface) = 1
      /\ Interface = [n \in 1..1 |-> [kind |-> "[Interface]", key |-> None]]
  BY DEF Interface
<1>4. ConfTyped /\ WellFormed
  <2>1. CASE confExists
    <3>1. conf = Interface /\ places = 1
      BY <1>3, <2>1 DEF Init
    <3>2. [kind |-> "[Interface]", key |-> None] \in Line
      BY DEF Line
    <3>3. Interface \in [1..1 -> Line]
      BY <1>3, <3>2
    <3>4. ConfTyped
      BY <1>3, <2>1, <3>1, <3>3 DEF ConfTyped
    <3>5. \A n \in DOMAIN conf : conf[n] = [kind |-> "[Interface]", key |-> None]
      BY <1>3, <3>1
    <3> QED BY <3>4, <3>5 DEF WellFormed
  <2>2. CASE ~confExists
    <3>1. conf = <<>> /\ places = 0 /\ confExists \in BOOLEAN
      BY <2>2 DEF Init
    <3> QED BY <2>2, <3>1 DEF ConfTyped, WellFormed
  <2> QED BY <2>1, <2>2
<1>5. KeysHeld
  BY <1>2 DEF Init, KeysHeld
<1>6. RemovedFirst /\ AppendedFirst
  BY <1>2 DEF RemovedFirst, AppendedFirst
<1>7. DeletedIsGone /\ PeersKept
  BY <1>2 DEF DeletedIsGone, PeersKept, Peers, Present
<1> QED BY <1>1, <1>4, <1>5, <1>6, <1>7 DEF FileInv

LEMMA FileInvInductive == Spec => []FileInv
<1>1. FileInv /\ Inv' /\ [Next]_vars => FileInv'
  <2> SUFFICES ASSUME FileInv, Inv', [Next]_vars PROVE FileInv'
    OBVIOUS
  <2>1. /\ Typed /\ Carries /\ ConfTyped /\ KeysHeld /\ WellFormed
        /\ RemovedFirst /\ DeletedIsGone /\ AppendedFirst /\ PeersKept
    BY DEF FileInv, Inv
  <2>2. ConfTyped' /\ KeysHeld' /\ WellFormed'
    BY <2>1, LinesStay, KeysHeldKept, WellFormedKept
  <2>3. RemovedFirst' /\ DeletedIsGone'
    BY <2>1, RemovedFirstKept, DeletedStaysGone
  <2>4. AppendedFirst' /\ PeersKept'
    BY <2>1, AppendedFirstKept, PeersStayKept
  <2> QED BY <2>2, <2>3, <2>4 DEF FileInv
<1> QED BY <1>1, FileInitially, InvInductive, PTL DEF Spec

(***************************************************************************)
(* The theorems                                                            *)
(***************************************************************************)

\* As long as adds do not overlap and nothing was deleted, no two peers have the
\* same address, although it is counted and not looked up, and adds fail and
\* crash after the count (add_peer).
THEOREM AddressesAreDistinct == Spec => []AddressesDistinct
<1>1. Inv => AddressesDistinct
  BY DEF Inv, AddressesBelow, NoneDeleted, AddressesDistinct
<1> QED BY <1>1, InvInductive, PTL

\* A client is discovered once as long as activities do not overlap, although no
\* index stops a second row (_upsert_device).
THEOREM ClientsAreDiscoveredOnce == Spec => []DiscoveredOnce
<1>1. Inv => DiscoveredOnce
  BY DEF Inv, DiscoveredIsNew, DiscoveredOnce
<1> QED BY <1>1, InvInductive, PTL

\* A peer that was deleted is out of wg0.conf for good, however the steps of adds,
\* deletes and crashes interleave: remove_peer comes before the DELETE, it drops
\* every line of the key, and no add generates the key again.
THEOREM DeletedPeersAreGone == Spec => []DeletedIsGone
<1>1. FileInv => DeletedIsGone
  BY DEF FileInv
<1> QED BY <1>1, FileInvInductive, PTL

\* Until lines are taken out of wg0.conf, every peer of the table has its three
\* lines in it, one after the other: add_peer comes before the INSERT, and other
\* adds append behind them.
THEOREM PeersAreKept == Spec => []PeersKept
<1>1. FileInv => PeersKept
  BY DEF FileInv
<1> QED BY <1>1, FileInvInductive, PTL

\* The state keeps its types: the counters their bound, the table its rows, and
\* the lines of wg0.conf the places that were given out.
THEOREM TypeCorrect == Spec => []TypeOK
<1> DEFINE Bounds == ops \in 0..MaxOps /\ past \subseteq {"overlap", "removal"}
<1>1. Init => Bounds
  BY DevicesOps DEF Init
<1>2. Bounds /\ [Next]_vars => Bounds'
  <2> SUFFICES ASSUME Bounds, [Next]_vars PROVE Bounds'
    OBVIOUS
  <2>1. Remember \/ UNCHANGED vars
    BY DEF Next, Crash, Add, AppendPeer, AppendFail, InsertPeer, InsertFail, Delete,
       RemovePeer, RemoveFail, DeleteRow, Seen, Lookup, Touch, Discover
  <2>2. past' \subseteq {"overlap", "removal"}
    BY <2>1 DEF Remember, vars
  <2>3. ops' = ops \/ (ops < MaxOps /\ ops' = ops + 1)
    BY DEF Next, Crash, Add, AppendPeer, AppendFail, InsertPeer, InsertFail, Delete,
       RemovePeer, RemoveFail, DeleteRow, Seen, Lookup, Touch, Discover, Begin, vars
  <2> QED BY <2>2, <2>3, DevicesOps
<1>3. FileInv /\ Bounds => TypeOK
  BY DEF FileInv, Inv, Typed, ConfTyped, KeysHeld, TypeOK
<1> HIDE DEF Bounds
<1> QED BY <1>1, <1>2, <1>3, FileInvInductive, PTL DEF Spec
===============================================================================
