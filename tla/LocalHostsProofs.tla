---------------------------- MODULE LocalHostsProofs ----------------------------
(***************************************************************************)
(* local-hosts.conf is the table after a request that had the server to    *)
(* itself, for any hostnames, addresses and number of requests at once.    *)
(***************************************************************************)
EXTENDS LocalHosts, FiniteSetTheorems, TLAPS

(***************************************************************************)
(* The invariant                                                           *)
(***************************************************************************)

\* What a rebuild has read names each host once, as the table does.
RowsAreTable == \A t \in Tasks : OneEach(task[t].rows)

\* A request that no other has overlapped is the only one under way; what it has
\* read is still the table.
AloneIsOnly ==
  \A t \in alone :
    /\ Active(task) = {t}
    /\ task[t].pc = "write" => task[t].rows = HostRecords

Inv == TypeOK /\ RowsAreTable /\ AloneIsOnly /\ FileIsTable

LEMMA RecordsAreOneEach ==
  ASSUME TypeOK
  PROVE  HostRecords \in SUBSET HostRecord /\ OneEach(HostRecords)
BY DEF TypeOK, OneEach, HostRecords, Record, HostRecord

LEMMA ActiveIsFinite ==
  /\ Active(task) \subseteq Tasks /\ IsFiniteSet(Active(task))
  /\ Active(task') \subseteq Tasks /\ IsFiniteSet(Active(task'))
<1>1. Active(task) \subseteq Tasks /\ Active(task') \subseteq Tasks
  BY DEF Active
<1> QED BY <1>1, LocalHostsTasks, FS_Subset

\* Of two requests under way, each is accompanied.
LEMMA TwoAreAccompanied ==
  ASSUME NEW t \in Active(task'), NEW u \in Active(task'), t # u
  PROVE  Accompanied
<1>1. {t, u} \subseteq Active(task') /\ IsFiniteSet(Active(task'))
  BY ActiveIsFinite
<1>2. IsFiniteSet({t, u}) /\ Cardinality({t, u}) = 2
  <2>1. IsFiniteSet({t}) /\ Cardinality({t}) = 1 /\ u \notin {t} /\ {t} \cup {u} = {t, u}
    BY FS_Singleton
  <2> QED BY <2>1, FS_AddElement
<1>3. Cardinality({t, u}) <= Cardinality(Active(task')) /\ Cardinality(Active(task')) \in Nat
  BY <1>1, FS_Subset, FS_CardinalityType
<1> QED BY <1>2, <1>3 DEF Accompanied

\* The history keeps its type, and who is alone is the only one.
LEMMA RememberTyped ==
  ASSUME TypeOK, NEW b \in BOOLEAN, Remember(b)
  PROVE  alone' \in SUBSET Tasks /\ repaired' \in BOOLEAN
<1>1. alone' \in SUBSET Tasks
  BY ActiveIsFinite DEF Remember
<1>2. repaired' \in BOOLEAN
  BY DEF Remember
<1> QED BY <1>1, <1>2

LEMMA AloneRemembered ==
  ASSUME NEW b, Remember(b), NEW t \in alone'
  PROVE  Active(task') = {t} /\ (t \in alone \/ t \notin Active(task))
<1>1. ~Accompanied /\ t \in Active(task') \ (Active(task) \ alone)
  BY DEF Remember
<1>2. \A u \in Active(task') : u = t
  BY <1>1, TwoAreAccompanied
<1> QED BY <1>1, <1>2

(***************************************************************************)
(* The actions                                                             *)
(***************************************************************************)

LEMMA TypeKept ==
  ASSUME Inv, [Next]_vars
  PROVE  TypeOK' /\ RowsAreTable'
<1> USE LocalHostsBounds DEF Inv
<1>0. /\ repaired \in BOOLEAN /\ FALSE \in BOOLEAN
      /\ \A t \in Tasks : (t \in alone) \in BOOLEAN
      /\ (repaired /\ Active(task) = {}) \in BOOLEAN
  BY DEF TypeOK
\* A request begins, or goes on, with rows that name each host once.
<1>1. ASSUME NEW t \in Tasks, NEW pc \in {"idle", "select", "write"},
             NEW rows \in SUBSET HostRecord, OneEach(rows), Goto(t, pc, rows)
      PROVE  task' \in [Tasks -> Task] /\ RowsAreTable'
  <2>1. [pc |-> pc, rows |-> rows] \in Task
    BY DEF Task
  <2>2. task' = [task EXCEPT ![t] = [pc |-> pc, rows |-> rows]]
    BY <1>1 DEF Goto
  <2>3. task' \in [Tasks -> Task]
    BY <2>1, <2>2 DEF TypeOK
  <2>4. \A u \in Tasks : task'[u].rows = IF u = t THEN rows ELSE task[u].rows
    BY <2>2 DEF TypeOK
  <2> QED BY <1>1, <2>3, <2>4 DEF RowsAreTable
<1>2. {} \in SUBSET HostRecord /\ OneEach({})
  BY DEF OneEach
<1>3. ASSUME NEW t \in Tasks, NEW name \in Names, NEW ip \in Ips, Add(t, name, ip)
      PROVE  TypeOK' /\ RowsAreTable'
  <2> DEFINE r == [id |-> lastId + 1, name |-> name, ip |-> ip]
  <2>1. records' = records \cup {r} /\ lastId' = lastId + 1 /\ lastId' \in 0..MaxIds
        /\ ops' \in 0..MaxOps /\ UNCHANGED <<hosts, loaded, hup>>
    BY <1>3 DEF Add, Begin, TypeOK
  <2>2. r \in Record /\ r.name = name
    BY <2>1 DEF Record, TypeOK
  <2>3. \A q \in records : q.name # name
    BY <1>3 DEF Add
  <2> HIDE DEF r
  <2>4. records' \in SUBSET Record /\ OneEach(records')
    BY <2>1, <2>2, <2>3 DEF OneEach, TypeOK
  <2>5. task' \in [Tasks -> Task] /\ RowsAreTable'
    BY <1>1, <1>2, <1>3 DEF Add
  <2>6. alone' \in SUBSET Tasks /\ repaired' \in BOOLEAN
    BY <1>0, <1>3, RememberTyped DEF Add
  <2> QED BY <2>1, <2>4, <2>5, <2>6 DEF TypeOK
<1>4. ASSUME NEW t \in Tasks, NEW id \in 1..lastId, Delete(t, id)
      PROVE  TypeOK' /\ RowsAreTable'
  <2>1. records' \in SUBSET Record /\ OneEach(records')
        /\ ops' \in 0..MaxOps /\ UNCHANGED <<lastId, hosts, loaded, hup>>
    BY <1>4 DEF Delete, Begin, TypeOK, OneEach
  <2>2. task' \in [Tasks -> Task] /\ RowsAreTable'
    BY <1>1, <1>2, <1>4 DEF Delete
  <2>3. alone' \in SUBSET Tasks /\ repaired' \in BOOLEAN
    BY <1>0, <1>4, RememberTyped DEF Delete
  <2> QED BY <2>1, <2>2, <2>3 DEF TypeOK
<1>5. ASSUME NEW t \in Tasks, Select(t)
      PROVE  TypeOK' /\ RowsAreTable'
  <2>1. task' \in [Tasks -> Task] /\ RowsAreTable'
    BY <1>1, <1>5, RecordsAreOneEach DEF Select
  <2>2. alone' \in SUBSET Tasks /\ repaired' \in BOOLEAN
    BY <1>0, <1>5, RememberTyped DEF Select
  <2> QED BY <1>5, <2>1, <2>2 DEF Select, TypeOK
<1>6. ASSUME NEW t \in Tasks, Write(t) \/ WriteUnsignalled(t)
      PROVE  TypeOK' /\ RowsAreTable'
  <2>1. task[t].rows \in SUBSET HostRecord /\ OneEach(task[t].rows)
    BY DEF TypeOK, Task, RowsAreTable
  <2>2. /\ hosts' = task[t].rows /\ hup' \in BOOLEAN /\ Goto(t, "idle", {})
        /\ UNCHANGED <<records, lastId, loaded, ops>>
    BY <1>6 DEF Write, WriteUnsignalled, TypeOK
  <2>3. task' \in [Tasks -> Task] /\ RowsAreTable'
    BY <1>1, <1>2, <2>2
  <2>4. alone' \in SUBSET Tasks /\ repaired' \in BOOLEAN
    BY <1>0, <1>6, RememberTyped DEF Write, WriteUnsignalled
  <2> QED BY <2>1, <2>2, <2>3, <2>4 DEF TypeOK
<1>10. ASSUME NEW t \in Tasks, WriteFail(t)
       PROVE  TypeOK' /\ RowsAreTable'
  <2>1. hosts' \in SUBSET HostRecord /\ OneEach(hosts')
    BY <1>10 DEF WriteFail, CutShort, TypeOK, Task, RowsAreTable, OneEach
  <2>2. Goto(t, "idle", {}) /\ UNCHANGED <<records, lastId, loaded, hup, ops>>
    BY <1>10 DEF WriteFail
  <2>3. task' \in [Tasks -> Task] /\ RowsAreTable'
    BY <1>1, <1>2, <2>2
  <2>4. alone' \in SUBSET Tasks /\ repaired' \in BOOLEAN
    BY <1>0, <1>10, RememberTyped DEF WriteFail
  <2> QED BY <2>1, <2>2, <2>3, <2>4 DEF TypeOK
<1>7. CASE DnsmasqReread
  <2>1. alone' \in SUBSET Tasks /\ repaired' \in BOOLEAN
    BY <1>0, <1>7, RememberTyped DEF DnsmasqReread
  <2> QED BY <1>7, <2>1 DEF DnsmasqReread, TypeOK, RowsAreTable
<1>8. CASE Crash
  <2>1. alone' \in SUBSET Tasks /\ repaired' \in BOOLEAN
    BY <1>0, <1>8, RememberTyped DEF Crash
  <2>2. task' \in [Tasks -> Task] /\ RowsAreTable'
    BY <1>2, <1>8 DEF Crash, IdleTask, Task, RowsAreTable
  <2>3. ops' \in 0..MaxOps /\ UNCHANGED <<records, lastId, loaded, hup>>
    BY <1>8 DEF Crash, TypeOK
  <2>4. hosts' \in SUBSET HostRecord /\ OneEach(hosts')
    BY <1>8 DEF Crash, CutShort, TypeOK, Task, RowsAreTable, OneEach
  <2> QED BY <2>1, <2>2, <2>3, <2>4 DEF TypeOK
<1>9. CASE UNCHANGED vars
  BY <1>9 DEF vars, TypeOK, RowsAreTable
<1> QED BY <1>3, <1>4, <1>5, <1>6, <1>7, <1>8, <1>9, <1>10 DEF Next

LEMMA FileKept ==
  ASSUME Inv, [Next]_vars
  PROVE  AloneIsOnly' /\ FileIsTable'
<1> USE DEF Inv
<1>0. task \in [Tasks -> Task]
  BY DEF TypeOK
<1>1. ASSUME NEW t \in Tasks, NEW pc \in {"select", "write"}, NEW rows, Goto(t, pc, rows)
      PROVE  /\ t \in Active(task') /\ FileIsTable'
             /\ \A u \in Tasks : u # t => task'[u] = task[u]
             /\ task'[t].pc = pc /\ task'[t].rows = rows
  <2>1. task' = [task EXCEPT ![t] = [pc |-> pc, rows |-> rows]]
    BY <1>1 DEF Goto
  <2>2. t \in Active(task')
    BY <1>0, <2>1 DEF Active
  <2> QED BY <1>0, <2>1, <2>2 DEF FileIsTable
\* A change begins: whoever was alone is accompanied.
<1>2. ASSUME NEW t \in Tasks, task[t].pc = "idle", Goto(t, "select", {}), Remember(repaired)
      PROVE  AloneIsOnly' /\ FileIsTable'
  <2>1. ASSUME NEW u \in alone'
        PROVE  Active(task') = {u} /\ task'[u].pc # "write"
    <3>1. Active(task') = {u}
      BY <1>2, AloneRemembered
    <3> QED BY <1>1, <1>2, <3>1
  <2> QED BY <1>1, <1>2, <2>1 DEF AloneIsOnly
<1>3. ASSUME NEW t \in Tasks, NEW name \in Names, NEW ip \in Ips, Add(t, name, ip)
      PROVE  AloneIsOnly' /\ FileIsTable'
  BY <1>2, <1>3 DEF Add, Begin
<1>4. ASSUME NEW t \in Tasks, NEW id \in 1..lastId, Delete(t, id)
      PROVE  AloneIsOnly' /\ FileIsTable'
  BY <1>2, <1>4 DEF Delete, Begin
\* What is read is the table.
<1>5. ASSUME NEW t \in Tasks, Select(t)
      PROVE  AloneIsOnly' /\ FileIsTable'
  <2>1. Goto(t, "write", HostRecords) /\ Remember(repaired) /\ HostRecords' = HostRecords
    BY <1>5 DEF Select, HostRecords
  <2>2. ASSUME NEW u \in alone'
        PROVE  Active(task') = {u} /\ task'[u].rows = HostRecords'
    <3>1. Active(task') = {u}
      BY <2>1, AloneRemembered
    <3>2. u = t
      BY <1>1, <2>1, <3>1
    <3> QED BY <1>1, <2>1, <3>1, <3>2
  <2> QED BY <1>1, <2>1, <2>2 DEF AloneIsOnly
\* Who was alone writes the table.
<1>6. ASSUME NEW t \in Tasks, Write(t) \/ WriteUnsignalled(t) \/ WriteFail(t)
      PROVE  AloneIsOnly' /\ FileIsTable'
  <2>1. /\ task[t].pc = "write" /\ HostRecords' = HostRecords
        /\ \E b : Remember(b)
    BY <1>6 DEF Write, WriteUnsignalled, WriteFail, HostRecords
  <2>2. task' = [task EXCEPT ![t] = [pc |-> "idle", rows |-> {}]]
    BY <1>6 DEF Write, WriteUnsignalled, WriteFail, Goto
  <2>3. Active(task') = Active(task) \ {t} /\ t \in Active(task)
    BY <1>0, <2>1, <2>2 DEF Active
  <2>4. alone' = {}
    <3> SUFFICES ASSUME NEW u \in alone' PROVE FALSE
      OBVIOUS
    <3>1. Active(task') = {u} /\ (u \in alone \/ u \notin Active(task))
      BY <2>1, AloneRemembered
    <3> QED BY <2>3, <3>1 DEF AloneIsOnly
  <2>5. repaired' => t \in alone /\ hosts' = task[t].rows
    BY <1>6 DEF Write, WriteUnsignalled, WriteFail, Remember
  <2>6. FileIsTable'
    BY <2>1, <2>5 DEF FileIsTable, AloneIsOnly
  <2> QED BY <2>4, <2>6 DEF AloneIsOnly
<1>7. CASE DnsmasqReread
  <2>1. UNCHANGED <<records, hosts, task>> /\ HostRecords' = HostRecords /\ Remember(repaired)
    BY <1>7 DEF DnsmasqReread, HostRecords
  <2>2. alone' \subseteq alone /\ (repaired' => repaired)
    BY <2>1 DEF Remember
  <2> QED BY <2>1, <2>2 DEF AloneIsOnly, FileIsTable
<1>8. CASE Crash
  <2>1. Active(task') = {} /\ UNCHANGED records /\ HostRecords' = HostRecords
    BY <1>8 DEF Crash, IdleTask, Active, HostRecords
  <2>2. alone' = {} /\ (repaired' => repaired /\ Active(task) = {})
    BY <1>8, <2>1 DEF Crash, Remember
  <2>3. Active(task) = {} => UNCHANGED hosts
    BY <1>8 DEF Crash, CutShort, Active
  <2> QED BY <2>1, <2>2, <2>3 DEF AloneIsOnly, FileIsTable
<1>9. CASE UNCHANGED vars
  BY <1>9 DEF vars, AloneIsOnly, FileIsTable, HostRecords
<1> QED BY <1>3, <1>4, <1>5, <1>6, <1>7, <1>8, <1>9 DEF Next

LEMMA Invariance == Spec => []Inv
<1>1. Init => Inv
  <2> SUFFICES ASSUME Init PROVE Inv
    OBVIOUS
  <2>1. IdleTask \in Task /\ IdleTask.rows = {}
    BY DEF IdleTask, Task
  <2>2. TypeOK
    <3>1. 0 \in 0..MaxIds /\ 0 \in 0..MaxOps
      BY LocalHostsBounds
    <3>2. OneEach({})
      BY DEF OneEach
    <3>3. task \in [Tasks -> Task]
      BY <2>1 DEF Init
    <3> QED BY <3>1, <3>2, <3>3 DEF Init, TypeOK
  <2>3. RowsAreTable
    BY <2>1 DEF Init, RowsAreTable, OneEach
  <2>4. AloneIsOnly /\ FileIsTable
    BY DEF Init, AloneIsOnly, FileIsTable, HostRecords
  <2> QED BY <2>2, <2>3, <2>4 DEF Inv
<1>2. Inv /\ [Next]_vars => Inv'
  BY TypeKept, FileKept DEF Inv
<1> QED BY <1>1, <1>2, PTL DEF Spec

(***************************************************************************)
(* The theorems                                                            *)
(***************************************************************************)

\* The table and the file keep their types, and each names a host once.
THEOREM TypeCorrect == Spec => []TypeOK
<1>1. Inv => TypeOK
  BY DEF Inv
<1> QED BY <1>1, Invariance, PTL

\* The file is the table after a request that had the server to itself, whatever
\* overlapped or crashed before.
THEOREM FilesAreTables == Spec => []FileIsTable
<1>1. Inv => FileIsTable
  BY DEF Inv
<1> QED BY <1>1, Invariance, PTL
===============================================================================
