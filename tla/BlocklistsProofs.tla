--------------------------- MODULE BlocklistsProofs ---------------------------
(***************************************************************************)
(* Theorems about Blocklists, for every number of lists, domains and       *)
(* tasks, and every bound on the operations: the type invariant; the       *)
(* safety properties of any number of activities, the parts of whose       *)
(* inductive invariant are preserved one by one, each from those before    *)
(* it; and what holds of one activity at a time, that it implements        *)
(* Publication first of all.                                               *)
(***************************************************************************)
EXTENDS Blocklists, FiniteSetTheorems, TLAPS

-------------------------------------------------------------------------------
(* The type invariant                                                      *)

\* The steps that use the list of the task have one.
ListKnown ==
  \A t \in Tasks :
    task[t].pc \in {"head", "save", "saving", "count", "unlink", "read"} =>
      task[t].list \in Lists

LEMMA IdleTaskType == IdleTask \in Task
  BY DEF IdleTask, Task, Jobs, Steps

LEMMA NewTaskType ==
  ASSUME NEW job \in Jobs, NEW pc \in Steps
  PROVE  NewTask(job, pc) \in Task
  BY DEF NewTask, IdleTask, Task

LEMMA NewRowType ==
  ASSUME NEW type \in {"url", "file"}, NEW url \in BOOLEAN, NEW count \in Nat
  PROVE  NewRow(type, url, count) \in Row
  BY DEF NewRow, Row

LEMMA StaleType ==
  ASSUME NEW tasks \in [Tasks -> Task]
  PROVE  Stale(tasks) \in [Tasks -> Task]
  BY DEF Stale, Task

\* Sets of domains are finite, and what domain_count counts is a number.
LEMMA CountType ==
  ASSUME NEW S \in SUBSET Domains
  PROVE  Cardinality(S) \in Nat
  BY DomainsFinite, FS_Subset, FS_CardinalityType

LEMMA InitType == Init => TypeOK
  <1> SUFFICES ASSUME Init PROVE TypeOK
    OBVIOUS
  <1>1. rows \in [Lists -> Row]
    BY DEF Init, NewRow, Row
  <1>2. file \in [Lists -> File]
    BY DEF Init, File, NoFile
  <1>3. task \in [Tasks -> Task]
    BY IdleTaskType DEF Init
  <1>4. output \in Output /\ dns \in Output
    BY DEF Init, Output, Whole
  <1>5. ops \in 0..MaxOps
    BY OpsAssumption DEF Init
  <1> QED
    BY <1>1, <1>2, <1>3, <1>4, <1>5 DEF Init, TypeOK

LEMMA UpdateType ==
  ASSUME rows \in [Lists -> Row], NEW l \in Lists, NEW row \in Row
  PROVE  Update(l, row) \in [Lists -> Row]
  BY DEF Update

LEMMA OperationType ==
  ASSUME TypeOK, NEW t \in Tasks, Operation(t)
  PROVE  TypeOK'
  <1> USE DEF TypeOK
  <1>1. ops' \in 0..MaxOps
    <2>1. PICK op \in AllOps : Start(op, t)
      BY DEF Operation, Add, Upload, Preset, Toggle, Edit, Delete, Sync,
         Nightly, AddRule, DeleteRule, AllOps
    <2> QED
      BY <2>1, OpsAssumption DEF Start
  <1>2. CASE Add(t)
    <2>1. PICK l \in Lists, withUrl \in BOOLEAN :
            /\ rows' = [rows EXCEPT ![l] = NewRow("url", withUrl, 0)]
            /\ task' = IF withUrl
                       THEN [task EXCEPT ![t] = [NewTask("bg", "head") EXCEPT
                                                !.list = l, !.todo = {l}]]
                       ELSE task
      BY <1>2 DEF Add
    <2>2. rows' \in [Lists -> Row]
      BY <2>1, NewRowType
    <2>3. NewTask("bg", "head") \in Task
      BY NewTaskType DEF Jobs, Steps
    <2>4. [NewTask("bg", "head") EXCEPT !.list = l, !.todo = {l}] \in Task
      BY <2>3 DEF Task
    <2>5. task' \in [Tasks -> Task]
      BY <2>1, <2>4
    <2> QED
      BY <1>1, <1>2, <2>2, <2>5 DEF Add
  <1>3. CASE Upload(t)
    <2>1. PICK l \in Lists :
            /\ rows' = [rows EXCEPT ![l] = NewRow("file", FALSE, 0)]
            /\ task' = [task EXCEPT ![t] = [NewTask("bg", "refresh") EXCEPT
                                              !.list = l, !.todo = {l}]]
      BY <1>3 DEF Upload
    <2>2. rows' \in [Lists -> Row]
      BY <2>1, NewRowType
    <2>3. NewTask("bg", "refresh") \in Task
      BY NewTaskType DEF Jobs, Steps
    <2>4. [NewTask("bg", "refresh") EXCEPT !.list = l, !.todo = {l}] \in Task
      BY <2>3 DEF Task
    <2> QED
      BY <1>1, <1>3, <2>1, <2>2, <2>4 DEF Upload
  <1>4. CASE Preset(t)
    <2>1. PICK l \in Lists, feed \in Feeds \cup {{}} :
            /\ rows' = [rows EXCEPT ![l] = NewRow("url", TRUE, Cardinality(feed))]
            /\ task' = [task EXCEPT ![t] =
                     [NewTask("preset", IF feed = {} THEN "queued" ELSE "save")
                        EXCEPT !.list = l, !.acc = feed]]
      BY <1>4 DEF Preset
    <2>2. feed \in SUBSET Domains
      BY FeedsAssumption
    <2>3. rows' \in [Lists -> Row]
      BY <2>1, <2>2, NewRowType, CountType
    <2>4. NewTask("preset", IF feed = {} THEN "queued" ELSE "save") \in Task
      BY NewTaskType DEF Jobs, Steps
    <2>5. [NewTask("preset", IF feed = {} THEN "queued" ELSE "save")
             EXCEPT !.list = l, !.acc = feed] \in Task
      BY <2>2, <2>4 DEF Task
    <2> QED
      BY <1>1, <1>4, <2>1, <2>3, <2>5 DEF Preset
  <1>5. CASE Toggle(t)
    <2>1. rows' \in [Lists -> Row]
      <3>1. PICK l \in Lists, enabled \in BOOLEAN :
              rows' = Update(l, [rows[l] EXCEPT !.enabled = enabled])
        BY <1>5 DEF Toggle
      <3>2. [rows[l] EXCEPT !.enabled = enabled] \in Row
        BY DEF Row
      <3> QED
        BY <3>1, <3>2, UpdateType
    <2>2. NewTask("toggle", "queued") \in Task
      BY NewTaskType DEF Jobs, Steps
    <2> QED
      BY <1>1, <1>5, <2>1, <2>2, StaleType DEF Toggle
  <1>6. CASE Edit(t)
    <2>1. rows' \in [Lists -> Row]
      <3>1. PICK l \in Lists : rows' = Update(l, [rows[l] EXCEPT !.url = TRUE])
        BY <1>6 DEF Edit
      <3>2. [rows[l] EXCEPT !.url = TRUE] \in Row
        BY DEF Row
      <3> QED
        BY <3>1, <3>2, UpdateType
    <2> QED
      BY <1>1, <1>6, <2>1 DEF Edit
  <1>7. CASE Delete(t)
    <2>1. PICK l \in Lists :
            /\ rows' = Update(l, [rows[l] EXCEPT !.state = "deleted"])
            /\ task' = [Stale(task) EXCEPT
                         ![t] = [NewTask("delete", "unlink") EXCEPT !.list = l]]
      BY <1>7 DEF Delete
    <2>2. rows' \in [Lists -> Row]
      <3>1. [rows[l] EXCEPT !.state = "deleted"] \in Row
        BY DEF Row
      <3> QED
        BY <2>1, <3>1, UpdateType
    <2>3. NewTask("delete", "unlink") \in Task
      BY NewTaskType DEF Jobs, Steps
    <2>4. [NewTask("delete", "unlink") EXCEPT !.list = l] \in Task
      BY <2>3 DEF Task
    <2> QED
      BY <1>1, <1>7, <2>1, <2>2, <2>4, StaleType DEF Delete
  <1>8. CASE Sync(t)
    <2>1. NewTask("sync", "select") \in Task
      BY NewTaskType DEF Jobs, Steps
    <2> QED
      BY <1>1, <1>8, <2>1 DEF Sync
  <1>9. CASE Nightly(t)
    <2>1. NewTask("nightly", "select") \in Task
      BY NewTaskType DEF Jobs, Steps
    <2> QED
      BY <1>1, <1>9, <2>1 DEF Nightly
  <1>10. CASE AddRule(t) \/ DeleteRule(t)
    <2>1. NewTask("rule", "queued") \in Task
      BY NewTaskType DEF Jobs, Steps
    <2>2. task' \in [Tasks -> Task]
      BY <1>10, <2>1, StaleType DEF AddRule, DeleteRule
    <2>3. rules' \in [Domains -> {"none", "allow", "deny"}]
      BY <1>10 DEF AddRule, DeleteRule
    <2> QED
      BY <1>1, <1>10, <2>2, <2>3 DEF AddRule, DeleteRule
  <1> QED
    BY <1>2, <1>3, <1>4, <1>5, <1>6, <1>7, <1>8, <1>9, <1>10 DEF Operation

\* The steps that change the task alone.
LEMMA TaskOnlyType ==
  ASSUME TypeOK, NEW t \in Tasks,
         HeadOk(t) \/ Select(t) \/ FetchFail(t) \/ Refreshed(t) \/ CountFail(t)
  PROVE  TypeOK'
  <1> USE DEF TypeOK
  <1>1. task' \in [Tasks -> Task]
    <2>1. \A pc \in Steps : [task[t] EXCEPT !.pc = pc] \in Task
      BY DEF Task
    <2>2. CASE HeadOk(t) \/ Refreshed(t)
      <3>1. \A pc \in {"refresh", "queued"} : [task[t] EXCEPT !.pc = pc] \in Task
        BY <2>1 DEF Steps
      <3> QED
        BY <2>2, <3>1 DEF HeadOk, Refreshed, Goto
    <2>3. CASE Select(t)
      <3> DEFINE todo == {l \in Present : rows[l].type = "url" /\ rows[l].url}
      <3>1. todo \in SUBSET Lists
        BY DEF Present
      <3>2. [task[t] EXCEPT !.pc = "refresh", !.todo = todo] \in Task
        BY <3>1 DEF Task, Steps
      <3> QED
        BY <2>3, <3>2 DEF Select
    <2>4. CASE FetchFail(t)
      <3>1. PICK l \in task[t].todo :
              task' = IF task[t].job = "bg" THEN [task EXCEPT ![t] = IdleTask]
                      ELSE [task EXCEPT ![t] = [@ EXCEPT !.todo = task[t].todo \ {l}]]
        BY <2>4 DEF FetchFail
      <3>2. [task[t] EXCEPT !.todo = task[t].todo \ {l}] \in Task
        BY DEF Task
      <3> QED
        BY <3>1, <3>2, IdleTaskType
    <2>5. CASE CountFail(t)
      <3>1. [task[t] EXCEPT !.pc = "refresh"] \in Task
        BY <2>1 DEF Steps
      <3>2. CASE task[t].job = "bg"
        BY <2>5, <3>2, IdleTaskType DEF CountFail
      <3>3. CASE task[t].job # "bg"
        BY <2>5, <3>1, <3>3 DEF CountFail, Goto
      <3> QED
        BY <3>2, <3>3
    <2> QED
      BY <2>2, <2>3, <2>4, <2>5
  <1> QED
    BY <1>1 DEF HeadOk, Select, FetchFail, Refreshed, CountFail

LEMMA SaveType ==
  ASSUME TypeOK, NEW t \in Tasks,
         HeadFail(t) \/ Fetch(t) \/ SavePreset(t) \/ CloseList(t)
           \/ SaveFail(t) \/ Count(t) \/ Unlink(t)
  PROVE  TypeOK'
  <1> USE DEF TypeOK
  <1>1. task[t] \in Task /\ Stale(task)[t] \in Task
    BY StaleType
  <1>2. CASE HeadFail(t)
    <2>1. task' \in [Tasks -> Task]
      BY <1>2, IdleTaskType, StaleType DEF HeadFail
    <2>2. rows' \in [Lists -> Row]
      <3> DEFINE l == task[t].list
      <3>1. CASE l \in Lists
        <4>1. [rows[l] EXCEPT !.state = "deleted"] \in Row
          BY <3>1 DEF Row
        <4> QED
          BY <1>2, <3>1, <4>1, UpdateType DEF HeadFail
      <3>2. CASE l \notin Lists
        BY <1>2, <3>2 DEF HeadFail, Update
      <3> QED
        BY <3>1, <3>2
    <2>3. applied' \in BOOLEAN
      BY <1>2 DEF HeadFail
    <2> QED
      BY <1>2, <2>1, <2>2, <2>3 DEF HeadFail
  <1>3. CASE Fetch(t)
    <2>1. PICK l \in task[t].todo, feed \in Feeds :
            /\ OpenList(t, l)
            /\ task' = [Stale(task) EXCEPT ![t] =
                     [@ EXCEPT !.pc = "saving", !.list = l, !.todo = task[t].todo \ {l},
                               !.acc = feed]]
      BY <1>3 DEF Fetch
    <2>2. l \in Lists /\ feed \in SUBSET Domains
      BY <1>1, FeedsAssumption DEF Task
    <2>3. [Stale(task)[t] EXCEPT !.pc = "saving", !.list = l, !.todo = task[t].todo \ {l},
                               !.acc = feed] \in Task
      BY <1>1, <2>2 DEF Task, Steps
    <2>4. task' \in [Tasks -> Task]
      BY <2>1, <2>3, StaleType
    <2>5. file' \in [Lists -> File]
      BY <2>1, <2>2 DEF OpenList, File
    <2> QED
      BY <1>3, <2>1, <2>4, <2>5 DEF Fetch, OpenList, Hold
  <1>4. CASE SavePreset(t)
    <2>1. [Stale(task)[t] EXCEPT !.pc = "saving"] \in Task
      BY <1>1 DEF Task, Steps
    <2>2. task' \in [Tasks -> Task]
      BY <1>4, <2>1, StaleType DEF SavePreset
    <2>3. file' \in [Lists -> File]
      BY <1>4 DEF SavePreset, OpenList, File
    <2> QED
      BY <1>4, <2>2, <2>3 DEF SavePreset, OpenList, Hold
  <1>5. CASE CloseList(t)
    <2>1. \A pc \in Steps :
            [Stale(task)[t] EXCEPT !.pc = pc, !.clash = FALSE] \in Task
      BY <1>1 DEF Task
    <2>2. task' \in [Tasks -> Task]
      <3> DEFINE pc == IF task[t].job = "preset" THEN "queued" ELSE "count"
      <3>1. pc \in Steps
        BY DEF Steps
      <3>2. task' = [Stale(task) EXCEPT ![t] =
                       [Stale(task)[t] EXCEPT !.pc = pc, !.clash = FALSE]]
        BY <1>5 DEF CloseList
      <3> HIDE DEF pc
      <3> QED
        BY <2>1, <3>1, <3>2, StaleType
    <2>3. file' \in [Lists -> File]
      <3>1. task[t].acc \in SUBSET Domains
        BY <1>1 DEF Task
      <3>2. CASE task[t].clash
        BY <1>5, <3>2 DEF CloseList
      <3>3. CASE ~task[t].clash
        <4>1. PICK rest \in SUBSET file[task[t].list].domains :
                file' = [file EXCEPT ![task[t].list].domains =
                                        task[t].acc \cup rest]
          BY <1>5, <3>3 DEF CloseList
        <4>2. CASE task[t].list \in Lists
          BY <3>1, <4>1, <4>2 DEF File
        <4>3. CASE task[t].list \notin Lists
          BY <4>1, <4>3
        <4> QED
          BY <4>2, <4>3
      <3> QED
        BY <3>2, <3>3
    <2> QED
      BY <1>5, <2>2, <2>3 DEF CloseList
  <1>6. CASE Count(t)
    <2>1. \A pc \in Steps : [task[t] EXCEPT !.pc = pc] \in Task
      BY <1>1 DEF Task
    <2>2. task' \in [Tasks -> Task]
      BY <1>6, <2>1 DEF Count, Goto, Steps
    <2>3. rows' \in [Lists -> Row]
      <3> DEFINE l == task[t].list
      <3>1. Cardinality(task[t].acc) \in Nat
        BY <1>1, CountType DEF Task
      <3>2. CASE l \in Lists
        <4>1. [rows[l] EXCEPT !.count = Cardinality(task[t].acc)] \in Row
          BY <3>1, <3>2 DEF Row
        <4> QED
          BY <1>6, <3>2, <4>1, UpdateType DEF Count
      <3>3. CASE l \notin Lists
        BY <1>6, <3>3 DEF Count, Update
      <3> QED
        BY <3>2, <3>3
    <2> QED
      BY <1>6, <2>2, <2>3 DEF Count
  <1>7. CASE Unlink(t)
    <2>1. /\ \A u \in Tasks : [task[u] EXCEPT !.pc = "queued"] \in Task
          /\ \A u \in Tasks : [task[u] EXCEPT !.clash = TRUE] \in Task
      BY DEF Task, Steps
    <2>2. task' \in [Tasks -> Task]
      BY <1>7, <2>1 DEF Unlink
    <2>3. file' \in [Lists -> File]
      BY <1>7 DEF Unlink, File, NoFile
    <2> QED
      BY <1>7, <2>2, <2>3 DEF Unlink
  <1>8. CASE SaveFail(t)
    <2>1. [Stale(task)[t] EXCEPT !.pc = "refresh", !.clash = FALSE] \in Task
      BY <1>1 DEF Task, Steps
    <2>2. task' \in [Tasks -> Task]
      <3>1. task' \in {[Stale(task) EXCEPT ![t] = IdleTask],
                      [Stale(task) EXCEPT ![t] =
                       [Stale(task)[t] EXCEPT !.pc = "refresh", !.clash = FALSE]]}
        BY <1>8, StaleType DEF SaveFail
      <3> QED
        BY <2>1, <3>1, StaleType, IdleTaskType
    <2>3. file' \in [Lists -> File]
      <3>1. task[t].acc \in SUBSET Domains
        BY <1>1 DEF Task
      <3>2. CASE task[t].clash
        BY <1>8, <3>2 DEF SaveFail
      <3>3. CASE ~task[t].clash
        <4>1. PICK part \in SUBSET (file[task[t].list].domains \cup task[t].acc) :
                file' = [file EXCEPT ![task[t].list].domains = part]
          BY <1>8, <3>3 DEF SaveFail
        <4>2. CASE task[t].list \in Lists
          BY <3>1, <4>1, <4>2 DEF File
        <4>3. CASE task[t].list \notin Lists
          BY <4>1, <4>3
        <4> QED
          BY <4>2, <4>3
      <3> QED
        BY <3>2, <3>3
    <2> QED
      BY <1>8, <2>2, <2>3 DEF SaveFail
  <1> QED
    BY <1>2, <1>3, <1>4, <1>5, <1>6, <1>7, <1>8

LEMMA ApplyType ==
  ASSUME TypeOK, ListKnown, NEW t \in Tasks,
         \/ ReadLists(t) \/ ReadDeny(t) \/ ReadAllow(t) \/ BeginMerge(t)
         \/ LoadCheck(t) \/ LoadRead(t) \/ LoadVanished(t) \/ OpenOutput(t)
         \/ CloseOutput(t) \/ WriteFail(t) \/ Reload(t)
  PROVE  TypeOK'
  <1> USE DEF TypeOK
  <1>1. task[t] \in Task
    OBVIOUS
  <1>2. CASE ReadLists(t)
    <2>1. [task[t] EXCEPT !.pc = "deny", !.ids = Enabled, !.fresh = TRUE] \in Task
      BY <1>1 DEF Task, Steps, Begun, Enabled, Present
    <2> QED
      BY <1>2, <2>1 DEF ReadLists
  <1>3. CASE ReadDeny(t)
    <2>1. [task[t] EXCEPT !.pc = "allow", !.deny = Ruled("deny")] \in Task
      BY <1>1 DEF Task, Steps, Begun, Ruled
    <2> QED
      BY <1>3, <2>1 DEF ReadDeny
  <1>4. CASE ReadAllow(t)
    <2>1. [task[t] EXCEPT !.pc = "ready", !.allow = Ruled("allow")] \in Task
      BY <1>1 DEF Task, Steps, Begun, Ruled
    <2> QED
      BY <1>4, <2>1 DEF ReadAllow
  <1>5. CASE BeginMerge(t)
    <2>1. [task[t] EXCEPT !.pc = "load", !.todo = task[t].ids, !.acc = {}] \in Task
      BY <1>1 DEF Task, Steps, Begun
    <2> QED
      BY <1>5, <2>1 DEF BeginMerge, Hold
  <1>6. CASE LoadCheck(t)
    <2>1. PICK l \in task[t].todo :
            task' = [task EXCEPT ![t] = [@ EXCEPT
                  !.pc = IF file[l].exists THEN "read" ELSE "load",
                  !.todo = task[t].todo \ {l}, !.list = l]]
      BY <1>6 DEF LoadCheck
    <2>2. \A pc \in Steps :
            [task[t] EXCEPT !.pc = pc, !.todo = task[t].todo \ {l}, !.list = l] \in Task
      BY <1>1 DEF Task
    <2>3. [task[t] EXCEPT !.pc = IF file[l].exists THEN "read" ELSE "load",
                          !.todo = task[t].todo \ {l}, !.list = l] \in Task
      BY <2>2 DEF Steps, Begun
    <2> QED
      BY <1>6, <2>1, <2>3 DEF LoadCheck
  <1>7. CASE LoadRead(t)
    <2>1. task[t].list \in Lists
      BY <1>7 DEF LoadRead, Step, At, ListKnown
    <2>2. [task[t] EXCEPT !.pc = "load",
               !.acc = task[t].acc \cup file[task[t].list].domains] \in Task
      BY <1>1, <2>1 DEF Task, Steps, Begun, File
    <2> QED
      BY <1>7, <2>2 DEF LoadRead
  <1>8. CASE LoadVanished(t) \/ WriteFail(t)
    BY <1>8, IdleTaskType DEF LoadVanished, WriteFail, Abort, Finish
  <1>9. CASE OpenOutput(t)
    <2> DEFINE others == {u \in Tasks : At(u, "write")}
               k(u) == IF u = t
                       THEN [task[u] EXCEPT !.pc = "write", !.clash = others # {}]
                       ELSE IF u \in others THEN [task[u] EXCEPT !.clash = TRUE]
                       ELSE task[u]
    <2>1. task' = [u \in Tasks |-> k(u)]
      BY <1>9 DEF OpenOutput
    <2>2. ASSUME NEW u \in Tasks PROVE k(u) \in Task
      <3>1. task[u] \in Task
        OBVIOUS
      <3>2. (others # {}) \in BOOLEAN
        OBVIOUS
      <3> HIDE DEF others
      <3>3. [task[u] EXCEPT !.pc = "write", !.clash = others # {}] \in Task
        BY <3>1, <3>2 DEF Task, Steps, Begun
      <3>4. [task[u] EXCEPT !.clash = TRUE] \in Task
        BY <3>1 DEF Task
      <3> QED
        BY <3>1, <3>3, <3>4
    <2> HIDE DEF k
    <2>3. task' \in [Tasks -> Task]
      BY <2>1, <2>2
    <2>4. output' \in Output
      BY <1>9 DEF OpenOutput, Output, NotWhole
    <2> QED
      BY <1>9, <2>3, <2>4 DEF OpenOutput
  <1>10. CASE CloseOutput(t)
    <2>1. [task[t] EXCEPT !.pc = "reload", !.clash = FALSE] \in Task
      BY <1>1 DEF Task, Steps
    <2>2. output' \in Output
      <3>1. Merged(t) \in SUBSET Domains
        BY <1>1 DEF Merged, Merge, Task
      <3>2. output' \in {Whole(Merged(t)), NotWhole}
        BY <1>10 DEF CloseOutput
      <3>3. Whole(Merged(t)) \in Output /\ NotWhole \in Output
        BY <3>1 DEF Output, Whole, NotWhole
      <3> QED
        BY <3>2, <3>3
    <2>3. applied' \in BOOLEAN
      BY <1>1, <1>10 DEF CloseOutput, Task
    <2> QED
      BY <1>10, <2>1, <2>2, <2>3 DEF CloseOutput
  <1>11. CASE Reload(t)
    BY <1>11, IdleTaskType DEF Reload, Finish
  <1> QED
    BY <1>2, <1>3, <1>4, <1>5, <1>6, <1>7, <1>8, <1>9, <1>10, <1>11

LEMMA StepType == TypeOK /\ ListKnown /\ [Next]_vars => TypeOK'
  <1> SUFFICES ASSUME TypeOK, ListKnown, [Next]_vars PROVE TypeOK'
    OBVIOUS
  <1>1. ASSUME NEW t \in Tasks, Operation(t) PROVE TypeOK'
    BY <1>1, OperationType
  <1>2. ASSUME NEW t \in Tasks, Run(t) PROVE TypeOK'
    BY <1>2, TaskOnlyType, SaveType, ApplyType DEF Run
  <1>3. ASSUME NEW t \in Tasks, Restart(t) PROVE TypeOK'
    <2>1. NewTask("boot", "queued") \in Task
      BY NewTaskType DEF Jobs, Steps
    <2> QED
      BY <1>3, <2>1 DEF Restart, TypeOK
  <1>4. CASE DnsmasqReread
    BY <1>4 DEF DnsmasqReread, TypeOK
  <1>5. CASE Crash
    <2>1. ops' \in 0..MaxOps
      BY <1>5, OpsAssumption DEF Crash, TypeOK
    <2>2. task' \in [Tasks -> Task]
      BY <1>5, IdleTaskType DEF Crash
    <2> QED
      BY <1>5, <2>1, <2>2 DEF Crash, TypeOK
  <1>6. CASE UNCHANGED vars
    BY <1>6 DEF vars, TypeOK
  <1> QED
    BY <1>1, <1>2, <1>3, <1>4, <1>5, <1>6 DEF Next

\* A step of one task leaves the others where they are and what they have
\* read; it may tell them that they are no longer up to date, or alone.
SameTask(t) ==
  /\ task'[t].job = task[t].job
  /\ task'[t].pc = task[t].pc
  /\ task'[t].list = task[t].list
  /\ task'[t].todo = task[t].todo
  /\ task'[t].ids = task[t].ids
  /\ task'[t].deny = task[t].deny
  /\ task'[t].allow = task[t].allow
  /\ task'[t].acc = task[t].acc
  /\ task'[t].fresh => task[t].fresh

LEMMA SameStale ==
  ASSUME task \in [Tasks -> Task], NEW u \in Tasks, task'[u] = Stale(task)[u]
  PROVE  SameTask(u)
  BY DEF Stale, SameTask, Task


LEMMA OperationFrame ==
  ASSUME TypeOK, NEW t \in Tasks, Operation(t), NEW u \in Tasks, u # t
  PROVE  SameTask(u)
  <1>1. task'[u] \in {task[u], Stale(task)[u]}
    BY DEF Operation, Add, Upload, Preset, Toggle, Edit, Delete, Sync, Nightly,
       AddRule, DeleteRule, TypeOK, Stale
  <1> QED
    BY <1>1, SameStale DEF TypeOK, SameTask

LEMMA RunFrame ==
  ASSUME TypeOK, NEW t \in Tasks, Run(t), NEW u \in Tasks, u # t
  PROVE  SameTask(u)
  <1> USE DEF TypeOK
  <1>1. task \in [Tasks -> Task] /\ task[u] \in Task
    OBVIOUS
  <1>2. CASE task'[u] \in {task[u], Stale(task)[u]}
    BY <1>2, SameStale DEF SameTask
  <1>3. CASE Unlink(t) \/ OpenOutput(t)
    <2>1. task'[u] \in {task[u], [task[u] EXCEPT !.clash = TRUE]}
      BY <1>3 DEF Unlink, OpenOutput
    <2> QED
      BY <1>1, <2>1 DEF SameTask, Task
  <1>4. CASE HeadOk(t) \/ HeadFail(t) \/ Select(t) \/ Fetch(t) \/ FetchFail(t)
               \/ Refreshed(t) \/ SavePreset(t) \/ CloseList(t) \/ SaveFail(t)
    <2>1. task'[u] \in {task[u], Stale(task)[u]}
      BY <1>1, <1>4 DEF HeadOk, HeadFail, Select, Fetch, FetchFail, Refreshed,
         SavePreset, CloseList, SaveFail, Goto, Stale
    <2> QED
      BY <1>2, <2>1
  <1>5. CASE Count(t) \/ CountFail(t) \/ ReadLists(t) \/ ReadDeny(t)
               \/ ReadAllow(t) \/ BeginMerge(t) \/ LoadCheck(t) \/ LoadRead(t)
    <2>1. task'[u] = task[u]
      BY <1>1, <1>5 DEF Count, CountFail, ReadLists, ReadDeny, ReadAllow,
         BeginMerge, LoadCheck, LoadRead, Goto
    <2> QED
      BY <1>2, <2>1
  <1>6. CASE LoadVanished(t) \/ CloseOutput(t) \/ WriteFail(t) \/ Reload(t)
    <2>1. task'[u] = task[u]
      BY <1>1, <1>6 DEF LoadVanished, CloseOutput, WriteFail, Reload, Abort,
         Finish
    <2> QED
      BY <1>2, <2>1
  <1> QED
    BY <1>3, <1>4, <1>5, <1>6 DEF Run

\* An activity has no list to use, or uses one, from its first step on.
LEMMA OwnListKnown ==
  ASSUME TypeOK, ListKnown, NEW t \in Tasks, Operation(t) \/ Run(t),
         task'[t].pc \in {"head", "save", "saving", "count", "unlink", "read"}
  PROVE  task'[t].list \in Lists
  <1>1. task \in [Tasks -> Task] /\ task[t] \in Task
        /\ Stale(task) \in [Tasks -> Task] /\ Stale(task)[t] \in Task
        /\ Stale(task)[t].list = task[t].list
    <2>1. task \in [Tasks -> Task]
      BY DEF TypeOK
    <2> QED
      BY <2>1, StaleType DEF Stale, Task
  <1>2. CASE Operation(t)
    <2>1. CASE Add(t)
      BY <1>1, <2>1 DEF Add, Start, At, NewTask, IdleTask, Task
    <2>2. CASE Upload(t)
      BY <1>1, <2>2 DEF Upload, Start, At, NewTask, IdleTask, Task
    <2>3. CASE Preset(t)
      BY <1>1, <2>3 DEF Preset, Start, At, NewTask, IdleTask, Task
    <2>4. CASE Toggle(t)
      BY <1>1, <2>4 DEF Toggle, Start, At, NewTask, IdleTask, Task
    <2>5. CASE Edit(t)
      BY <1>1, <2>5 DEF Edit, Start, At, NewTask, IdleTask, Task
    <2>6. CASE Delete(t)
      BY <1>1, <2>6 DEF Delete, Start, At, NewTask, IdleTask, Task
    <2>7. CASE Sync(t)
      BY <1>1, <2>7 DEF Sync, Start, At, NewTask, IdleTask, Task
    <2>8. CASE Nightly(t)
      BY <1>1, <2>8 DEF Nightly, Start, At, NewTask, IdleTask, Task
    <2>9. CASE AddRule(t)
      BY <1>1, <2>9 DEF AddRule, Start, At, NewTask, IdleTask, Task
    <2>10. CASE DeleteRule(t)
      BY <1>1, <2>10 DEF DeleteRule, Start, At, NewTask, IdleTask, Task
    <2> QED
      BY <1>2, <2>1, <2>2, <2>3, <2>4, <2>5, <2>6, <2>7, <2>8, <2>9, <2>10
      DEF Operation
  <1>3. CASE Run(t)
    <2>1. CASE HeadOk(t)
      BY <1>1, <2>1 DEF HeadOk, Goto, Task
    <2>2. CASE HeadFail(t)
      BY <1>1, <2>2 DEF HeadFail, IdleTask
    <2>3. CASE Select(t)
      BY <1>1, <2>3 DEF Select, Task
    <2>4. CASE Fetch(t)
      BY <1>1, <2>4 DEF Fetch, Task
    <2>5. CASE FetchFail(t)
      BY <1>1, <2>5 DEF FetchFail, Step, At, IdleTask, Task
    <2>6. CASE Refreshed(t)
      BY <1>1, <2>6 DEF Refreshed, Goto, Task
    <2>7. CASE SavePreset(t)
      BY <1>1, <2>7 DEF SavePreset, Step, At, ListKnown, Task
    <2>8. CASE CloseList(t)
      BY <1>1, <2>8 DEF CloseList, Step, At, ListKnown, Task
    <2>9. CASE Count(t)
      BY <1>1, <2>9 DEF Count, Goto, Task
    <2>10. CASE CountFail(t)
      BY <1>1, <2>10 DEF CountFail, Goto, IdleTask, Task
    <2>11. CASE Unlink(t)
      BY <1>1, <2>11 DEF Unlink, Task
    <2>12. CASE ReadLists(t)
      BY <1>1, <2>12 DEF ReadLists, Task
    <2>13. CASE ReadDeny(t)
      BY <1>1, <2>13 DEF ReadDeny, Task
    <2>14. CASE ReadAllow(t)
      BY <1>1, <2>14 DEF ReadAllow, Task
    <2>15. CASE BeginMerge(t)
      BY <1>1, <2>15 DEF BeginMerge, Task
    <2>16. CASE LoadCheck(t)
      BY <1>1, <2>16 DEF LoadCheck, Task
    <2>17. CASE LoadRead(t)
      BY <1>1, <2>17 DEF LoadRead, Step, At, Task
    <2>18. CASE OpenOutput(t)
      BY <1>1, <2>18 DEF OpenOutput, Task
    <2>19. CASE CloseOutput(t)
      BY <1>1, <2>19 DEF CloseOutput, Task
    <2>20. CASE LoadVanished(t) \/ WriteFail(t) \/ Reload(t)
      <3>1. task'[t] = IdleTask
        BY <1>1, <2>20 DEF LoadVanished, WriteFail, Reload, Abort, Finish
      <3> QED
        BY <3>1 DEF IdleTask
    <2>21. CASE SaveFail(t)
      BY <1>1, <2>21 DEF SaveFail, IdleTask, Task
    <2> QED
      BY <1>3, <2>1, <2>2, <2>3, <2>4, <2>5, <2>6, <2>7, <2>8, <2>9, <2>10,
         <2>11, <2>12, <2>13, <2>14, <2>15, <2>16, <2>17, <2>18, <2>19, <2>20,
         <2>21
      DEF Run
  <1> QED
    BY <1>2, <1>3

LEMMA ListKnownStep == TypeOK /\ ListKnown /\ [Next]_vars => ListKnown'
  <1> SUFFICES ASSUME TypeOK, ListKnown, [Next]_vars PROVE ListKnown'
    OBVIOUS
  <1>1. ASSUME NEW t \in Tasks, Operation(t) \/ Run(t) PROVE ListKnown'
    BY <1>1, OperationFrame, RunFrame, OwnListKnown DEF ListKnown, SameTask
  <1>2. ASSUME NEW t \in Tasks, Restart(t) PROVE ListKnown'
    BY <1>2 DEF ListKnown, Restart, NewTask, IdleTask, TypeOK
  <1>3. CASE DnsmasqReread \/ UNCHANGED vars
    BY <1>3 DEF ListKnown, DnsmasqReread, vars
  <1>4. CASE Crash
    BY <1>4 DEF ListKnown, Crash, IdleTask
  <1> QED
    BY <1>1, <1>2, <1>3, <1>4 DEF Next

\* The state of the pipeline keeps its types: no step of any activity, in any
\* order, uses a list that it does not have.
THEOREM TypeCorrect == Spec => []TypeOK
  <1>1. Init => ListKnown
    BY DEF Init, ListKnown, IdleTask
  <1> QED
    BY <1>1, InitType, StepType, ListKnownStep, PTL DEF Spec

-------------------------------------------------------------------------------
(* The control flow of one activity                                        *)

LEMMA StaleFields ==
  ASSUME TypeOK, NEW t \in Tasks
  PROVE  /\ Stale(task)[t] \in Task
         /\ Stale(task)[t].job = task[t].job
         /\ Stale(task)[t].pc = task[t].pc
         /\ Stale(task)[t].list = task[t].list
         /\ Stale(task)[t].todo = task[t].todo
         /\ Stale(task)[t].ids = task[t].ids
         /\ Stale(task)[t].acc = task[t].acc
         /\ Stale(task)[t].clash = task[t].clash
         /\ Stale(task)[t].fresh = FALSE
  <1>1. task[t] \in Task /\ Stale(task)[t] \in Task
    BY StaleType DEF TypeOK
  <1>2. Stale(task)[t] = [task[t] EXCEPT !.fresh = FALSE]
    BY DEF Stale
  <1> QED
    BY <1>1, <1>2 DEF Task

LEMMA TaskTyped ==
  ASSUME TypeOK
  PROVE  /\ task \in [Tasks -> Task]
         /\ Stale(task) \in [Tasks -> Task]
  BY StaleType DEF TypeOK

LEMMA FetchEffect ==
  ASSUME TypeOK, NEW t \in Tasks, Fetch(t)
  PROVE  \E l \in task[t].todo, feed \in Feeds :
           /\ OpenList(t, l)
           /\ task'[t].job = task[t].job
           /\ task'[t].pc = "saving"
           /\ task'[t].list = l
           /\ task'[t].todo = task[t].todo \ {l}
           /\ task'[t].ids = task[t].ids
           /\ task'[t].clash = task[t].clash
           /\ task'[t].fresh = FALSE
  <1>1. PICK l \in task[t].todo, feed \in Feeds :
          /\ OpenList(t, l)
          /\ task'[t] = [Stale(task)[t] EXCEPT
                           !.pc = "saving", !.list = l,
                           !.todo = task[t].todo \ {l}, !.acc = feed]
    BY TaskTyped DEF Fetch
  <1> QED
    BY <1>1, StaleFields DEF Task

LEMMA CloseListEffect ==
  ASSUME TypeOK, NEW t \in Tasks, CloseList(t)
  PROVE  /\ task'[t].job = task[t].job
         /\ task'[t].pc = IF task[t].job = "preset" THEN "queued" ELSE "count"
         /\ task'[t].list = task[t].list
         /\ task'[t].todo = task[t].todo
         /\ task'[t].ids = task[t].ids
         /\ task'[t].acc = task[t].acc
         /\ task'[t].clash = FALSE
         /\ task'[t].fresh = FALSE
  <1> DEFINE pc == IF task[t].job = "preset" THEN "queued" ELSE "count"
  <1>1. task'[t] = [Stale(task)[t] EXCEPT !.pc = pc, !.clash = FALSE]
    BY TaskTyped DEF CloseList
  <1> HIDE DEF pc
  <1>2. /\ task'[t].job = task[t].job /\ task'[t].pc = pc
        /\ task'[t].list = task[t].list /\ task'[t].todo = task[t].todo
        /\ task'[t].ids = task[t].ids /\ task'[t].acc = task[t].acc
        /\ task'[t].clash = FALSE /\ task'[t].fresh = FALSE
    BY <1>1, StaleFields DEF Task
  <1> QED
    BY <1>2 DEF pc

LEMMA SaveFailEffect ==
  ASSUME TypeOK, NEW t \in Tasks, SaveFail(t)
  PROVE  \/ /\ task[t].job \in {"bg", "preset"}
            /\ task'[t] = IdleTask
            /\ task'[t].pc = "idle"
            /\ task'[t].list = NoList
            /\ task'[t].todo = {}
            /\ task'[t].ids = {}
            /\ task'[t].clash = FALSE
         \/ /\ task[t].job \notin {"bg", "preset"}
            /\ task'[t].job = task[t].job
            /\ task'[t].pc = "refresh"
            /\ task'[t].list = task[t].list
            /\ task'[t].todo = task[t].todo
            /\ task'[t].ids = task[t].ids
            /\ task'[t].acc = task[t].acc
            /\ task'[t].clash = FALSE
            /\ task'[t].fresh = FALSE
  <1>1. task'[t] =
          IF task[t].job \in {"bg", "preset"} THEN IdleTask
          ELSE [Stale(task)[t] EXCEPT !.pc = "refresh", !.clash = FALSE]
    BY TaskTyped DEF SaveFail
  <1>2. CASE task[t].job \in {"bg", "preset"}
    BY <1>1, <1>2 DEF IdleTask
  <1>3. CASE task[t].job \notin {"bg", "preset"}
    BY <1>1, <1>3, StaleFields DEF Task
  <1> QED
    BY <1>2, <1>3

LEMMA OpenOutputEffect ==
  ASSUME TypeOK, NEW t \in Tasks, OpenOutput(t)
  PROVE  /\ task'[t].job = task[t].job
         /\ task'[t].pc = "write"
         /\ task'[t].list = task[t].list
         /\ task'[t].todo = task[t].todo
         /\ task'[t].ids = task[t].ids
         /\ task'[t].deny = task[t].deny
         /\ task'[t].allow = task[t].allow
         /\ task'[t].acc = task[t].acc
         /\ task'[t].fresh = task[t].fresh
  <1> DEFINE clash == {u \in Tasks : At(u, "write")} # {}
  <1>1. task'[t] = [task[t] EXCEPT !.pc = "write", !.clash = clash]
    BY TaskTyped DEF OpenOutput
  <1> HIDE DEF clash
  <1> QED
    BY <1>1, TaskTyped DEF Task

\* What starts an activity, and at which step.
Starts == {<<"bg", "head">>, <<"bg", "refresh">>, <<"preset", "queued">>,
           <<"preset", "save">>, <<"toggle", "queued">>, <<"delete", "unlink">>,
           <<"sync", "select">>, <<"nightly", "select">>, <<"rule", "queued">>}

LEMMA OperationStarts ==
  ASSUME TypeOK, NEW t \in Tasks, Operation(t)
  PROVE  \/ task'[t] = task[t]
         \/ At(t, "idle") /\ <<task'[t].job, task'[t].pc>> \in Starts
  <1>1. CASE Add(t)
    BY TaskTyped, <1>1 DEF Add, Start, NewTask, IdleTask, Starts
  <1>2. CASE Upload(t)
    BY TaskTyped, <1>2 DEF Upload, Start, NewTask, IdleTask, Starts
  <1>3. CASE Preset(t)
    BY TaskTyped, <1>3 DEF Preset, Start, NewTask, IdleTask, Starts
  <1>4. CASE Toggle(t)
    BY TaskTyped, <1>4 DEF Toggle, Start, NewTask, IdleTask, Starts
  <1>5. CASE Edit(t)
    BY TaskTyped, <1>5 DEF Edit, Start, NewTask, IdleTask, Starts
  <1>6. CASE Delete(t)
    BY TaskTyped, <1>6 DEF Delete, Start, NewTask, IdleTask, Starts
  <1>7. CASE Sync(t)
    BY TaskTyped, <1>7 DEF Sync, Start, NewTask, IdleTask, Starts
  <1>8. CASE Nightly(t)
    BY TaskTyped, <1>8 DEF Nightly, Start, NewTask, IdleTask, Starts
  <1>9. CASE AddRule(t)
    BY TaskTyped, <1>9 DEF AddRule, Start, NewTask, IdleTask, Starts
  <1>10. CASE DeleteRule(t)
    BY TaskTyped, <1>10 DEF DeleteRule, Start, NewTask, IdleTask, Starts
  <1> QED
    BY <1>1, <1>2, <1>3, <1>4, <1>5, <1>6, <1>7, <1>8, <1>9, <1>10
    DEF Operation

\* From which step to which an activity goes, when it does not end.
Moves == {<<"head", "refresh">>, <<"select", "refresh">>,
          <<"refresh", "saving">>, <<"refresh", "refresh">>,
          <<"refresh", "queued">>, <<"save", "saving">>, <<"saving", "queued">>,
          <<"saving", "count">>, <<"saving", "refresh">>, <<"count", "queued">>,
          <<"count", "refresh">>, <<"unlink", "queued">>, <<"queued", "deny">>,
          <<"deny", "allow">>,
          <<"allow", "ready">>, <<"ready", "load">>, <<"load", "load">>,
          <<"load", "read">>, <<"read", "load">>, <<"load", "write">>,
          <<"write", "reload">>}

LEMMA RunMoves ==
  ASSUME TypeOK, NEW t \in Tasks, Run(t)
  PROVE  \/ task'[t] = IdleTask
         \/ /\ task'[t].job = task[t].job
            /\ <<task[t].pc, task'[t].pc>> \in Moves
            /\ At(t, "saving") /\ task[t].job = "preset" =>
                 task'[t].pc = "queued"
  <1>1. CASE HeadOk(t)
    BY TaskTyped, StaleFields, <1>1 DEF HeadOk, Step, At, Goto, Moves, Task
  <1>2. CASE Select(t)
    BY TaskTyped, StaleFields, <1>2 DEF Select, Step, At, Goto, Moves, Task
  <1>3. CASE Fetch(t)
    BY <1>3, FetchEffect DEF Fetch, Step, At, Moves
  <1>4. CASE FetchFail(t)
    <2>1. PICK l \in task[t].todo :
            task' = IF task[t].job = "bg" THEN [task EXCEPT ![t] = IdleTask]
                    ELSE [task EXCEPT ![t] =
                            [@ EXCEPT !.todo = task[t].todo \ {l}]]
      BY <1>4 DEF FetchFail
    <2>2. CASE task[t].job # "bg"
      <3>1. task'[t] = [task[t] EXCEPT !.todo = task[t].todo \ {l}]
        BY TaskTyped, <2>1, <2>2
      <3>2. task'[t].pc = task[t].pc /\ task'[t].job = task[t].job
        BY TaskTyped, <3>1 DEF Task
      <3> QED
        BY <1>4, <3>2 DEF FetchFail, Step, At, Moves
    <2> QED
      BY TaskTyped, <2>1, <2>2
  <1>5. CASE Refreshed(t)
    BY TaskTyped, StaleFields, <1>5 DEF Refreshed, Step, At, Goto, Moves, Task
  <1>6. CASE SavePreset(t)
    BY TaskTyped, StaleFields, <1>6 DEF SavePreset, Step, At, Goto, Moves, Task
  <1>7. CASE CloseList(t)
    <2>1. task[t].pc = "saving"
      BY <1>7 DEF CloseList, Step, At
    <2> QED
      BY <1>7, <2>1, CloseListEffect DEF Moves, At
  <1>8. CASE Count(t)
    BY TaskTyped, StaleFields, <1>8 DEF Count, Step, At, Goto, Moves, Task
  <1>9. CASE CountFail(t)
    BY TaskTyped, StaleFields, <1>9 DEF CountFail, Step, At, Goto, Moves, Task
  <1>10. CASE Unlink(t)
    BY TaskTyped, StaleFields, <1>10 DEF Unlink, Step, At, Goto, Moves, Task
  <1>11. CASE ReadLists(t)
    BY TaskTyped, StaleFields, <1>11 DEF ReadLists, Step, At, Goto, Moves, Task
  <1>12. CASE ReadDeny(t)
    BY TaskTyped, StaleFields, <1>12 DEF ReadDeny, Step, At, Goto, Moves, Task
  <1>13. CASE ReadAllow(t)
    BY TaskTyped, StaleFields, <1>13 DEF ReadAllow, Step, At, Goto, Moves, Task
  <1>14. CASE BeginMerge(t)
    BY TaskTyped, StaleFields, <1>14 DEF BeginMerge, Step, At, Goto, Moves, Task
  <1>15. CASE LoadCheck(t)
    BY TaskTyped, StaleFields, <1>15 DEF LoadCheck, Step, At, Goto, Moves, Task
  <1>16. CASE LoadRead(t)
    BY TaskTyped, StaleFields, <1>16 DEF LoadRead, Step, At, Goto, Moves, Task
  <1>17. CASE OpenOutput(t)
    BY <1>17, OpenOutputEffect DEF OpenOutput, Step, At, Moves
  <1>18. CASE CloseOutput(t)
    BY TaskTyped, StaleFields, <1>18 DEF CloseOutput, Step, At, Moves, Task
  <1>19. CASE HeadFail(t)
    BY TaskTyped, <1>19 DEF HeadFail
  <1>20. CASE LoadVanished(t) \/ WriteFail(t) \/ Reload(t)
    BY TaskTyped, <1>20
    DEF LoadVanished, WriteFail, Reload, Abort, Finish
  <1>21. CASE SaveFail(t)
    <2>1. task[t].pc = "saving"
      BY <1>21 DEF SaveFail, Step, At
    <2> QED
      BY <1>21, <2>1, SaveFailEffect DEF Moves, At
  <1> QED
    BY <1>1, <1>2, <1>3, <1>4, <1>5, <1>6, <1>7, <1>8, <1>9, <1>10, <1>11,
       <1>12, <1>13, <1>14, <1>15, <1>16, <1>17, <1>18, <1>19, <1>20, <1>21
    DEF Run

-------------------------------------------------------------------------------
(* Jobs, the event loop, and rows that are gone                            *)

LEMMA JobAtStepKept == TypeOK /\ JobAtStep /\ [Next]_vars => JobAtStep'
  <1> SUFFICES ASSUME TypeOK, JobAtStep, [Next]_vars PROVE JobAtStep'
    OBVIOUS
  <1>1. ASSUME NEW t \in Tasks, Operation(t), NEW u \in Tasks
        PROVE  \/ task'[u].job = task[u].job /\ task'[u].pc = task[u].pc
               \/ <<task'[u].job, task'[u].pc>> \in Starts
    BY <1>1, OperationStarts, OperationFrame DEF SameTask
  <1>2. ASSUME NEW t \in Tasks, Operation(t) PROVE JobAtStep'
    BY <1>1, <1>2 DEF JobAtStep, JobFits, At, Starts
  <1>3. ASSUME NEW t \in Tasks, Run(t) PROVE JobAtStep'
    <2>1. ASSUME NEW u \in Tasks
          PROVE  \/ task'[u].job = task[u].job /\ task'[u].pc = task[u].pc
                 \/ task'[u] = IdleTask
                 \/ /\ task'[u].job = task[u].job
                    /\ <<task[u].pc, task'[u].pc>> \in Moves
                    /\ At(u, "saving") /\ task[u].job = "preset" =>
                         task'[u].pc = "queued"
      BY <1>3, RunMoves, RunFrame DEF SameTask
    <2>2. ASSUME NEW u \in Tasks, task'[u] = IdleTask
          PROVE  task'[u].pc = "idle"
      BY <2>2 DEF IdleTask
    <2>3. ASSUME NEW u \in Tasks PROVE JobFits(u)'
      <3>1. CASE task'[u].job = task[u].job /\ task'[u].pc = task[u].pc
        BY <3>1 DEF JobAtStep, JobFits, At
      <3>2. CASE task'[u] = IdleTask
        BY <2>2, <3>2 DEF JobFits, At
      <3>3. CASE /\ task'[u].job = task[u].job
                 /\ <<task[u].pc, task'[u].pc>> \in Moves
                 /\ At(u, "saving") /\ task[u].job = "preset" =>
                      task'[u].pc = "queued"
        BY <3>3 DEF JobAtStep, JobFits, At, Moves
      <3> QED
        BY <2>1, <3>1, <3>2, <3>3
    <2> QED
      BY <2>3 DEF JobAtStep
  <1>4. ASSUME NEW t \in Tasks, Restart(t) PROVE JobAtStep'
    BY <1>4, TaskTyped DEF Restart, NewTask, IdleTask, JobAtStep, JobFits, At
  <1>5. CASE DnsmasqReread \/ UNCHANGED vars
    BY <1>5 DEF DnsmasqReread, vars, JobAtStep, JobFits, At
  <1>6. CASE Crash
    BY <1>6 DEF Crash, IdleTask, JobAtStep, JobFits, At
  <1> QED
    BY <1>2, <1>3, <1>4, <1>5, <1>6 DEF Next

\* The steps that keep the event loop, and give it back at their end.
Held == {"saving", "load", "read", "write", "reload"}

\* How a step of a task of the event loop takes the loop and gives it back.
LEMMA LoopMoves ==
  ASSUME TypeOK, NEW t \in Tasks, Operation(t) \/ Run(t)
  PROVE  \/ loop' = loop
         \/ loop' = t /\ OnMain(t) /\ loop \in {Free, t}
         \/ loop' = Free /\ loop = t /\ task'[t].pc \notin Held
  <1>1. CASE Operation(t)
    BY <1>1 DEF Operation, Add, Upload, Preset, Toggle, Edit, Delete, Sync,
       Nightly, AddRule, DeleteRule
  <1>2. CASE Fetch(t) \/ SavePreset(t) \/ BeginMerge(t)
    BY <1>2 DEF Fetch, SavePreset, OpenList, BeginMerge, Hold, Step
  <1>3. CASE CloseList(t)
    <2>1. task'[t].pc \notin Held
      BY <1>3, CloseListEffect DEF Held
    <2> QED
      BY <1>3, <2>1 DEF CloseList
  <1>7. CASE SaveFail(t)
    <2>1. task'[t].pc \notin Held
      BY <1>7, SaveFailEffect DEF Held
    <2> QED
      BY <1>7, <2>1 DEF SaveFail
  <1>4. CASE LoadVanished(t) \/ WriteFail(t) \/ Reload(t)
    <2>1. task'[t] = IdleTask /\ loop' = IF loop = t THEN Free ELSE loop
      BY TaskTyped, <1>4 DEF LoadVanished, WriteFail, Reload, Abort, Finish
    <2> QED
      BY <2>1 DEF IdleTask, Held
  <1>5. CASE HeadOk(t) \/ HeadFail(t) \/ Select(t) \/ FetchFail(t)
               \/ Refreshed(t) \/ Count(t) \/ CountFail(t) \/ Unlink(t)
    BY <1>5 DEF HeadOk, HeadFail, Select, FetchFail, Refreshed, Count,
       CountFail, Unlink
  <1>6. CASE ReadLists(t) \/ ReadDeny(t) \/ ReadAllow(t) \/ LoadCheck(t)
               \/ LoadRead(t) \/ OpenOutput(t) \/ CloseOutput(t)
    BY <1>6 DEF ReadLists, ReadDeny, ReadAllow, LoadCheck, LoadRead, OpenOutput,
       CloseOutput
  <1> QED
    BY <1>1, <1>2, <1>3, <1>4, <1>5, <1>6, <1>7 DEF Run

\* A task gets to the steps that keep the loop in three ways only.
LEMMA HeldEntered ==
  ASSUME TypeOK, NEW t \in Tasks, Run(t), task'[t].pc \in Held,
         task[t].pc \notin Held
  PROVE  Fetch(t) \/ SavePreset(t) \/ BeginMerge(t)
  <1>1. <<task[t].pc, task'[t].pc>> \in Moves
    BY RunMoves DEF IdleTask, Held
  <1>2. task[t].pc \in {"refresh", "save", "ready"}
    BY <1>1 DEF Moves, Held
  <1>3. ~Refreshed(t)
    BY TaskTyped DEF Refreshed, Goto, Held, Task
  <1>4. ~FetchFail(t)
    <2> SUFFICES ASSUME FetchFail(t) PROVE FALSE
      OBVIOUS
    <2>1. PICK l \in task[t].todo :
            task' = IF task[t].job = "bg" THEN [task EXCEPT ![t] = IdleTask]
                    ELSE [task EXCEPT ![t] =
                            [@ EXCEPT !.todo = task[t].todo \ {l}]]
      BY DEF FetchFail
    <2>2. task'[t] \in {IdleTask, [task[t] EXCEPT !.todo = task[t].todo \ {l}]}
      BY TaskTyped, <2>1
    <2>3. task'[t].pc \in {"idle", "refresh"}
      BY TaskTyped, <2>2 DEF FetchFail, Step, At, IdleTask, Task
    <2> QED
      BY <2>3 DEF Held
  <1> QED
    BY <1>2, <1>3, <1>4
    DEF Run, HeadOk, HeadFail, Select, CloseList, SaveFail, Count, CountFail,
        Unlink, ReadLists, ReadDeny, ReadAllow, LoadCheck, LoadRead,
        LoadVanished, OpenOutput, CloseOutput, WriteFail, Reload, Step, At

\* A task of the loop that gets to such a step has taken it.
LEMMA LoopTaken ==
  ASSUME TypeOK, LoopHeld, NEW t \in Tasks, Run(t), task'[t].pc \in Held,
         OnMain(t)'
  PROVE  loop' = t
  <1>1. /\ task'[t].job = task[t].job
        /\ <<task[t].pc, task'[t].pc>> \in Moves
    BY RunMoves DEF IdleTask, Held
  <1>2. OnMain(t)
    BY <1>1 DEF OnMain, At, Held
  <1>3. CASE task[t].pc \in Held
    <2>1. loop = t
      BY <1>2, <1>3 DEF LoopHeld, Held
    <2> QED
      BY <2>1, LoopMoves
  <1>4. CASE task[t].pc \notin Held
    BY <1>2, <1>4, HeldEntered
    DEF Fetch, SavePreset, OpenList, BeginMerge, Hold
  <1> QED
    BY <1>3, <1>4

LEMMA LoopHeldKept == TypeOK /\ LoopHeld /\ [Next]_vars => LoopHeld'
  <1> SUFFICES ASSUME TypeOK, LoopHeld, [Next]_vars PROVE LoopHeld'
    OBVIOUS
  <1>1. ASSUME NEW t \in Tasks, Operation(t) \/ Run(t) PROVE LoopHeld'
    <2> SUFFICES ASSUME NEW u \in Tasks, OnMain(u)', task'[u].pc \in Held
                 PROVE  loop' = u
      BY DEF LoopHeld, Held
    <2>1. CASE u # t
      <3>1. task'[u].job = task[u].job /\ task'[u].pc = task[u].pc
        BY <1>1, <2>1, OperationFrame, RunFrame DEF SameTask
      <3>2. loop = u
        BY <3>1 DEF LoopHeld, OnMain, At, Held
      <3> QED
        BY <1>1, <2>1, <3>2, LoopMoves, FreeAssumption
    <2>2. CASE u = t /\ Operation(t)
      <3>1. task'[t].pc \in Held => task'[t] = task[t]
        BY <2>2, OperationStarts DEF Starts, Held
      <3>2. loop = t /\ loop = Free
        BY <2>2, <3>1 DEF LoopHeld, OnMain, At, Held, Operation, Add, Upload,
           Preset, Toggle, Edit, Delete, Sync, Nightly, AddRule, DeleteRule,
           Start
      <3> QED
        BY <3>2, FreeAssumption
    <2>3. CASE u = t /\ Run(t)
      BY <2>3, LoopTaken
    <2> QED
      BY <1>1, <2>1, <2>2, <2>3
  <1>2. ASSUME NEW t \in Tasks, Restart(t) PROVE LoopHeld'
    BY <1>2, TaskTyped DEF LoopHeld, Restart, NewTask, IdleTask, OnMain, At
  <1>3. CASE DnsmasqReread \/ UNCHANGED vars
    BY <1>3 DEF DnsmasqReread, vars, LoopHeld, OnMain, At
  <1>4. CASE Crash
    BY <1>4 DEF Crash, IdleTask, LoopHeld, OnMain, At
  <1> QED
    BY <1>1, <1>2, <1>3, <1>4 DEF Next

\* Rows come into being once and are deleted for good.
RowsAge(l) ==
  /\ rows[l].state = "deleted" => rows'[l].state = "deleted"
  /\ rows'[l].state = "unused" => rows[l].state = "unused"

LEMMA UpdateAges ==
  ASSUME TypeOK, NEW k \in Lists, NEW row \in Row, row.state # "unused",
         rows' = Update(k, row), NEW l \in Lists
  PROVE  RowsAge(l)
  BY DEF RowsAge, Update, TypeOK

LEMMA OperationAges ==
  ASSUME TypeOK, NEW t \in Tasks, Operation(t), NEW l \in Lists
  PROVE  RowsAge(l)
  <1>1. CASE Add(t) \/ Upload(t) \/ Preset(t)
    <2>1. PICK k \in Lists : \E row : /\ rows[k].state = "unused"
                                     /\ row.state = "present"
                                     /\ rows' = [rows EXCEPT ![k] = row]
      BY <1>1 DEF Add, Upload, Preset, NewRow
    <2> QED
      BY <2>1 DEF RowsAge, TypeOK
  <1>2. CASE Toggle(t)
    <2>1. PICK k \in Lists, enabled \in BOOLEAN :
            /\ rows[k].state # "unused"
            /\ rows' = Update(k, [rows[k] EXCEPT !.enabled = enabled])
      BY <1>2 DEF Toggle
    <2>2. /\ [rows[k] EXCEPT !.enabled = enabled] \in Row
          /\ [rows[k] EXCEPT !.enabled = enabled].state = rows[k].state
      BY DEF TypeOK, Row
    <2> QED
      BY <2>1, <2>2, UpdateAges
  <1>3. CASE Edit(t)
    <2>1. PICK k \in Lists : /\ rows[k].state # "unused"
                             /\ rows' = Update(k, [rows[k] EXCEPT !.url = TRUE])
      BY <1>3 DEF Edit
    <2>2. /\ [rows[k] EXCEPT !.url = TRUE] \in Row
          /\ [rows[k] EXCEPT !.url = TRUE].state = rows[k].state
      BY DEF TypeOK, Row
    <2> QED
      BY <2>1, <2>2, UpdateAges
  <1>4. CASE Delete(t)
    <2>1. PICK k \in Lists :
            rows' = Update(k, [rows[k] EXCEPT !.state = "deleted"])
      BY <1>4 DEF Delete
    <2>2. /\ [rows[k] EXCEPT !.state = "deleted"] \in Row
          /\ [rows[k] EXCEPT !.state = "deleted"].state = "deleted"
      BY DEF TypeOK, Row
    <2> QED
      BY <2>1, <2>2, UpdateAges
  <1>5. CASE Sync(t) \/ Nightly(t) \/ AddRule(t) \/ DeleteRule(t)
    BY <1>5 DEF Sync, Nightly, AddRule, DeleteRule, RowsAge
  <1> QED
    BY <1>1, <1>2, <1>3, <1>4, <1>5 DEF Operation

LEMMA RunAges ==
  ASSUME TypeOK, NEW t \in Tasks, Run(t), NEW l \in Lists
  PROVE  RowsAge(l)
  <1>1. CASE HeadFail(t)
    <2> DEFINE k == task[t].list
    <2>1. rows' = Update(k, [rows[k] EXCEPT !.state = "deleted"])
      BY <1>1 DEF HeadFail
    <2>2. CASE k \in Lists
      <3>1. /\ [rows[k] EXCEPT !.state = "deleted"] \in Row
            /\ [rows[k] EXCEPT !.state = "deleted"].state = "deleted"
        BY <2>2 DEF TypeOK, Row
      <3> QED
        BY <2>1, <2>2, <3>1, UpdateAges
    <2>3. CASE k \notin Lists
      BY <2>1, <2>3 DEF Update, RowsAge, TypeOK
    <2> QED
      BY <2>2, <2>3
  <1>2. CASE Count(t)
    <2> DEFINE k == task[t].list
               n == Cardinality(task[t].acc)
    <2>1. rows' = Update(k, [rows[k] EXCEPT !.count = n])
      BY <1>2 DEF Count
    <2>2. CASE k \in Lists
      BY <2>1, <2>2 DEF TypeOK, Row, Update, RowsAge
    <2>3. CASE k \notin Lists
      BY <2>1, <2>3 DEF Update, RowsAge, TypeOK
    <2> QED
      BY <2>2, <2>3
  <1>3. CASE ~HeadFail(t) /\ ~Count(t)
    <2>1. rows' = rows
      BY <1>3 DEF Run, HeadOk, Select, Fetch, FetchFail, Refreshed, SavePreset,
         CloseList, SaveFail, CountFail, Unlink, ReadLists, ReadDeny, ReadAllow,
         BeginMerge, LoadCheck, LoadRead, LoadVanished, OpenOutput, CloseOutput,
         WriteFail, Reload
    <2> QED
      BY <2>1 DEF RowsAge
  <1> QED
    BY <1>1, <1>2, <1>3

LEMMA UnlinkIsLastKept ==
  TypeOK /\ ListKnown /\ UnlinkIsLast /\ [Next]_vars => UnlinkIsLast'
  <1> SUFFICES ASSUME TypeOK, ListKnown, UnlinkIsLast, [Next]_vars
               PROVE  UnlinkIsLast'
    OBVIOUS
  <1>1. ASSUME NEW t \in Tasks, Operation(t) \/ Run(t) PROVE UnlinkIsLast'
    <2> SUFFICES ASSUME NEW u \in Tasks, task'[u].pc = "unlink"
                 PROVE  rows'[task'[u].list].state = "deleted"
      BY DEF UnlinkIsLast, At
    <2>1. CASE u # t \/ task'[t] = task[t]
      <3>1. task'[u].pc = task[u].pc /\ task'[u].list = task[u].list
        BY <1>1, <2>1, OperationFrame, RunFrame DEF SameTask
      <3>2. task[u].list \in Lists /\ rows[task[u].list].state = "deleted"
        BY <3>1 DEF UnlinkIsLast, ListKnown, At
      <3> QED
        BY <1>1, <3>1, <3>2, OperationAges, RunAges DEF RowsAge
    <2>2. CASE u = t /\ Run(t)
      BY <2>2, RunMoves DEF Moves, IdleTask
    <2>3. CASE u = t /\ Operation(t) /\ task'[t] # task[t]
      <3>1. CASE Delete(t)
        <4>1. PICK l \in Lists :
                /\ rows[l].state # "unused"
                /\ rows' = Update(l, [rows[l] EXCEPT !.state = "deleted"])
                /\ task' = [Stale(task) EXCEPT
                     ![t] = [NewTask("delete", "unlink") EXCEPT !.list = l]]
          BY <3>1 DEF Delete
        <4>2. task'[t].list = l
          BY TaskTyped, <4>1 DEF NewTask, IdleTask
        <4>3. rows'[l].state = "deleted"
          BY <4>1 DEF Update, TypeOK, Row
        <4> QED
          BY <2>3, <4>2, <4>3
      <3>2. CASE ~Delete(t)
        BY <2>3, <3>2, TaskTyped DEF Operation, Add, Upload, Preset, Toggle,
           Edit, Sync, Nightly, AddRule, DeleteRule, NewTask, IdleTask
      <3> QED
        BY <3>1, <3>2
    <2> QED
      BY <1>1, <2>1, <2>2, <2>3
  <1>2. ASSUME NEW t \in Tasks, Restart(t) PROVE UnlinkIsLast'
    BY <1>2, TaskTyped DEF UnlinkIsLast, Restart, NewTask, IdleTask, At
  <1>3. CASE DnsmasqReread \/ UNCHANGED vars
    BY <1>3 DEF DnsmasqReread, vars, UnlinkIsLast, At
  <1>4. CASE Crash
    BY <1>4 DEF Crash, IdleTask, UnlinkIsLast, At
  <1> QED
    BY <1>1, <1>2, <1>3, <1>4 DEF Next

-------------------------------------------------------------------------------
(* The lists that tasks know of, and their files                           *)

\* Running, a task comes to know of lists in the table only.
LEMMA RunKnows ==
  ASSUME TypeOK, NEW t \in Tasks, Run(t)
  PROVE  /\ task'[t].todo \cup task'[t].ids
              \subseteq task[t].todo \cup task[t].ids \cup Present
         /\ task'[t].list \in {NoList, task[t].list} \cup task[t].todo
  <1>1. CASE HeadOk(t)
    BY TaskTyped, StaleFields, <1>1 DEF HeadOk, Goto, Task
  <1>2. CASE Select(t)
    BY TaskTyped, StaleFields, <1>2 DEF Select, Task
  <1>3. CASE Refreshed(t)
    BY TaskTyped, StaleFields, <1>3 DEF Refreshed, Goto, Task
  <1>4. CASE SavePreset(t)
    BY TaskTyped, StaleFields, <1>4 DEF SavePreset, Task
  <1>5. CASE Count(t)
    BY TaskTyped, StaleFields, <1>5 DEF Count, Goto, Task
  <1>6. CASE Unlink(t)
    BY TaskTyped, StaleFields, <1>6 DEF Unlink, Task
  <1>7. CASE ReadLists(t)
    BY TaskTyped, StaleFields, <1>7 DEF ReadLists, Enabled, Task
  <1>8. CASE ReadDeny(t)
    BY TaskTyped, StaleFields, <1>8 DEF ReadDeny, Task
  <1>9. CASE ReadAllow(t)
    BY TaskTyped, StaleFields, <1>9 DEF ReadAllow, Task
  <1>10. CASE BeginMerge(t)
    BY TaskTyped, StaleFields, <1>10 DEF BeginMerge, Task
  <1>11. CASE LoadCheck(t)
    BY TaskTyped, StaleFields, <1>11 DEF LoadCheck, Task
  <1>12. CASE LoadRead(t)
    BY TaskTyped, StaleFields, <1>12 DEF LoadRead, Task
  <1>13. CASE OpenOutput(t)
    BY <1>13, OpenOutputEffect
  <1>14. CASE CloseOutput(t)
    BY TaskTyped, StaleFields, <1>14 DEF CloseOutput, Task
  <1>15. CASE CloseList(t)
    BY <1>15, CloseListEffect
  <1>16. CASE Fetch(t)
    BY <1>16, FetchEffect
  <1>17. CASE FetchFail(t)
    BY TaskTyped, StaleFields, <1>17 DEF FetchFail, IdleTask, Task
  <1>18. CASE CountFail(t)
    BY TaskTyped, StaleFields, <1>18 DEF CountFail, Goto, IdleTask, Task
  <1>19. CASE HeadFail(t)
    BY TaskTyped, StaleFields, <1>19 DEF HeadFail, IdleTask
  <1>20. CASE LoadVanished(t) \/ WriteFail(t) \/ Reload(t)
    <2>1. task'[t] = IdleTask
      BY TaskTyped, <1>20 DEF LoadVanished, WriteFail, Reload, Abort, Finish
    <2> QED
      BY <2>1 DEF IdleTask
  <1>21. CASE SaveFail(t)
    BY <1>21, SaveFailEffect
  <1> QED
    BY <1>1, <1>2, <1>3, <1>4, <1>5, <1>6, <1>7, <1>8, <1>9, <1>10, <1>11,
       <1>12, <1>13, <1>14, <1>15, <1>16, <1>17, <1>18, <1>19, <1>20, <1>21
    DEF Run

\* An operation starts with a list that has a row from now on, or with none.
LEMMA OperationKnows ==
  ASSUME TypeOK, NEW t \in Tasks, Operation(t)
  PROVE  \/ task'[t] = task[t]
         \/ \E l \in Lists :
              /\ rows'[l].state # "unused"
              /\ task'[t].todo \subseteq {l}
              /\ task'[t].ids = {}
              /\ task'[t].list = l
         \/ task'[t].todo = {} /\ task'[t].ids = {} /\ task'[t].list = NoList
  <1>1. CASE Add(t)
    BY <1>1, TaskTyped DEF Add, NewRow, NewTask, IdleTask, TypeOK
  <1>2. CASE Upload(t)
    BY <1>2, TaskTyped DEF Upload, NewRow, NewTask, IdleTask, TypeOK
  <1>3. CASE Preset(t)
    BY <1>3, TaskTyped DEF Preset, NewRow, NewTask, IdleTask, TypeOK
  <1>4. CASE Delete(t)
    <2>1. PICK l \in Lists :
            /\ rows[l].state # "unused"
            /\ rows' = Update(l, [rows[l] EXCEPT !.state = "deleted"])
            /\ task' = [Stale(task) EXCEPT
                     ![t] = [NewTask("delete", "unlink") EXCEPT !.list = l]]
      BY <1>4 DEF Delete
    <2>2. rows'[l].state # "unused"
      BY <2>1, OperationAges DEF RowsAge
    <2> QED
      BY <2>1, <2>2, TaskTyped DEF NewTask, IdleTask
  <1>5. CASE Toggle(t)
    BY <1>5, TaskTyped DEF Toggle, NewTask, IdleTask
  <1>6. CASE AddRule(t) \/ DeleteRule(t)
    BY <1>6, TaskTyped DEF AddRule, DeleteRule, NewTask, IdleTask
  <1>7. CASE Sync(t) \/ Nightly(t)
    BY <1>7, TaskTyped DEF Sync, Nightly, NewTask, IdleTask
  <1>8. CASE Edit(t)
    BY <1>8 DEF Edit
  <1> QED
    BY <1>1, <1>2, <1>3, <1>4, <1>5, <1>6, <1>7, <1>8 DEF Operation

\* An operation touches no list file; a step of a task only the one it is at.
LEMMA FileMoves ==
  ASSUME TypeOK, NEW t \in Tasks, Operation(t) \/ Run(t)
  PROVE  \/ file' = file
         \/ \E l \in {task[t].list} \cup task[t].todo :
              /\ Fetch(t) \/ SavePreset(t)
              /\ task'[t].list = l
              /\ file' = [file EXCEPT ![l] = [exists |-> TRUE, domains |-> {}]]
         \/ /\ CloseList(t) \/ SaveFail(t)
            /\ ~task[t].clash
            /\ \E S \in SUBSET Domains :
                 file' = [file EXCEPT ![task[t].list].domains = S]
         \/ Unlink(t) /\ file' = [file EXCEPT ![task[t].list] = NoFile]
  <1>1. CASE Operation(t)
    BY <1>1 DEF Operation, Add, Upload, Preset, Toggle, Edit, Delete, Sync,
       Nightly, AddRule, DeleteRule
  <1>2. CASE Fetch(t)
    BY <1>2, FetchEffect DEF OpenList
  <1>3. CASE SavePreset(t)
    <2>1. task'[t].list = task[t].list
      BY TaskTyped, StaleFields, <1>3 DEF SavePreset, Task
    <2> QED
      BY <1>3, <2>1 DEF SavePreset, OpenList
  <1>4. CASE CloseList(t) /\ ~task[t].clash
    <2>1. PICK rest \in SUBSET file[task[t].list].domains :
            file' = [file EXCEPT ![task[t].list].domains =
                                    task[t].acc \cup rest]
      BY <1>4 DEF CloseList
    <2>2. CASE task[t].list \in Lists
      <3>1. task[t].acc \cup rest \in SUBSET Domains
        BY <2>2 DEF TypeOK, Task, File
      <3> QED
        BY <1>4, <2>1, <3>1
    <2>3. CASE task[t].list \notin Lists
      <3>1. file' = file
        BY <2>1, <2>3 DEF TypeOK
      <3> QED
        BY <3>1
    <2> QED
      BY <2>2, <2>3
  <1>5. CASE CloseList(t) /\ task[t].clash
    BY <1>5 DEF CloseList
  <1>9. CASE SaveFail(t) /\ ~task[t].clash
    <2>1. PICK part \in SUBSET (file[task[t].list].domains \cup task[t].acc) :
            file' = [file EXCEPT ![task[t].list].domains = part]
      BY <1>9 DEF SaveFail
    <2>2. CASE task[t].list \in Lists
      <3>1. part \in SUBSET Domains
        BY <2>2 DEF TypeOK, Task, File
      <3> QED
        BY <1>9, <2>1, <3>1
    <2>3. CASE task[t].list \notin Lists
      <3>1. file' = file
        BY <2>1, <2>3 DEF TypeOK
      <3> QED
        BY <3>1
    <2> QED
      BY <2>2, <2>3
  <1>10. CASE SaveFail(t) /\ task[t].clash
    BY <1>10 DEF SaveFail
  <1>6. CASE Unlink(t)
    BY <1>6 DEF Unlink
  <1>7. CASE HeadOk(t) \/ HeadFail(t) \/ Select(t) \/ FetchFail(t)
               \/ Refreshed(t) \/ Count(t) \/ CountFail(t) \/ ReadLists(t)
               \/ ReadDeny(t) \/ ReadAllow(t)
    BY <1>7 DEF HeadOk, HeadFail, Select, FetchFail, Refreshed, Count,
       CountFail, ReadLists, ReadDeny, ReadAllow
  <1>8. CASE BeginMerge(t) \/ LoadCheck(t) \/ LoadRead(t) \/ LoadVanished(t)
               \/ OpenOutput(t) \/ CloseOutput(t) \/ WriteFail(t) \/ Reload(t)
    BY <1>8 DEF BeginMerge, LoadCheck, LoadRead, LoadVanished, OpenOutput,
       CloseOutput, WriteFail, Reload
  <1> QED
    BY <1>1, <1>2, <1>3, <1>4, <1>5, <1>6, <1>7, <1>8, <1>9, <1>10 DEF Run

LEMMA UnusedUnknownKept ==
  TypeOK /\ UnusedUnknown /\ [Next]_vars => UnusedUnknown'
  <1> SUFFICES ASSUME TypeOK, UnusedUnknown, [Next]_vars PROVE UnusedUnknown'
    OBVIOUS
  <1>1. ASSUME NEW t \in Tasks, Operation(t) \/ Run(t) PROVE UnusedUnknown'
    <2> SUFFICES ASSUME NEW l \in Lists, rows'[l].state = "unused"
                 PROVE  /\ file'[l] = NoFile
                        /\ \A u \in Tasks :
                             /\ l \notin task'[u].todo \cup task'[u].ids
                             /\ task'[u].list # l
      BY DEF UnusedUnknown
    <2>1. rows[l].state = "unused"
      BY <1>1, OperationAges, RunAges DEF RowsAge
    <2>2. /\ file[l] = NoFile
          /\ \A u \in Tasks : /\ l \notin task[u].todo \cup task[u].ids
                              /\ task[u].list # l
      BY <2>1 DEF UnusedUnknown
    <2>3. file'[l] = NoFile
      BY <1>1, <2>2, FileMoves DEF TypeOK
    <2>4. ASSUME NEW u \in Tasks, u # t
          PROVE  /\ l \notin task'[u].todo \cup task'[u].ids
                 /\ task'[u].list # l
      BY <1>1, <2>2, <2>4, OperationFrame, RunFrame DEF SameTask
    <2>5. CASE Run(t)
      <3>1. l \notin Present /\ l # NoList
        BY <2>1, NoListAssumption DEF Present
      <3>2. /\ l \notin task'[t].todo \cup task'[t].ids
            /\ task'[t].list # l
        BY <2>2, <2>5, <3>1, RunKnows
      <3> QED
        BY <2>3, <2>4, <3>2
    <2>6. CASE Operation(t)
      <3>1. /\ l \notin task'[t].todo \cup task'[t].ids
            /\ task'[t].list # l
        BY <2>2, <2>6, OperationKnows, NoListAssumption
      <3> QED
        BY <2>3, <2>4, <3>1
    <2> QED
      BY <1>1, <2>5, <2>6
  <1>2. ASSUME NEW t \in Tasks, Restart(t) PROVE UnusedUnknown'
    BY <1>2, TaskTyped, NoListAssumption
    DEF UnusedUnknown, Restart, NewTask, IdleTask
  <1>3. CASE DnsmasqReread \/ UNCHANGED vars
    BY <1>3 DEF DnsmasqReread, vars, UnusedUnknown
  <1>4. CASE Crash
    BY <1>4, NoListAssumption DEF Crash, IdleTask, UnusedUnknown
  <1> QED
    BY <1>1, <1>2, <1>3, <1>4 DEF Next

\* The flag of the task that runs: it is raised only for a file being written.
LEMMA RunClash ==
  ASSUME TypeOK, NEW t \in Tasks, Run(t), task'[t].clash
  PROVE  \/ task'[t].pc \in {"saving", "write"}
         \/ task[t].clash /\ task[t].pc \notin {"saving", "write"}
  <1>1. CASE HeadOk(t)
    BY TaskTyped, <1>1 DEF HeadOk, Goto, Task, Step, At
  <1>2. CASE Select(t)
    BY TaskTyped, <1>2 DEF Select, Task, Step, At
  <1>3. CASE Refreshed(t)
    BY TaskTyped, <1>3 DEF Refreshed, Goto, Task, Step, At
  <1>4. CASE Count(t)
    BY TaskTyped, <1>4 DEF Count, Goto, Task, Step, At
  <1>5. CASE ReadLists(t)
    BY TaskTyped, <1>5 DEF ReadLists, Task, Step, At
  <1>6. CASE ReadDeny(t)
    BY TaskTyped, <1>6 DEF ReadDeny, Task, Step, At
  <1>7. CASE ReadAllow(t)
    BY TaskTyped, <1>7 DEF ReadAllow, Task, Step, At
  <1>8. CASE BeginMerge(t)
    BY TaskTyped, <1>8 DEF BeginMerge, Task, Step, At
  <1>9. CASE LoadCheck(t)
    BY TaskTyped, <1>9 DEF LoadCheck, Task, Step, At
  <1>10. CASE LoadRead(t)
    BY TaskTyped, <1>10 DEF LoadRead, Task, Step, At
  <1>11. CASE CountFail(t)
    BY TaskTyped, <1>11 DEF CountFail, Goto, IdleTask, Task, Step, At
  <1>12. CASE FetchFail(t)
    BY TaskTyped, <1>12 DEF FetchFail, IdleTask, Task, Step, At
  <1>13. CASE Unlink(t)
    BY TaskTyped, <1>13 DEF Unlink, Task, Step, At
  <1>14. CASE Fetch(t)
    BY <1>14, FetchEffect
  <1>15. CASE SavePreset(t)
    BY TaskTyped, StaleFields, <1>15 DEF SavePreset, Task
  <1>16. CASE OpenOutput(t)
    BY <1>16, OpenOutputEffect
  <1>17. CASE CloseList(t)
    BY <1>17, CloseListEffect
  <1>18. CASE CloseOutput(t)
    BY TaskTyped, <1>18 DEF CloseOutput, Task
  <1>19. CASE HeadFail(t)
    BY TaskTyped, <1>19 DEF HeadFail, IdleTask
  <1>20. CASE LoadVanished(t) \/ WriteFail(t) \/ Reload(t)
    <2>1. task'[t] = IdleTask
      BY TaskTyped, <1>20 DEF LoadVanished, WriteFail, Reload, Abort, Finish
    <2> QED
      BY <2>1 DEF IdleTask
  <1>21. CASE SaveFail(t)
    BY <1>21, SaveFailEffect
  <1> QED
    BY <1>1, <1>2, <1>3, <1>4, <1>5, <1>6, <1>7, <1>8, <1>9, <1>10, <1>11,
       <1>12, <1>13, <1>14, <1>15, <1>16, <1>17, <1>18, <1>19, <1>20, <1>21
    DEF Run

\* The flags of the others are never lowered, and raised only for those that
\* write the output, or whose list file is unlinked.
LEMMA OtherClash ==
  ASSUME TypeOK, NEW t \in Tasks, Operation(t) \/ Run(t), NEW u \in Tasks, u # t
  PROVE  /\ task[u].clash => task'[u].clash
         /\ task'[u].clash =>
              task[u].clash \/ At(u, "write") \/ At(u, "saving")
         /\ Unlink(t) /\ At(u, "saving") /\ task[u].list = task[t].list =>
              task'[u].clash
  <1>1. CASE Unlink(t)
    BY TaskTyped, <1>1 DEF Unlink, Task
  <1>2. CASE OpenOutput(t)
    <2>1. task'[u] = IF At(u, "write") THEN [task[u] EXCEPT !.clash = TRUE]
                     ELSE task[u]
      BY TaskTyped, <1>2 DEF OpenOutput
    <2>2. ~Unlink(t)
      BY <1>2 DEF OpenOutput, Unlink, Step, At
    <2> QED
      BY TaskTyped, <2>1, <2>2 DEF Task
  <1>3. CASE ~Unlink(t) /\ ~OpenOutput(t)
    <2>1. CASE Operation(t)
      <3>1. task'[u] \in {task[u], Stale(task)[u]}
        BY TaskTyped, <2>1 DEF Operation, Add, Upload, Preset, Toggle, Edit,
           Delete, Sync, Nightly, AddRule, DeleteRule
      <3> QED
        BY <1>3, <3>1, StaleFields
    <2>2. CASE HeadOk(t) \/ HeadFail(t) \/ Select(t) \/ Fetch(t) \/ FetchFail(t)
                 \/ Refreshed(t) \/ SavePreset(t) \/ CloseList(t) \/ SaveFail(t)
      <3>1. task'[u] \in {task[u], Stale(task)[u]}
        BY TaskTyped, <2>2 DEF HeadOk, HeadFail, Select, Fetch, FetchFail,
           Refreshed, SavePreset, CloseList, SaveFail, Goto
      <3> QED
        BY <1>3, <3>1, StaleFields
    <2>3. CASE Count(t) \/ CountFail(t) \/ ReadLists(t) \/ ReadDeny(t)
                 \/ ReadAllow(t) \/ BeginMerge(t) \/ LoadCheck(t) \/ LoadRead(t)
      <3>1. task'[u] = task[u]
        BY TaskTyped, <2>3 DEF Count, CountFail, ReadLists, ReadDeny, ReadAllow,
           BeginMerge, LoadCheck, LoadRead, Goto
      <3> QED
        BY <1>3, <3>1
    <2>4. CASE LoadVanished(t) \/ CloseOutput(t) \/ WriteFail(t) \/ Reload(t)
      <3>1. task'[u] = task[u]
        BY TaskTyped, <2>4 DEF LoadVanished, CloseOutput, WriteFail, Reload,
           Abort, Finish
      <3> QED
        BY <1>3, <3>1
    <2> QED
      BY <1>3, <2>1, <2>2, <2>3, <2>4 DEF Run
  <1> QED
    BY <1>1, <1>2, <1>3

LEMMA OperationClash ==
  ASSUME TypeOK, NEW t \in Tasks, Operation(t)
  PROVE  task'[t] = task[t] \/ (~task'[t].clash /\ task'[t].pc # "saving")
  <1>1. CASE Add(t)
    BY TaskTyped, <1>1 DEF Add, NewTask, IdleTask
  <1>2. CASE Upload(t)
    BY TaskTyped, <1>2 DEF Upload, NewTask, IdleTask
  <1>3. CASE Preset(t)
    BY TaskTyped, <1>3 DEF Preset, NewTask, IdleTask
  <1>4. CASE Toggle(t)
    BY TaskTyped, <1>4 DEF Toggle, NewTask, IdleTask
  <1>5. CASE Edit(t)
    BY TaskTyped, <1>5 DEF Edit, NewTask, IdleTask
  <1>6. CASE Delete(t)
    BY TaskTyped, <1>6 DEF Delete, NewTask, IdleTask
  <1>7. CASE Sync(t)
    BY TaskTyped, <1>7 DEF Sync, NewTask, IdleTask
  <1>8. CASE Nightly(t)
    BY TaskTyped, <1>8 DEF Nightly, NewTask, IdleTask
  <1>9. CASE AddRule(t)
    BY TaskTyped, <1>9 DEF AddRule, NewTask, IdleTask
  <1>10. CASE DeleteRule(t)
    BY TaskTyped, <1>10 DEF DeleteRule, NewTask, IdleTask
  <1> QED
    BY <1>1, <1>2, <1>3, <1>4, <1>5, <1>6, <1>7, <1>8, <1>9, <1>10
    DEF Operation

LEMMA FilesOpenKept ==
  TypeOK /\ ListKnown /\ FilesOpen /\ [Next]_vars => FilesOpen'
  <1> SUFFICES ASSUME TypeOK, ListKnown, FilesOpen, [Next]_vars
               PROVE  FilesOpen'
    OBVIOUS
  <1>1. ASSUME NEW t \in Tasks, Operation(t) \/ Run(t) PROVE FilesOpen'
    <2>1. ASSUME NEW l \in Lists, ~file'[l].exists PROVE file'[l].domains = {}
      <3>1. CASE (CloseList(t) \/ SaveFail(t)) /\ ~task[t].clash
        <4>1. PICK S : file' = [file EXCEPT ![task[t].list].domains = S]
          BY <3>1 DEF CloseList, SaveFail
        <4>2. file[task[t].list].exists
          BY <3>1 DEF CloseList, SaveFail, Step, At, FilesOpen
        <4>3. l # task[t].list
          BY <2>1, <4>1, <4>2 DEF TypeOK, File
        <4> QED
          BY <2>1, <4>1, <4>3 DEF FilesOpen, TypeOK
      <3>2. CASE ~((CloseList(t) \/ SaveFail(t)) /\ ~task[t].clash)
        BY <1>1, <2>1, <3>2, FileMoves DEF FilesOpen, TypeOK, NoFile
      <3> QED
        BY <3>1, <3>2
    <2>2. ASSUME NEW u \in Tasks, task'[u].clash
          PROVE  task'[u].pc \in {"saving", "write"}
      <3>1. CASE u # t
        <4>1. task'[u].pc = task[u].pc
          BY <1>1, <3>1, OperationFrame, RunFrame DEF SameTask
        <4> QED
          BY <1>1, <2>2, <3>1, <4>1, OtherClash DEF FilesOpen, At
      <3>2. CASE u = t /\ Run(t)
        BY <2>2, <3>2, RunClash DEF FilesOpen, At
      <3>3. CASE u = t /\ Operation(t)
        BY <2>2, <3>3, OperationClash DEF FilesOpen, At
      <3> QED
        BY <1>1, <3>1, <3>2, <3>3
    <2>3. ASSUME NEW u \in Tasks, task'[u].pc = "saving", ~task'[u].clash
          PROVE  file'[task'[u].list].exists
      <3>1. CASE u # t \/ task'[t] = task[t]
        <4>1. /\ task'[u].pc = task[u].pc
              /\ task'[u].list = task[u].list
              /\ ~task[u].clash
          BY <1>1, <2>3, <3>1, OperationFrame, RunFrame, OtherClash DEF SameTask
        <4>2. task[u].list \in Lists /\ file[task[u].list].exists
          BY <2>3, <4>1 DEF FilesOpen, ListKnown, At
        <4>3. CASE Unlink(t)
          <5>1. task'[t] # task[t]
            BY <4>3, TaskTyped DEF Unlink, Step, At, Task
          <5>2. task[u].list # task[t].list
            BY <1>1, <2>3, <3>1, <4>1, <4>3, <5>1, OtherClash DEF At
          <5> QED
            BY <4>1, <4>2, <4>3, <5>2 DEF Unlink, TypeOK
        <4>4. CASE ~Unlink(t)
          <5> DEFINE k == task[u].list
          <5>1. ASSUME NEW l, file' = [file EXCEPT ![l] =
                                         [exists |-> TRUE, domains |-> {}]]
                PROVE  file'[k].exists
            BY <4>2, <5>1 DEF TypeOK
          <5>2. ASSUME NEW l, NEW S, file' = [file EXCEPT ![l].domains = S]
                PROVE  file'[k].exists
            BY <4>2, <5>2 DEF TypeOK, File
          <5>3. \/ file' = file
                \/ \E l : file' = [file EXCEPT ![l] =
                                     [exists |-> TRUE, domains |-> {}]]
                \/ \E S : file' = [file EXCEPT ![task[t].list].domains = S]
            BY <1>1, <4>4, FileMoves
          <5>4. file'[k].exists
            BY <4>2, <5>1, <5>2, <5>3
          <5> QED
            BY <4>1, <5>4
        <4> QED
          BY <4>3, <4>4
      <3>2. CASE u = t /\ Operation(t) /\ task'[t] # task[t]
        BY <2>3, <3>2, OperationClash
      <3>3. CASE u = t /\ (Fetch(t) \/ SavePreset(t))
        <4>1. ListKnown'
          BY ListKnownStep
        <4>2. task'[t].list \in Lists
          BY <2>3, <3>3, <4>1 DEF ListKnown
        <4>3. ~CloseList(t) /\ ~SaveFail(t) /\ ~Unlink(t)
          BY <3>3 DEF Fetch, SavePreset, CloseList, SaveFail, Unlink, Step, At
        <4>4. file' = [file EXCEPT ![task'[t].list] =
                                     [exists |-> TRUE, domains |-> {}]]
          <5>1. CASE Fetch(t)
            BY <5>1, FetchEffect DEF OpenList
          <5>2. CASE SavePreset(t)
            BY <5>2, TaskTyped, StaleFields DEF SavePreset, OpenList, Task
          <5> QED
            BY <3>3, <5>1, <5>2
        <4> QED
          BY <3>3, <4>2, <4>4 DEF TypeOK
      <3>4. CASE u = t /\ Run(t) /\ ~Fetch(t) /\ ~SavePreset(t)
                   /\ task'[t] # task[t]
        <4>1. CASE task[t].pc \in Held
          <5>1. <<task[t].pc, task'[t].pc>> \in Moves
            BY <2>3, <3>4, RunMoves DEF IdleTask
          <5> QED
            BY <2>3, <3>4, <4>1, <5>1 DEF Moves, Held
        <4>2. CASE task[t].pc \notin Held
          <5>1. task'[t].pc \in Held
            BY <2>3, <3>4 DEF Held
          <5>2. BeginMerge(t)
            BY <3>4, <4>2, <5>1, HeldEntered
          <5>3. task'[t].pc = "load"
            BY <5>2, TaskTyped DEF BeginMerge, Task
          <5> QED
            BY <2>3, <3>4, <5>3
        <4> QED
          BY <4>1, <4>2
      <3> QED
        BY <1>1, <3>1, <3>2, <3>3, <3>4
    <2> QED
      BY <2>1, <2>2, <2>3 DEF FilesOpen, At
  <1>2. ASSUME NEW t \in Tasks, Restart(t) PROVE FilesOpen'
    BY <1>2, TaskTyped DEF FilesOpen, Restart, NewTask, IdleTask, At
  <1>3. CASE DnsmasqReread \/ UNCHANGED vars
    BY <1>3 DEF DnsmasqReread, vars, FilesOpen, At
  <1>4. CASE Crash
    BY <1>4 DEF Crash, IdleTask, FilesOpen, At
  <1> QED
    BY <1>1, <1>2, <1>3, <1>4 DEF Next

-------------------------------------------------------------------------------
(* What an apply has read                                                  *)

LEMMA ReadListsEffect ==
  ASSUME TypeOK, NEW t \in Tasks, ReadLists(t)
  PROVE
         /\ task'[t].job = task[t].job
         /\ task'[t].pc = "deny"
         /\ task'[t].list = task[t].list
         /\ task'[t].todo = task[t].todo
         /\ task'[t].ids = Enabled
         /\ task'[t].deny = task[t].deny
         /\ task'[t].allow = task[t].allow
         /\ task'[t].acc = task[t].acc
         /\ task'[t].fresh = TRUE
  BY TaskTyped DEF ReadLists, Task

LEMMA ReadDenyEffect ==
  ASSUME TypeOK, NEW t \in Tasks, ReadDeny(t)
  PROVE
         /\ task'[t].job = task[t].job
         /\ task'[t].pc = "allow"
         /\ task'[t].list = task[t].list
         /\ task'[t].todo = task[t].todo
         /\ task'[t].ids = task[t].ids
         /\ task'[t].deny = Ruled("deny")
         /\ task'[t].allow = task[t].allow
         /\ task'[t].acc = task[t].acc
         /\ task'[t].fresh = task[t].fresh
  BY TaskTyped DEF ReadDeny, Task

LEMMA ReadAllowEffect ==
  ASSUME TypeOK, NEW t \in Tasks, ReadAllow(t)
  PROVE
         /\ task'[t].job = task[t].job
         /\ task'[t].pc = "ready"
         /\ task'[t].list = task[t].list
         /\ task'[t].todo = task[t].todo
         /\ task'[t].ids = task[t].ids
         /\ task'[t].deny = task[t].deny
         /\ task'[t].allow = Ruled("allow")
         /\ task'[t].acc = task[t].acc
         /\ task'[t].fresh = task[t].fresh
  BY TaskTyped DEF ReadAllow, Task

LEMMA BeginMergeEffect ==
  ASSUME TypeOK, NEW t \in Tasks, BeginMerge(t)
  PROVE
         /\ task'[t].job = task[t].job
         /\ task'[t].pc = "load"
         /\ task'[t].list = task[t].list
         /\ task'[t].todo = task[t].ids
         /\ task'[t].ids = task[t].ids
         /\ task'[t].deny = task[t].deny
         /\ task'[t].allow = task[t].allow
         /\ task'[t].acc = {}
         /\ task'[t].fresh = task[t].fresh
  BY TaskTyped DEF BeginMerge, Task

LEMMA LoadReadEffect ==
  ASSUME TypeOK, NEW t \in Tasks, LoadRead(t)
  PROVE
         /\ task'[t].job = task[t].job
         /\ task'[t].pc = "load"
         /\ task'[t].list = task[t].list
         /\ task'[t].todo = task[t].todo
         /\ task'[t].ids = task[t].ids
         /\ task'[t].deny = task[t].deny
         /\ task'[t].allow = task[t].allow
         /\ task'[t].acc = task[t].acc \cup file[task[t].list].domains
         /\ task'[t].fresh = task[t].fresh
  BY TaskTyped DEF LoadRead, Task

LEMMA LoadCheckEffect ==
  ASSUME TypeOK, NEW t \in Tasks, LoadCheck(t)
  PROVE  \E l \in task[t].todo :
         /\ task'[t].job = task[t].job
         /\ task'[t].pc = IF file[l].exists THEN "read" ELSE "load"
         /\ task'[t].list = l
         /\ task'[t].todo = task[t].todo \ {l}
         /\ task'[t].ids = task[t].ids
         /\ task'[t].deny = task[t].deny
         /\ task'[t].allow = task[t].allow
         /\ task'[t].acc = task[t].acc
         /\ task'[t].fresh = task[t].fresh
  <1>1. PICK l \in task[t].todo :
          task'[t] = [task[t] EXCEPT
                        !.pc = IF file[l].exists THEN "read" ELSE "load",
                        !.todo = task[t].todo \ {l}, !.list = l]
    BY TaskTyped DEF LoadCheck
  <1> DEFINE pc == IF file[l].exists THEN "read" ELSE "load"
  <1>2. task'[t] = [task[t] EXCEPT !.pc = pc, !.todo = task[t].todo \ {l},
                                   !.list = l]
    BY <1>1
  <1> HIDE DEF pc
  <1>3. /\ task'[t].job = task[t].job /\ task'[t].pc = pc
        /\ task'[t].list = l /\ task'[t].todo = task[t].todo \ {l}
        /\ task'[t].ids = task[t].ids /\ task'[t].deny = task[t].deny
        /\ task'[t].allow = task[t].allow /\ task'[t].acc = task[t].acc
        /\ task'[t].fresh = task[t].fresh
    BY TaskTyped, <1>2 DEF Task
  <1> QED
    BY <1>3 DEF pc

\* The steps that lead to a step of an apply before the end of its write.
LEMMA BegunEntered ==
  ASSUME TypeOK, NEW t \in Tasks, Run(t), task'[t].pc \in Begun
  PROVE  \/ ReadLists(t) \/ ReadDeny(t) \/ ReadAllow(t) \/ BeginMerge(t)
         \/ LoadCheck(t) \/ LoadRead(t) \/ OpenOutput(t)
  <1>1. <<task[t].pc, task'[t].pc>> \in Moves
    BY RunMoves DEF IdleTask, Begun
  <1>2. task[t].pc \in {"queued", "deny", "allow", "ready", "load", "read"}
    BY <1>1 DEF Moves, Begun
  <1>3. ~LoadVanished(t)
    BY TaskTyped DEF LoadVanished, Abort, Finish, IdleTask, Begun
  <1> QED
    BY <1>2, <1>3
    DEF Run, HeadOk, HeadFail, Select, Fetch, FetchFail, Refreshed, SavePreset,
        CloseList, SaveFail, Count, CountFail, Unlink, CloseOutput, WriteFail,
        Reload, Step, At

\* A task that an operation of its own slot leaves in the middle of an apply
\* has not been touched by it.
LEMMA OperationBegun ==
  ASSUME TypeOK, NEW t \in Tasks, Operation(t), task'[t].pc \in Begun
  PROVE  FALSE
  <1>1. task'[t] = task[t]
    BY OperationStarts DEF Starts, Begun
  <1>2. At(t, "idle")
    BY DEF Operation, Add, Upload, Preset, Toggle, Edit, Delete, Sync, Nightly,
       AddRule, DeleteRule, Start
  <1> QED
    BY <1>1, <1>2 DEF At, Begun

LEMMA MergeOrderKept == TypeOK /\ MergeOrder /\ [Next]_vars => MergeOrder'
  <1> SUFFICES ASSUME TypeOK, MergeOrder, [Next]_vars PROVE MergeOrder'
    OBVIOUS
  <1>1. ASSUME NEW t \in Tasks, Operation(t) \/ Run(t) PROVE MergeOrder'
    <2> SUFFICES ASSUME NEW u \in Tasks,
                        task'[u].pc \in {"load", "read", "write"}
                 PROVE  /\ task'[u].todo \subseteq task'[u].ids
                        /\ task'[u].pc = "read" =>
                             task'[u].list \in task'[u].ids \ task'[u].todo
                        /\ task'[u].pc = "write" => task'[u].todo = {}
      BY DEF MergeOrder, At
    <2>1. CASE u # t
      BY <1>1, <2>1, OperationFrame, RunFrame DEF SameTask, MergeOrder, At
    <2>2. CASE u = t /\ Operation(t)
      BY <2>2, OperationBegun DEF Begun
    <2>3. CASE u = t /\ (ReadLists(t) \/ ReadDeny(t) \/ ReadAllow(t))
      BY <2>3, ReadListsEffect, ReadDenyEffect, ReadAllowEffect
    <2>4. CASE u = t /\ BeginMerge(t)
      BY <2>4, BeginMergeEffect
    <2>5. CASE u = t /\ LoadCheck(t)
      <3>1. PICK l \in task[t].todo :
              /\ task'[t].pc = IF file[l].exists THEN "read" ELSE "load"
              /\ task'[t].list = l
              /\ task'[t].todo = task[t].todo \ {l}
              /\ task'[t].ids = task[t].ids
        BY <2>5, LoadCheckEffect
      <3>2. task[t].todo \subseteq task[t].ids
        BY <2>5 DEF LoadCheck, Step, At, MergeOrder
      <3>3. task'[t].pc # "write"
        BY <3>1
      <3> QED
        BY <2>5, <3>1, <3>2, <3>3
    <2>6. CASE u = t /\ LoadRead(t)
      BY <2>6, LoadReadEffect DEF LoadRead, Step, At, MergeOrder
    <2>7. CASE u = t /\ OpenOutput(t)
      BY <2>7, OpenOutputEffect DEF OpenOutput, Step, At, MergeOrder
    <2>8. ASSUME u = t, Run(t)
          PROVE  \/ ReadLists(t) \/ ReadDeny(t) \/ ReadAllow(t) \/ BeginMerge(t)
                 \/ LoadCheck(t) \/ LoadRead(t) \/ OpenOutput(t)
      <3>1. task'[t].pc \in Begun
        BY <2>8 DEF Begun
      <3> QED
        BY <2>8, <3>1, BegunEntered
    <2> QED
      BY <1>1, <2>1, <2>2, <2>3, <2>4, <2>5, <2>6, <2>7, <2>8
  <1>2. ASSUME NEW t \in Tasks, Restart(t) PROVE MergeOrder'
    BY <1>2, TaskTyped DEF MergeOrder, Restart, NewTask, IdleTask, At
  <1>3. CASE DnsmasqReread \/ UNCHANGED vars
    BY <1>3 DEF DnsmasqReread, vars, MergeOrder, At
  <1>4. CASE Crash
    BY <1>4 DEF Crash, IdleTask, MergeOrder, At
  <1> QED
    BY <1>1, <1>2, <1>3, <1>4 DEF Next

\* A change to what an apply reads leaves no other apply up to date.
LEMMA FreshSurvives ==
  ASSUME TypeOK, NEW t \in Tasks, Operation(t) \/ Run(t), NEW u \in Tasks,
         u # t, task'[u].fresh
  PROVE  /\ ~Toggle(t) /\ ~Delete(t) /\ ~AddRule(t) /\ ~DeleteRule(t)
         /\ ~Fetch(t) /\ ~SavePreset(t) /\ ~CloseList(t) /\ ~SaveFail(t)
         /\ HeadFail(t) => ~file[task[t].list].exists
  <1>1. ~Stale(task)[u].fresh
    BY StaleFields
  <1>2. task'[u] # Stale(task)[u]
    BY <1>1
  <1>3. ~Toggle(t) /\ ~Delete(t) /\ ~AddRule(t) /\ ~DeleteRule(t)
    BY <1>2, TaskTyped DEF Toggle, Delete, AddRule, DeleteRule
  <1>4. ~Fetch(t) /\ ~SavePreset(t) /\ ~CloseList(t) /\ ~SaveFail(t)
    BY <1>2, TaskTyped DEF Fetch, SavePreset, CloseList, SaveFail
  <1>5. HeadFail(t) => ~file[task[t].list].exists
    BY <1>2, TaskTyped DEF HeadFail
  <1> QED
    BY <1>3, <1>4, <1>5

\* The rows that matter to an apply are those of the lists that have a file.
LEMMA FreshRows ==
  ASSUME TypeOK, ListKnown, UnusedUnknown,
         NEW t \in Tasks, Operation(t) \/ Run(t), NEW u \in Tasks, u # t,
         task'[u].fresh, NEW l \in Lists, file[l].exists
  PROVE  l \in Enabled' <=> l \in Enabled
  <1> SUFFICES /\ rows'[l].state = rows[l].state
               /\ rows'[l].enabled = rows[l].enabled
    BY DEF Enabled, Present
  <1>1. CASE Add(t) \/ Upload(t) \/ Preset(t)
    <2>1. PICK k \in Lists : /\ rows[k].state = "unused"
                             /\ \E row : rows' = [rows EXCEPT ![k] = row]
      BY <1>1 DEF Add, Upload, Preset
    <2>2. k # l
      BY <2>1 DEF UnusedUnknown, NoFile
    <2> QED
      BY <2>1, <2>2 DEF TypeOK
  <1>2. CASE Edit(t)
    <2>1. PICK k \in Lists : rows' = Update(k, [rows[k] EXCEPT !.url = TRUE])
      BY <1>2 DEF Edit
    <2> QED
      BY <2>1 DEF Update, TypeOK, Row
  <1>3. CASE HeadFail(t)
    <2> DEFINE k == task[t].list
    <2>1. rows' = Update(k, [rows[k] EXCEPT !.state = "deleted"])
      BY <1>3 DEF HeadFail
    <2>2. k # l
      BY <1>3, FreshSurvives
    <2> QED
      BY <2>1, <2>2 DEF Update, TypeOK
  <1>4. CASE Count(t)
    <2> DEFINE k == task[t].list
               n == Cardinality(task[t].acc)
    <2>1. rows' = Update(k, [rows[k] EXCEPT !.count = n])
      BY <1>4 DEF Count
    <2> HIDE DEF n
    <2>2. k \in Lists
      BY <1>4 DEF Count, Step, At, ListKnown
    <2> QED
      BY <2>1, <2>2 DEF Update, TypeOK, Row
  <1>5. CASE Sync(t) \/ Nightly(t)
    BY <1>5 DEF Sync, Nightly
  <1>6. CASE HeadOk(t) \/ Select(t) \/ FetchFail(t) \/ Refreshed(t)
               \/ CountFail(t) \/ Unlink(t) \/ ReadLists(t) \/ ReadDeny(t)
               \/ ReadAllow(t)
    BY <1>6 DEF HeadOk, Select, FetchFail, Refreshed, CountFail, Unlink,
       ReadLists, ReadDeny, ReadAllow
  <1>7. CASE BeginMerge(t) \/ LoadCheck(t) \/ LoadRead(t) \/ LoadVanished(t)
               \/ OpenOutput(t) \/ CloseOutput(t) \/ WriteFail(t) \/ Reload(t)
    BY <1>7 DEF BeginMerge, LoadCheck, LoadRead, LoadVanished, OpenOutput,
       CloseOutput, WriteFail, Reload
  <1> QED
    BY <1>1, <1>2, <1>3, <1>4, <1>5, <1>6, <1>7, FreshSurvives
    DEF Operation, Run

\* The only file that changes under an apply that stays up to date is one that
\* is unlinked, and its list has been deleted.
LEMMA FreshFiles ==
  ASSUME TypeOK, ListKnown, UnlinkIsLast,
         NEW t \in Tasks, Operation(t) \/ Run(t), NEW u \in Tasks, u # t,
         task'[u].fresh, NEW l \in Lists
  PROVE  \/ file'[l] = file[l]
         \/ file'[l] = NoFile /\ l \notin Enabled
  <1>1. CASE file' = file
    BY <1>1
  <1>2. CASE file' # file
    <2>1. Unlink(t) /\ file' = [file EXCEPT ![task[t].list] = NoFile]
      BY <1>2, FileMoves, FreshSurvives
    <2>2. task[t].list \notin Enabled
      BY <2>1 DEF Unlink, Step, At, UnlinkIsLast, Enabled, Present
    <2> QED
      BY <2>1, <2>2 DEF TypeOK
  <1> QED
    BY <1>1, <1>2

LEMMA FreshRules ==
  ASSUME TypeOK, NEW t \in Tasks, Operation(t) \/ Run(t), NEW u \in Tasks,
         u # t, task'[u].fresh
  PROVE  rules' = rules
  <1>1. CASE Operation(t)
    BY <1>1, FreshSurvives
    DEF Operation, Add, Upload, Preset, Edit, Sync, Nightly
  <1>2. CASE HeadOk(t) \/ HeadFail(t) \/ Select(t) \/ FetchFail(t)
               \/ Refreshed(t) \/ Count(t) \/ CountFail(t) \/ Unlink(t)
               \/ ReadLists(t) \/ ReadDeny(t) \/ ReadAllow(t)
    BY <1>2 DEF HeadOk, HeadFail, Select, FetchFail, Refreshed, Count,
       CountFail, Unlink, ReadLists, ReadDeny, ReadAllow
  <1>3. CASE BeginMerge(t) \/ LoadCheck(t) \/ LoadRead(t) \/ LoadVanished(t)
               \/ OpenOutput(t) \/ CloseOutput(t) \/ WriteFail(t) \/ Reload(t)
    BY <1>3 DEF BeginMerge, LoadCheck, LoadRead, LoadVanished, OpenOutput,
       CloseOutput, WriteFail, Reload
  <1> QED
    BY <1>1, <1>2, <1>3, FreshSurvives DEF Run

\* The domains of a set of lists.
Content(S) == UNION {file[l].domains : l \in S}

LEMMA ContentWithOne ==
  ASSUME NEW S, NEW l
  PROVE  Content(S \cup {l}) = Content(S) \cup file[l].domains
  <1>1. ASSUME NEW d, NEW R
        PROVE  d \in Content(R) <=> \E k \in R : d \in file[k].domains
    BY DEF Content
  <1>2. ASSUME NEW d
        PROVE  d \in Content(S \cup {l})
                 <=> d \in Content(S) \cup file[l].domains
    BY <1>1
  <1> QED
    BY <1>2

\* Another task takes a step: what an up-to-date apply has read stays current.
LEMMA CurrentForOthers ==
  ASSUME TypeOK, ListKnown, UnusedUnknown, UnlinkIsLast, FilesOpen,
         NEW t \in Tasks, Operation(t) \/ Run(t), NEW u \in Tasks, u # t,
         task'[u].fresh, task[u].pc \in Begun, Current(u)
  PROVE  Current(u)'
  <1>1. SameTask(u)
    BY OperationFrame, RunFrame
  <1>2. Ruled("deny")' = Ruled("deny") /\ Ruled("allow")' = Ruled("allow")
    BY FreshRules DEF Ruled
  <1>3. ASSUME NEW l \in Lists, file'[l].exists
        PROVE  l \in task'[u].ids <=> l \in Enabled'
    <2>1. file[l].exists
      BY <1>3, FreshFiles DEF NoFile
    <2> QED
      BY <1>1, <2>1, FreshRows DEF SameTask, Current
  <1>4. Loaded(u)' = Loaded(u)
    BY <1>1 DEF SameTask, Loaded, At
  <1>5. ASSUME NEW l \in Loaded(u) PROVE file'[l].domains = file[l].domains
    <2>1. l \in task[u].ids /\ l \in Lists
      BY TaskTyped DEF Loaded, Task
    <2>2. CASE file'[l] = NoFile /\ l \notin Enabled
      <3>1. ~file[l].exists
        BY <2>1, <2>2 DEF Current
      <3> QED
        BY <2>1, <2>2, <3>1 DEF FilesOpen, NoFile
    <2> QED
      BY <2>1, <2>2, FreshFiles
  <1>6. UNION {file'[l].domains : l \in Loaded(u)}
          = UNION {file[l].domains : l \in Loaded(u)}
    BY <1>5
  <1>7. task'[u].pc \in {"load", "read", "write"} =>
          task'[u].acc = UNION {file'[l].domains : l \in Loaded(u)}
    BY <1>1, <1>6 DEF SameTask, Current
  <1>8. task'[u].pc # "deny" => task'[u].deny = Ruled("deny")'
    BY <1>1, <1>2 DEF SameTask, Current, At
  <1>9. task'[u].pc \notin {"deny", "allow"} => task'[u].allow = Ruled("allow")'
    BY <1>1, <1>2 DEF SameTask, Current, At
  <1> QED
    BY <1>3, <1>4, <1>7, <1>8, <1>9 DEF Current, At

\* The step is the apply's own.
LEMMA CurrentForItself ==
  ASSUME TypeOK, FilesOpen, MergeOrder, SnapshotIsCurrent,
         NEW t \in Tasks, Run(t), task'[t].fresh, task'[t].pc \in Begun
  PROVE  Current(t)'
  <1>1. \/ ReadLists(t) \/ ReadDeny(t) \/ ReadAllow(t) \/ BeginMerge(t)
        \/ LoadCheck(t) \/ LoadRead(t) \/ OpenOutput(t)
    BY BegunEntered
  <1>2. rows' = rows /\ rules' = rules /\ file' = file
    BY <1>1 DEF ReadLists, ReadDeny, ReadAllow, BeginMerge, LoadCheck, LoadRead,
       OpenOutput
  <1>3. /\ Enabled' = Enabled
        /\ Ruled("deny")' = Ruled("deny") /\ Ruled("allow")' = Ruled("allow")
    BY <1>2 DEF Enabled, Present, Ruled
  <1>4. CASE ReadLists(t)
    BY <1>2, <1>3, <1>4, ReadListsEffect DEF Current, At
  <1>5. CASE ReadDeny(t)
    <2>1. Current(t)
      BY <1>5, ReadDenyEffect DEF ReadDeny, Step, At, Begun, SnapshotIsCurrent
    <2> QED
      BY <1>2, <1>3, <1>5, <2>1, ReadDenyEffect DEF Current, At
  <1>6. CASE ReadAllow(t)
    <2>1. Current(t) /\ task[t].pc = "allow"
      BY <1>6, ReadAllowEffect DEF ReadAllow, Step, At, Begun, SnapshotIsCurrent
    <2> QED
      BY <1>2, <1>3, <1>6, <2>1, ReadAllowEffect DEF Current, At
  <1>7. CASE BeginMerge(t)
    <2>1. Current(t) /\ task[t].pc = "ready"
      BY <1>7, BeginMergeEffect DEF BeginMerge, Step, At, Begun,
         SnapshotIsCurrent
    <2>2. Loaded(t)' = {}
      BY <1>7, BeginMergeEffect DEF Loaded, At
    <2>3. UNION {file'[l].domains : l \in Loaded(t)'} = {}
      BY <2>2
    <2> QED
      BY <1>2, <1>3, <1>7, <2>1, <2>3, BeginMergeEffect DEF Current, At
  <1>8. CASE LoadCheck(t)
    <2>1. PICK l \in task[t].todo :
            /\ task'[t].pc = IF file[l].exists THEN "read" ELSE "load"
            /\ task'[t].list = l
            /\ task'[t].todo = task[t].todo \ {l}
            /\ task'[t].ids = task[t].ids
            /\ task'[t].deny = task[t].deny
            /\ task'[t].allow = task[t].allow
            /\ task'[t].acc = task[t].acc
            /\ task'[t].fresh = task[t].fresh
      BY <1>8, LoadCheckEffect
    <2>2. Current(t) /\ task[t].pc = "load"
      BY <1>8, <2>1 DEF LoadCheck, Step, At, Begun, SnapshotIsCurrent
    <2>3. l \in Lists /\ l \in task[t].ids
      BY <2>1, <2>2, TaskTyped DEF MergeOrder, Task
    <2>4. Loaded(t) = task[t].ids \ task[t].todo
      BY <2>2 DEF Loaded, At
    <2>5. CASE file[l].exists
      <3>1. Loaded(t)' = Loaded(t)
        BY <2>1, <2>3, <2>4, <2>5 DEF Loaded, At
      <3>2. task'[t].acc = UNION {file'[k].domains : k \in Loaded(t)'}
        BY <1>2, <2>1, <2>2, <3>1 DEF Current
      <3> QED
        BY <1>2, <1>3, <2>1, <2>2, <2>5, <3>2 DEF Current, At
    <2>6. CASE ~file[l].exists
      <3>1. Loaded(t)' = Loaded(t) \cup {l}
        BY <2>1, <2>3, <2>4, <2>6 DEF Loaded, At
      <3>2. file[l].domains = {}
        BY <2>3, <2>6 DEF FilesOpen
      <3>3. UNION {file[k].domains : k \in Loaded(t) \cup {l}}
              = UNION {file[k].domains : k \in Loaded(t)}
        BY <3>2
      <3>4. task'[t].acc = UNION {file'[k].domains : k \in Loaded(t)'}
        BY <1>2, <2>1, <2>2, <3>1, <3>3 DEF Current
      <3> QED
        BY <1>2, <1>3, <2>1, <2>2, <2>6, <3>4 DEF Current, At
    <2> QED
      BY <2>5, <2>6
  <1>9. CASE LoadRead(t)
    <2>1. Current(t) /\ task[t].pc = "read"
      BY <1>9, LoadReadEffect DEF LoadRead, Step, At, Begun, SnapshotIsCurrent
    <2>2. task[t].list \in task[t].ids \ task[t].todo
      BY <2>1 DEF MergeOrder, At
    <2>3. Loaded(t)' = Loaded(t) \cup {task[t].list}
      BY <1>9, <2>1, <2>2, LoadReadEffect DEF Loaded, At
    <2>4. Content(Loaded(t)')
            = Content(Loaded(t)) \cup file[task[t].list].domains
      BY <2>3, ContentWithOne
    <2>5. task'[t].acc = Content(Loaded(t)')
      BY <1>9, <2>1, <2>4, LoadReadEffect DEF Current, Content
    <2>6. task'[t].acc = UNION {file'[k].domains : k \in Loaded(t)'}
      BY <1>2, <2>5 DEF Content
    <2> QED
      BY <1>2, <1>3, <1>9, <2>1, <2>6, LoadReadEffect DEF Current, At
  <1>10. CASE OpenOutput(t)
    <2>1. Current(t) /\ task[t].pc = "load"
      BY <1>10, OpenOutputEffect DEF OpenOutput, Step, At, Begun,
         SnapshotIsCurrent
    <2>2. Loaded(t)' = Loaded(t)
      BY <1>10, <2>1, OpenOutputEffect DEF Loaded, At
    <2>3. task'[t].acc = UNION {file'[k].domains : k \in Loaded(t)'}
      BY <1>2, <1>10, <2>1, <2>2, OpenOutputEffect DEF Current
    <2> QED
      BY <1>2, <1>3, <1>10, <2>1, <2>3, OpenOutputEffect DEF Current, At
  <1> QED
    BY <1>1, <1>4, <1>5, <1>6, <1>7, <1>8, <1>9, <1>10

LEMMA SnapshotIsCurrentKept ==
  /\ TypeOK /\ ListKnown /\ UnusedUnknown /\ UnlinkIsLast /\ FilesOpen
  /\ MergeOrder /\ SnapshotIsCurrent /\ [Next]_vars
  => SnapshotIsCurrent'
  <1> SUFFICES ASSUME TypeOK, ListKnown, UnusedUnknown, UnlinkIsLast, FilesOpen,
                      MergeOrder, SnapshotIsCurrent, [Next]_vars
               PROVE  SnapshotIsCurrent'
    OBVIOUS
  <1>1. ASSUME NEW t \in Tasks, Operation(t) \/ Run(t)
        PROVE  SnapshotIsCurrent'
    <2> SUFFICES ASSUME NEW u \in Tasks, task'[u].pc \in Begun, task'[u].fresh
                 PROVE  Current(u)'
      BY DEF SnapshotIsCurrent
    <2>1. CASE u # t
      <3>1. task[u].pc \in Begun /\ task[u].fresh
        BY <1>1, <2>1, OperationFrame, RunFrame DEF SameTask
      <3> QED
        BY <1>1, <2>1, <3>1, CurrentForOthers DEF SnapshotIsCurrent
    <2>2. CASE u = t /\ Operation(t)
      BY <2>2, OperationBegun
    <2>3. CASE u = t /\ Run(t)
      BY <2>3, CurrentForItself
    <2> QED
      BY <1>1, <2>1, <2>2, <2>3
  <1>2. ASSUME NEW t \in Tasks, Restart(t) PROVE SnapshotIsCurrent'
    <2>1. task'[t].pc \notin Begun
      BY <1>2, TaskTyped DEF Restart, NewTask, IdleTask, Begun
    <2>2. ASSUME NEW u \in Tasks, u # t PROVE task'[u] = task[u]
      BY <1>2, <2>2, TaskTyped DEF Restart
    <2>3. rows' = rows /\ rules' = rules /\ file' = file
      BY <1>2 DEF Restart
    <2> QED
      BY <2>1, <2>2, <2>3
      DEF SnapshotIsCurrent, Current, Loaded, Enabled, Present, Ruled, At
  <1>3. CASE DnsmasqReread \/ UNCHANGED vars
    BY <1>3 DEF DnsmasqReread, vars, SnapshotIsCurrent, Current, Loaded,
       Enabled, Present, Ruled, At
  <1>4. CASE Crash
    BY <1>4 DEF Crash, IdleTask, SnapshotIsCurrent, Begun
  <1> QED
    BY <1>1, <1>2, <1>3, <1>4 DEF Next

\* A file that exists stays, unless it is unlinked.
LEMMA FileStays ==
  ASSUME TypeOK, NEW t \in Tasks, Operation(t) \/ Run(t), NEW l \in Lists,
         file[l].exists, ~(Unlink(t) /\ task[t].list = l)
  PROVE  file'[l].exists
  <1>1. ASSUME NEW k, file' = [file EXCEPT ![k] =
                                 [exists |-> TRUE, domains |-> {}]]
        PROVE  file'[l].exists
    BY <1>1 DEF TypeOK
  <1>2. ASSUME NEW S, file' = [file EXCEPT ![task[t].list].domains = S]
        PROVE  file'[l].exists
    BY <1>2 DEF TypeOK, File
  <1>3. CASE Unlink(t)
    BY <1>3 DEF Unlink, TypeOK
  <1>4. CASE ~Unlink(t)
    <2>1. \/ file' = file
          \/ \E k : file' = [file EXCEPT ![k] =
                               [exists |-> TRUE, domains |-> {}]]
          \/ \E S : file' = [file EXCEPT ![task[t].list].domains = S]
      BY <1>4, FileMoves
    <2> QED
      BY <2>1, <1>1, <1>2
  <1> QED
    BY <1>3, <1>4

LEMMA ReadIsSafeKept ==
  /\ TypeOK /\ ListKnown /\ JobAtStep /\ LoopHeld /\ UnlinkIsLast /\ MergeOrder
  /\ SnapshotIsCurrent /\ ReadIsSafe /\ [Next]_vars
  => ReadIsSafe'
  <1> SUFFICES ASSUME TypeOK, ListKnown, JobAtStep, LoopHeld, UnlinkIsLast,
                      MergeOrder, SnapshotIsCurrent, ReadIsSafe, [Next]_vars
               PROVE  ReadIsSafe'
    OBVIOUS
  <1>1. ASSUME NEW t \in Tasks, Operation(t) \/ Run(t) PROVE ReadIsSafe'
    <2> SUFFICES ASSUME NEW u \in Tasks, task'[u].pc = "read",
                        OnMain(u)' \/ task'[u].fresh
                 PROVE  file'[task'[u].list].exists
      BY DEF ReadIsSafe, At
    <2>1. CASE u # t
      <3>1. SameTask(u)
        BY <1>1, <2>1, OperationFrame, RunFrame
      <3>2. task[u].pc = "read" /\ (OnMain(u) \/ task[u].fresh)
        BY <3>1 DEF SameTask, OnMain, At
      <3>3. file[task[u].list].exists /\ task[u].list \in Lists
        BY <3>2 DEF ReadIsSafe, ListKnown, At
      <3>4. ~(Unlink(t) /\ task[t].list = task[u].list)
        <4> SUFFICES ASSUME Unlink(t), task[t].list = task[u].list PROVE FALSE
          OBVIOUS
        <4>1. CASE OnMain(u)
          <5>1. loop = u
            BY <3>2, <4>1 DEF LoopHeld
          <5>2. At(t, "unlink") /\ OnMain(t)
            BY DEF Unlink, Step, At, JobAtStep, JobFits, OnMain
          <5> QED
            BY <2>1, <5>1, <5>2, FreeAssumption DEF Unlink, Step
        <4>2. CASE task[u].fresh
          <5>1. Current(u) /\ task[u].list \in task[u].ids
            BY <3>2, <4>2 DEF SnapshotIsCurrent, MergeOrder, Begun, At
          <5>2. task[u].list \in Enabled
            BY <3>3, <5>1 DEF Current
          <5>3. rows[task[t].list].state = "deleted"
            BY DEF Unlink, Step, UnlinkIsLast
          <5> QED
            BY <5>2, <5>3 DEF Enabled, Present
        <4> QED
          BY <3>2, <4>1, <4>2
      <3> QED
        BY <1>1, <3>1, <3>3, <3>4, FileStays DEF SameTask
    <2>2. CASE u = t /\ Operation(t)
      BY <2>2, OperationBegun DEF Begun
    <2>3. CASE u = t /\ Run(t)
      <3>1. \/ ReadLists(t) \/ ReadDeny(t) \/ ReadAllow(t) \/ BeginMerge(t)
            \/ LoadCheck(t) \/ LoadRead(t) \/ OpenOutput(t)
        BY <2>3, BegunEntered DEF Begun
      <3>2. LoadCheck(t)
        BY <2>3, <3>1, ReadListsEffect, ReadDenyEffect, ReadAllowEffect,
           BeginMergeEffect, LoadReadEffect, OpenOutputEffect
      <3>3. file[task'[t].list].exists
        BY <2>3, <3>2, LoadCheckEffect
      <3> QED
        BY <2>3, <3>2, <3>3 DEF LoadCheck
    <2> QED
      BY <1>1, <2>1, <2>2, <2>3
  <1>2. ASSUME NEW t \in Tasks, Restart(t) PROVE ReadIsSafe'
    <2>1. task'[t].pc # "read"
      BY <1>2, TaskTyped DEF Restart, NewTask, IdleTask
    <2>2. ASSUME NEW u \in Tasks, u # t PROVE task'[u] = task[u]
      BY <1>2, <2>2, TaskTyped DEF Restart
    <2>3. file' = file
      BY <1>2 DEF Restart
    <2> QED
      BY <2>1, <2>2, <2>3 DEF ReadIsSafe, OnMain, At
  <1>3. CASE DnsmasqReread \/ UNCHANGED vars
    BY <1>3 DEF DnsmasqReread, vars, ReadIsSafe, OnMain, At
  <1>4. CASE Crash
    BY <1>4 DEF Crash, IdleTask, ReadIsSafe, At
  <1> QED
    BY <1>1, <1>2, <1>3, <1>4 DEF Next

-------------------------------------------------------------------------------
(* The inductive invariant and what follows from it                        *)

Inv ==
  /\ TypeOK /\ ListKnown
  /\ JobAtStep /\ LoopHeld
  /\ UnlinkIsLast /\ UnusedUnknown
  /\ FilesOpen /\ MergeOrder
  /\ SnapshotIsCurrent /\ ReadIsSafe

LEMMA InitInv == Init => Inv
  <1> SUFFICES ASSUME Init PROVE Inv
    OBVIOUS
  <1>1. TypeOK /\ ListKnown
    BY InitType DEF Init, ListKnown, IdleTask
  <1>2. \A t \in Tasks : task[t] = IdleTask
    BY DEF Init
  <1>3. \A t \in Tasks : /\ task[t].pc = "idle" /\ task[t].list = NoList
                         /\ task[t].todo = {} /\ task[t].ids = {}
                         /\ task[t].clash = FALSE
    BY <1>2 DEF IdleTask
  <1>4. JobAtStep /\ LoopHeld /\ UnlinkIsLast /\ MergeOrder /\ ReadIsSafe
    BY <1>3 DEF JobAtStep, JobFits, LoopHeld, UnlinkIsLast, MergeOrder,
       ReadIsSafe, At
  <1>5. SnapshotIsCurrent
    BY <1>3 DEF SnapshotIsCurrent, Begun
  <1>6. \A l \in Lists : file[l] = NoFile
    BY DEF Init
  <1>7. UnusedUnknown /\ FilesOpen
    BY <1>3, <1>6, NoListAssumption DEF UnusedUnknown, FilesOpen, NoFile, At
  <1> QED
    BY <1>1, <1>4, <1>5, <1>7 DEF Inv

\* The parts of the invariant hold together in every reachable state.
THEOREM Invariance == Spec => []Inv
  <1>1. Inv /\ [Next]_vars => TypeOK' /\ ListKnown'
    BY StepType, ListKnownStep DEF Inv
  <1>2. Inv /\ [Next]_vars => Inv'
    BY <1>1, JobAtStepKept, LoopHeldKept, UnlinkIsLastKept, UnusedUnknownKept,
       FilesOpenKept, MergeOrderKept, SnapshotIsCurrentKept, ReadIsSafeKept
    DEF Inv
  <1> QED
    BY InitInv, <1>2, PTL DEF Spec

\* load_blocklist_file never fails on an apply of the event loop, nor on the
\* only one that is up to date, however many lists, tasks and threads.
THEOREM ReadsAreSafe == Spec => []ReadIsSafe
  <1>1. Inv => ReadIsSafe
    BY DEF Inv
  <1> QED
    BY Invariance, <1>1, PTL

\* Two tasks of the event loop never have a file open at once: each keeps the
\* loop from the open to the close, so they are the same task.
THEOREM WritersAloneOnLoop == Spec => []OneWriterOnLoop
  <1>1. Inv => OneWriterOnLoop
    <2> SUFFICES ASSUME Inv, NEW t \in Tasks, NEW u \in Tasks, t # u,
                        OnMain(t), OnMain(u), Writing(t), Writing(u)
                 PROVE  FALSE
      BY DEF OneWriterOnLoop
    <2>1. loop = t /\ loop = u
      BY DEF Inv, LoopHeld, Writing, At
    <2> QED
      BY <2>1
  <1> QED
    BY Invariance, <1>1, PTL

LEMMA ExactFromInv == Inv => FreshApplyIsExact
  <1> SUFFICES ASSUME Inv, NEW t \in Tasks, At(t, "write"), task[t].fresh
               PROVE  Merged(t) = Desired
    BY DEF FreshApplyIsExact
  <1>1. Current(t) /\ task[t].todo = {}
    BY DEF Inv, SnapshotIsCurrent, MergeOrder, Begun, At
  <1>2. /\ task[t].acc = Content(task[t].ids)
        /\ task[t].deny = Ruled("deny") /\ task[t].allow = Ruled("allow")
    BY <1>1 DEF Current, Loaded, Content, At
  <1>3. task[t].ids \subseteq Lists /\ Enabled \subseteq Lists
    BY TaskTyped DEF Inv, Task, Enabled, Present
  <1>4. \A l \in Lists : file[l].domains # {} =>
          (l \in task[t].ids <=> l \in Enabled)
    BY <1>1 DEF Current, Inv, FilesOpen
  <1>5. ASSUME NEW d
        PROVE  d \in Content(task[t].ids) <=> d \in Content(Enabled)
    BY <1>3, <1>4 DEF Content
  <1>6. Content(task[t].ids) = Content(Enabled)
    BY <1>5
  <1> QED
    BY <1>2, <1>6 DEF Merged, Desired, Content

\* What apply_all_active is about to write, having read the lists, the two
\* kinds of rules and each file at moments of their own, is the configuration
\* of now, unless a change has come between.
THEOREM FreshAppliesAreExact == Spec => []FreshApplyIsExact
  BY Invariance, ExactFromInv, PTL

-------------------------------------------------------------------------------
(* No change is forgotten                                                  *)

\* Only the activity of a start runs before the server is up.
Booting ==
  \A t \in Tasks : task[t].job = "boot" =>
    /\ server = "boot"
    /\ \A u \in Tasks : task[u].job = "boot" => u = t

\* How the process comes and goes.
LEMMA ServerMoves ==
  ASSUME TypeOK, NEW t \in Tasks, Operation(t) \/ Run(t)
  PROVE  \/ server' = server
         \/ task[t].job = "boot" /\ task'[t] = IdleTask
  <1>1. CASE Operation(t)
    BY <1>1 DEF Operation, Add, Upload, Preset, Toggle, Edit, Delete, Sync,
       Nightly, AddRule, DeleteRule
  <1>2. CASE LoadVanished(t) \/ WriteFail(t) \/ Reload(t)
    BY TaskTyped, <1>2 DEF LoadVanished, WriteFail, Reload, Abort, Finish
  <1>3. CASE HeadOk(t) \/ HeadFail(t) \/ Select(t) \/ Fetch(t) \/ FetchFail(t)
               \/ Refreshed(t) \/ SavePreset(t) \/ CloseList(t) \/ SaveFail(t)
               \/ Count(t) \/ CountFail(t) \/ Unlink(t)
    BY <1>3 DEF HeadOk, HeadFail, Select, Fetch, FetchFail, Refreshed,
       SavePreset, CloseList, SaveFail, Count, CountFail, Unlink
  <1>4. CASE ReadLists(t) \/ ReadDeny(t) \/ ReadAllow(t) \/ BeginMerge(t)
               \/ LoadCheck(t) \/ LoadRead(t) \/ OpenOutput(t) \/ CloseOutput(t)
    BY <1>4 DEF ReadLists, ReadDeny, ReadAllow, BeginMerge, LoadCheck, LoadRead,
       OpenOutput, CloseOutput
  <1> QED
    BY <1>1, <1>2, <1>3, <1>4 DEF Run

LEMMA BootingKept == TypeOK /\ Booting /\ [Next]_vars => Booting'
  <1> SUFFICES ASSUME TypeOK, Booting, [Next]_vars PROVE Booting'
    OBVIOUS
  <1>1. ASSUME NEW t \in Tasks, Operation(t) \/ Run(t) PROVE Booting'
    <2>1. ASSUME NEW u \in Tasks, task'[u].job = "boot"
          PROVE  task[u].job = "boot"
      <3>1. CASE u # t
        BY <1>1, <2>1, <3>1, OperationFrame, RunFrame DEF SameTask
      <3>2. CASE u = t
        <4>1. CASE Operation(t)
          BY <2>1, <3>2, <4>1, OperationStarts DEF Starts
        <4>2. CASE Run(t)
          <5>1. IdleTask.job # "boot"
            BY DEF IdleTask
          <5>2. task'[t] = IdleTask \/ task'[t].job = task[t].job
            BY <4>2, RunMoves
          <5> QED
            BY <2>1, <3>2, <5>1, <5>2
        <4> QED
          BY <1>1, <4>1, <4>2
      <3> QED
        BY <3>1, <3>2
    <2>2. ASSUME NEW u \in Tasks, task'[u].job = "boot"
          PROVE  server' = "boot"
      <3>1. server = "boot"
        BY <2>1, <2>2 DEF Booting
      <3>2. CASE task[t].job = "boot" /\ task'[t] = IdleTask
        <4>1. u = t
          BY <2>1, <2>2, <3>2 DEF Booting
        <4> QED
          BY <2>2, <3>2, <4>1 DEF IdleTask
      <3> QED
        BY <1>1, <3>1, <3>2, ServerMoves
    <2> QED
      BY <2>1, <2>2 DEF Booting
  <1>2. ASSUME NEW t \in Tasks, Restart(t) PROVE Booting'
    <2>1. \A u \in Tasks : task[u].job # "boot"
      BY <1>2 DEF Restart, Booting
    <2> QED
      BY <1>2, <2>1, TaskTyped DEF Restart, Booting
  <1>3. CASE DnsmasqReread \/ UNCHANGED vars
    BY <1>3 DEF DnsmasqReread, vars, Booting
  <1>4. CASE Crash
    BY <1>4 DEF Crash, IdleTask, Booting
  <1> QED
    BY <1>1, <1>2, <1>3, <1>4 DEF Next

\* Whatever changes what an apply reads is going to apply.
LEMMA ChangeWillApply ==
  ASSUME TypeOK, JobAtStep, Failures \cap {"head", "save"} = {},
         NEW t \in Tasks, Operation(t) \/ Run(t)
  PROVE  \/ WillApply(t)'
         \/ /\ applied => applied'
            /\ \A u \in Tasks \ {t} : task[u].fresh => task'[u].fresh
  <1>1. CASE Toggle(t) \/ AddRule(t) \/ DeleteRule(t)
    <2>1. task'[t].pc = "queued"
      BY <1>1, TaskTyped DEF Toggle, AddRule, DeleteRule, NewTask, IdleTask
    <2> QED
      BY <2>1 DEF WillApply
  <1>2. CASE Delete(t)
    <2>1. task'[t].pc = "unlink"
      BY <1>2, TaskTyped DEF Delete, NewTask, IdleTask
    <2> QED
      BY <2>1 DEF WillApply
  <1>3. CASE Fetch(t)
    BY <1>3, FetchEffect DEF WillApply
  <1>4. CASE SavePreset(t)
    <2>1. task'[t].pc = "saving"
      BY <1>4, TaskTyped DEF SavePreset, Task
    <2> QED
      BY <2>1 DEF WillApply
  <1>5. CASE CloseList(t)
    BY <1>5, CloseListEffect DEF WillApply
  <1>6. CASE Add(t) \/ Upload(t) \/ Preset(t) \/ Edit(t) \/ Sync(t)
               \/ Nightly(t)
    BY <1>6, TaskTyped DEF Add, Upload, Preset, Edit, Sync, Nightly
  <1>7. CASE HeadOk(t) \/ Select(t) \/ FetchFail(t) \/ Refreshed(t) \/ Count(t)
               \/ CountFail(t)
    BY <1>7, TaskTyped DEF HeadOk, Select, FetchFail, Refreshed, Count,
       CountFail, Goto
  <1>8. CASE Unlink(t)
    BY <1>8, TaskTyped DEF Unlink, Task
  <1>9. CASE ReadLists(t) \/ ReadDeny(t) \/ ReadAllow(t) \/ BeginMerge(t)
               \/ LoadCheck(t) \/ LoadRead(t)
    BY <1>9, TaskTyped DEF ReadLists, ReadDeny, ReadAllow, BeginMerge,
       LoadCheck, LoadRead
  <1>10. CASE OpenOutput(t)
    BY <1>10, TaskTyped DEF OpenOutput, Task
  <1>11. CASE CloseOutput(t) \/ LoadVanished(t) \/ WriteFail(t) \/ Reload(t)
    BY <1>11, TaskTyped DEF CloseOutput, LoadVanished, WriteFail, Reload, Abort,
       Finish
  <1>12. ~HeadFail(t) /\ ~SaveFail(t)
    BY DEF HeadFail, SaveFail
  <1> QED
    BY <1>1, <1>2, <1>3, <1>4, <1>5, <1>6, <1>7, <1>8, <1>9, <1>10, <1>11, <1>12
    DEF Operation, Run

\* A task that is going to apply remains so until it has.
LEMMA WillApplyStays ==
  ASSUME TypeOK, JobAtStep, ReadIsSafe,
         Failures \cap {"save", "count", "write"} = {},
         NEW t \in Tasks, Run(t), WillApply(t)
  PROVE  WillApply(t)' \/ CloseOutput(t)
  <1>1. CASE HeadOk(t) \/ HeadFail(t)
    BY <1>1 DEF HeadOk, HeadFail, Step, At, WillApply, JobAtStep, JobFits, Begun
  <1>2. CASE Select(t)
    <2>1. /\ task[t].job \in {"sync", "nightly"} /\ task'[t].job = task[t].job
          /\ task'[t].pc = "refresh"
      BY <1>2, TaskTyped DEF Select, Step, JobAtStep, JobFits, Task
    <2> QED
      BY <2>1 DEF WillApply
  <1>3. CASE Fetch(t)
    BY <1>3, FetchEffect DEF WillApply
  <1>4. CASE FetchFail(t)
    <2>1. task[t].job \in {"sync", "nightly"} /\ task[t].pc = "refresh"
      BY <1>4 DEF FetchFail, Step, At, WillApply, Begun
    <2>2. PICK l : task' = [task EXCEPT ![t] =
                              [@ EXCEPT !.todo = task[t].todo \ {l}]]
      BY <1>4, <2>1 DEF FetchFail
    <2>3. task'[t].pc = task[t].pc /\ task'[t].job = task[t].job
      BY <2>2, TaskTyped DEF Task
    <2> QED
      BY <2>1, <2>3 DEF WillApply
  <1>5. CASE Refreshed(t) \/ Unlink(t)
    <2>1. task'[t].pc = "queued"
      BY <1>5, TaskTyped DEF Refreshed, Unlink, Goto, Task
    <2> QED
      BY <2>1 DEF WillApply
  <1>6. CASE SavePreset(t)
    <2>1. task'[t].pc = "saving"
      BY <1>6, TaskTyped DEF SavePreset, Task
    <2> QED
      BY <2>1 DEF WillApply
  <1>7. CASE CloseList(t)
    BY <1>7, CloseListEffect DEF WillApply
  <1>8. CASE Count(t)
    <2>1. CASE task[t].job = "bg"
      <3>1. task'[t].pc = "queued"
        BY <1>8, <2>1, TaskTyped DEF Count, Goto, Task
      <3> QED
        BY <3>1 DEF WillApply
    <2>2. CASE task[t].job # "bg"
      <3>1. /\ task[t].job \in {"sync", "nightly"}
            /\ task'[t].pc = "refresh" /\ task'[t].job = task[t].job
        BY <1>8, <2>2, TaskTyped DEF Count, Step, Goto, JobAtStep, JobFits, Task
      <3> QED
        BY <3>1 DEF WillApply
    <2> QED
      BY <2>1, <2>2
  <1>9. CASE ReadLists(t)
    BY <1>9, ReadListsEffect DEF WillApply, Begun
  <1>10. CASE ReadDeny(t)
    BY <1>10, ReadDenyEffect DEF ReadDeny, Step, At, WillApply, Begun
  <1>11. CASE ReadAllow(t)
    BY <1>11, ReadAllowEffect DEF ReadAllow, Step, At, WillApply, Begun
  <1>12. CASE BeginMerge(t)
    BY <1>12, BeginMergeEffect DEF BeginMerge, Step, At, WillApply, Begun
  <1>13. CASE LoadCheck(t)
    BY <1>13, LoadCheckEffect DEF LoadCheck, Step, At, WillApply, Begun
  <1>14. CASE LoadRead(t)
    BY <1>14, LoadReadEffect DEF LoadRead, Step, At, WillApply, Begun
  <1>15. CASE LoadVanished(t)
    BY <1>15 DEF LoadVanished, Step, At, WillApply, ReadIsSafe, Begun
  <1>16. CASE OpenOutput(t)
    BY <1>16, OpenOutputEffect DEF OpenOutput, Step, At, WillApply, Begun
  <1>17. CASE CloseOutput(t)
    BY <1>17
  <1>18. CASE Reload(t)
    BY <1>18 DEF Reload, Step, At, WillApply, Begun
  <1>19. ~SaveFail(t) /\ ~CountFail(t) /\ ~WriteFail(t)
    BY DEF SaveFail, CountFail, WriteFail
  <1> QED
    BY <1>1, <1>2, <1>3, <1>4, <1>5, <1>6, <1>7, <1>8, <1>9, <1>10, <1>11,
       <1>12, <1>13, <1>14, <1>15, <1>16, <1>17, <1>18, <1>19 DEF Run

LEMMA ApplyIsDueKept ==
  ASSUME Failures \cap {"head", "save", "count", "write"} = {}
  PROVE  Inv /\ Booting /\ ApplyIsDue /\ [Next]_vars => ApplyIsDue'
  <1> SUFFICES ASSUME Inv, Booting, ApplyIsDue, [Next]_vars, server' # "down"
               PROVE  applied' \/ \E t \in Tasks : WillApply(t)'
    BY DEF ApplyIsDue
  <1> USE DEF Inv
  <1>1. ASSUME NEW t \in Tasks, Operation(t) \/ Run(t)
        PROVE  applied' \/ \E u \in Tasks : WillApply(u)'
    <2> SUFFICES ASSUME ~WillApply(t)'
                 PROVE  applied' \/ \E u \in Tasks : WillApply(u)'
      OBVIOUS
    <2>1. /\ applied => applied'
          /\ \A u \in Tasks \ {t} : task[u].fresh => task'[u].fresh
      BY <1>1, ChangeWillApply
    <2>2. server # "down"
      <3>1. CASE server' = server
        BY <3>1
      <3>2. CASE task[t].job = "boot"
        BY <3>2 DEF Booting
      <3> QED
        BY <1>1, <3>1, <3>2, ServerMoves
    <2>3. CASE applied
      BY <2>1, <2>3
    <2>4. CASE \E u \in Tasks : WillApply(u)
      <3>1. PICK u \in Tasks : WillApply(u)
        BY <2>4
      <3>2. CASE u # t
        <4>1. task'[u].pc = task[u].pc /\ task'[u].job = task[u].job
          BY <1>1, <3>2, OperationFrame, RunFrame DEF SameTask
        <4> QED
          BY <2>1, <3>1, <3>2, <4>1 DEF WillApply
      <3>3. CASE u = t /\ Run(t)
        <4>1. CloseOutput(t) => applied'
          BY <3>1, <3>3 DEF CloseOutput, Step, At, WillApply
        <4> QED
          BY <3>1, <3>3, <4>1, WillApplyStays
      <3>4. CASE u = t /\ Operation(t)
        <4>1. At(t, "idle")
          BY <3>4 DEF Operation, Add, Upload, Preset, Toggle, Edit, Delete,
             Sync, Nightly, AddRule, DeleteRule, Start
        <4> QED
          BY <3>1, <3>4, <4>1 DEF WillApply, At, Begun
      <3> QED
        BY <1>1, <3>2, <3>3, <3>4
    <2> QED
      BY <2>2, <2>3, <2>4 DEF ApplyIsDue
  <1>2. ASSUME NEW t \in Tasks, Restart(t) PROVE WillApply(t)'
    <2>1. task'[t].pc = "queued"
      BY <1>2, TaskTyped DEF Restart, NewTask, IdleTask
    <2> QED
      BY <2>1 DEF WillApply
  <1>3. CASE DnsmasqReread \/ UNCHANGED vars
    BY <1>3 DEF DnsmasqReread, vars, ApplyIsDue, WillApply
  <1>4. ~Crash
    BY DEF Crash
  <1> QED
    BY <1>1, <1>2, <1>3, <1>4 DEF Next

\* Whatever overlaps and crashes, a server that is up has written an output
\* begun after the last change, or one of its activities is still bound to: if
\* sources answer the check of a new list, and the list files, the count and
\* the output can be written.
THEOREM NothingIsForgotten ==
  ASSUME Failures \cap {"head", "save", "count", "write"} = {}
  PROVE  Spec => []NoChangeForgotten
  <1>1. Init => Booting /\ ApplyIsDue
    BY DEF Init, IdleTask, Booting, ApplyIsDue
  <1>2. Inv /\ Booting /\ [Next]_vars => Booting'
    BY BootingKept DEF Inv
  <1>3. Inv /\ Booting /\ ApplyIsDue /\ [Next]_vars => ApplyIsDue'
    BY ApplyIsDueKept
  <1>4. ApplyIsDue => NoChangeForgotten
    BY DEF ApplyIsDue, NoChangeForgotten
  <1> QED
    BY Invariance, <1>1, <1>2, <1>3, <1>4, PTL DEF Spec

-------------------------------------------------------------------------------
(* One activity at a time                                                  *)

\* The steps that open a file.
LEMMA WritingEntered ==
  ASSUME TypeOK, NEW t \in Tasks, Run(t), task'[t].pc \in {"saving", "write"}
  PROVE  Fetch(t) \/ SavePreset(t) \/ OpenOutput(t)
  <1>1. <<task[t].pc, task'[t].pc>> \in Moves
    BY RunMoves DEF IdleTask
  <1>2. task[t].pc \in {"refresh", "save", "load"}
    BY <1>1 DEF Moves
  <1>3. ~Refreshed(t)
    BY TaskTyped DEF Refreshed, Goto, Task
  <1>4. ~FetchFail(t)
    <2> SUFFICES ASSUME FetchFail(t) PROVE FALSE
      OBVIOUS
    <2>1. PICK l \in task[t].todo :
            task' = IF task[t].job = "bg" THEN [task EXCEPT ![t] = IdleTask]
                    ELSE [task EXCEPT ![t] =
                            [@ EXCEPT !.todo = task[t].todo \ {l}]]
      BY DEF FetchFail
    <2>2. task'[t].pc \in {"idle", "refresh"}
      BY TaskTyped, <2>1 DEF FetchFail, Step, At, IdleTask, Task
    <2> QED
      BY <2>2
  <1>5. ~LoadCheck(t)
    BY LoadCheckEffect
  <1> QED
    BY <1>2, <1>3, <1>4, <1>5
    DEF Run, HeadOk, HeadFail, Select, CloseList, SaveFail, Count, CountFail,
        Unlink, ReadLists, ReadDeny, ReadAllow, BeginMerge, LoadRead,
        LoadVanished, CloseOutput, WriteFail, Reload, Step, At

LEMMA SavePresetEffect ==
  ASSUME TypeOK, NEW t \in Tasks, SavePreset(t)
  PROVE  /\ task'[t].job = task[t].job
         /\ task'[t].pc = "saving"
         /\ task'[t].list = task[t].list
         /\ task'[t].todo = task[t].todo
         /\ task'[t].acc = task[t].acc
         /\ task'[t].clash = task[t].clash
  <1>1. task'[t] = [Stale(task)[t] EXCEPT !.pc = "saving"]
    BY TaskTyped DEF SavePreset
  <1> QED
    BY <1>1, StaleFields DEF Task

LEMMA AloneKept ==
  ASSUME NEW t, Tasks = {t}
  PROVE  TypeOK /\ Alone /\ [Next]_vars => Alone'
  <1> SUFFICES ASSUME TypeOK, Alone, [Next]_vars
               PROVE  ~task'[t].clash /\ (task'[t].pc \in Begun => task'[t].fresh)
    BY DEF Alone
  <1>1. CASE Operation(t)
    BY <1>1, OperationClash, OperationBegun DEF Alone
  <1>2. CASE Run(t)
    <2>1. ~task'[t].clash
      <3>1. CASE Fetch(t)
        BY <3>1, FetchEffect DEF Alone
      <3>2. CASE SavePreset(t)
        BY <3>2, SavePresetEffect DEF Alone
      <3>3. CASE OpenOutput(t)
        <4>1. {u \in Tasks : At(u, "write")} = {}
          BY <3>3 DEF OpenOutput, Step, At
        <4>2. task'[t] = [task[t] EXCEPT !.pc = "write", !.clash = FALSE]
          BY <3>3, <4>1, TaskTyped DEF OpenOutput
        <4> QED
          BY <4>2, TaskTyped DEF Task
      <3> QED
        BY <1>2, <3>1, <3>2, <3>3, WritingEntered, RunClash DEF Alone
    <2>2. ASSUME task'[t].pc \in Begun PROVE task'[t].fresh
      <3>1. CASE ReadLists(t)
        BY <3>1, ReadListsEffect
      <3>2. CASE ReadDeny(t)
        BY <3>2, ReadDenyEffect DEF ReadDeny, Step, At, Alone, Begun
      <3>3. CASE ReadAllow(t)
        BY <3>3, ReadAllowEffect DEF ReadAllow, Step, At, Alone, Begun
      <3>4. CASE BeginMerge(t)
        BY <3>4, BeginMergeEffect DEF BeginMerge, Step, At, Alone, Begun
      <3>5. CASE LoadCheck(t)
        BY <3>5, LoadCheckEffect DEF LoadCheck, Step, At, Alone, Begun
      <3>6. CASE LoadRead(t)
        BY <3>6, LoadReadEffect DEF LoadRead, Step, At, Alone, Begun
      <3>7. CASE OpenOutput(t)
        BY <3>7, OpenOutputEffect DEF OpenOutput, Step, At, Alone, Begun
      <3> QED
        BY <1>2, <2>2, <3>1, <3>2, <3>3, <3>4, <3>5, <3>6, <3>7, BegunEntered
    <2> QED
      BY <2>1, <2>2
  <1>3. CASE Restart(t)
    BY <1>3, TaskTyped DEF Restart, NewTask, IdleTask, Begun
  <1>4. CASE DnsmasqReread \/ UNCHANGED vars
    BY <1>4 DEF DnsmasqReread, vars, Alone
  <1>5. CASE Crash
    BY <1>5 DEF Crash, IdleTask, Begun
  <1> QED
    BY <1>1, <1>2, <1>3, <1>4, <1>5 DEF Next

\* Nobody else being at work, the end of a write leaves the configuration.
LEMMA CloseOutputWrites ==
  ASSUME Inv, Alone, NEW t \in Tasks, CloseOutput(t)
  PROVE  /\ output' = Whole(Desired)
         /\ Desired' = Desired
         /\ UNCHANGED dns
  <1>1. At(t, "write") /\ task[t].fresh /\ ~task[t].clash
    BY DEF CloseOutput, Step, At, Alone, Begun
  <1>2. output' = Whole(Merged(t))
    BY <1>1 DEF CloseOutput
  <1>3. Merged(t) = Desired
    BY <1>1, ExactFromInv DEF FreshApplyIsExact
  <1>4. UNCHANGED <<rows, rules, file, dns>>
    BY DEF CloseOutput
  <1>5. Desired' = Desired
    BY <1>4 DEF Desired, Enabled, Present, Ruled
  <1> QED
    BY <1>2, <1>3, <1>4, <1>5

-------------------------------------------------------------------------------
(* The pipeline implements Publication                                     *)

LEMMA MergeTyped ==
  ASSUME NEW listed \in SUBSET Domains, NEW deny \in SUBSET Domains, NEW allow
  PROVE  Merge(listed, deny, allow) \in SUBSET Domains
  BY DEF Merge

LEMMA DesiredTyped == TypeOK => Desired \in SUBSET Domains
  <1> SUFFICES ASSUME TypeOK PROVE Desired \in SUBSET Domains
    OBVIOUS
  <1>1. \A l \in Lists : file[l].domains \in SUBSET Domains
    BY DEF TypeOK, File
  <1>2. UNION {file[l].domains : l \in Enabled} \in SUBSET Domains
    BY <1>1 DEF Enabled, Present
  <1>3. Ruled("deny") \in SUBSET Domains
    BY DEF Ruled
  <1> QED
    BY <1>2, <1>3, MergeTyped DEF Desired

LEMMA DesiredTypedNext == TypeOK' => (Desired \in SUBSET Domains)'
  BY DesiredTyped, PTL

LEMMA InitPublication == Init => Publication!Init
  <1> SUFFICES ASSUME Init PROVE Publication!Init
    OBVIOUS
  <1>1. \A l \in Lists : file[l].domains = {}
    BY DEF Init, NoFile
  <1>2. Ruled("deny") = {}
    BY DEF Init, Ruled
  <1>3. UNION {file[l].domains : l \in Enabled} = {}
    BY <1>1 DEF Enabled, Present
  <1>4. Desired = {}
    BY <1>2, <1>3 DEF Desired, Merge
  <1> QED
    BY <1>4 DEF Init, Publication!Init, Publication!Published, Whole

\* The output changes when it is opened and when it is closed only.
LEMMA OutputMoves ==
  ASSUME NEW t \in Tasks, Operation(t) \/ Run(t) \/ Restart(t)
  PROVE  \/ UNCHANGED <<output, dns>>
         \/ OpenOutput(t)
         \/ CloseOutput(t)
  <1>1. CASE Operation(t) \/ Restart(t)
    BY <1>1 DEF Operation, Add, Upload, Preset, Toggle, Edit, Delete, Sync,
       Nightly, AddRule, DeleteRule, Restart
  <1>2. CASE Run(t)
    BY <1>2 DEF Run, HeadOk, HeadFail, Select, Fetch, FetchFail, Refreshed,
       SavePreset, CloseList, SaveFail, Count, CountFail, Unlink, ReadLists,
       ReadDeny, ReadAllow, BeginMerge, LoadCheck, LoadRead, LoadVanished,
       WriteFail, Reload
  <1> QED
    BY <1>1, <1>2

LEMMA StepPublication ==
  Inv /\ Alone /\ Inv' /\ [Next]_vars => [Publication!Next]_(Publication!vars)
  <1> SUFFICES ASSUME Inv, Alone, Inv', [Next]_vars
               PROVE  Publication!Next \/ UNCHANGED Publication!vars
    OBVIOUS
  <1>1. CASE UNCHANGED <<output, dns>>
    <2>1. Desired' \in SUBSET Domains
      <3>1. TypeOK'
        BY DEF Inv
      <3> QED
        BY <3>1, DesiredTypedNext
    <2>2. Publication!Change
      BY <1>1, <2>1 DEF Publication!Change
    <2> QED
      BY <2>2 DEF Publication!Next
  <1>2. ASSUME NEW t \in Tasks, OpenOutput(t) PROVE Publication!Next
    <2>1. output' = NotWhole /\ UNCHANGED <<rows, rules, file, dns>>
      BY <1>2 DEF OpenOutput
    <2>2. Desired' = Desired
      BY <2>1 DEF Desired, Enabled, Present, Ruled
    <2>3. Publication!Open
      BY <2>1, <2>2 DEF Publication!Open, Publication!Cut, NotWhole
    <2> QED
      BY <2>3 DEF Publication!Next
  <1>3. ASSUME NEW t \in Tasks, CloseOutput(t) PROVE Publication!Next
    <2>1. Publication!Publish
      BY <1>3, CloseOutputWrites
      DEF Publication!Publish, Publication!Published, Whole
    <2> QED
      BY <2>1 DEF Publication!Next
  <1>4. CASE DnsmasqReread
    <2>1. dns' = output /\ UNCHANGED <<rows, rules, file, output>>
      BY <1>4 DEF DnsmasqReread
    <2>2. Desired' = Desired
      BY <2>1 DEF Desired, Enabled, Present, Ruled
    <2>3. Publication!Load
      BY <2>1, <2>2 DEF Publication!Load
    <2> QED
      BY <2>3 DEF Publication!Next
  <1>5. CASE Crash \/ UNCHANGED vars
    BY <1>1, <1>5 DEF Crash, vars
  <1> QED
    BY <1>1, <1>2, <1>3, <1>4, <1>5, OutputMoves DEF Next

LEMMA AloneAlways ==
  ASSUME NEW t, Tasks = {t}
  PROVE  Spec => []Alone
  <1>1. Init => Alone
    BY DEF Init, IdleTask, Alone, Begun
  <1>2. Inv /\ Alone /\ [Next]_vars => Alone'
    BY AloneKept DEF Inv
  <1> QED
    BY Invariance, <1>1, <1>2, PTL DEF Spec

\* With one activity at a time, and whatever fails or crashes, the output file
\* is cut or holds what the configuration wants at the moment it is closed, and
\* dnsmasq loads that: every step is a step of Publication, or none of it.
THEOREM PublicationIsImplemented ==
  ASSUME NEW t, Tasks = {t}
  PROVE  Spec => Publication!Safety
  <1>1. Inv /\ Alone /\ Inv' /\ [Next]_vars
          => [Publication!Next]_(Publication!vars)
    BY StepPublication
  <1> QED
    BY Invariance, AloneAlways, InitPublication, <1>1, PTL
    DEF Spec, Publication!Safety

-------------------------------------------------------------------------------
(* The rows and the files of one activity at a time                        *)

\* How an operation starts: the slot was idle, and holds what it made of it.
LEMMA OperationWasIdle ==
  ASSUME NEW t \in Tasks, Operation(t)
  PROVE  At(t, "idle") /\ server = "up"
  BY DEF Operation, Add, Upload, Preset, Toggle, Edit, Delete, Sync, Nightly,
     AddRule, DeleteRule, Start

LEMMA NewHasNoFileKept ==
  ASSUME NEW t, Tasks = {t}
  PROVE  TypeOK /\ ListKnown /\ UnusedUnknown /\ NewHasNoFile /\ [Next]_vars
           => NewHasNoFile'
  <1> SUFFICES ASSUME TypeOK, ListKnown, UnusedUnknown, NewHasNoFile,
                      [Next]_vars, task'[t].pc = "head"
               PROVE  ~file'[task'[t].list].exists
    BY DEF NewHasNoFile, At
  <1>1. CASE Operation(t)
    <2>1. task'[t].job = "bg" /\ task'[t] # task[t]
      BY <1>1, OperationStarts, OperationWasIdle DEF Starts, At
    <2>2. ~Upload(t) /\ ~Edit(t)
      BY <2>1, TaskTyped DEF Upload, Edit, NewTask, IdleTask
    <2>3. Add(t)
      BY <1>1, <2>1, <2>2, TaskTyped DEF Operation, Preset, Toggle, Delete, Sync,
         Nightly, AddRule, DeleteRule, NewTask, IdleTask
    <2>4. PICK l \in Lists :
            /\ rows[l].state = "unused"
            /\ task'[t] = [NewTask("bg", "head") EXCEPT !.list = l, !.todo = {l}]
      BY <2>1, <2>3, TaskTyped DEF Add
    <2>5. task'[t].list = l /\ file[l] = NoFile
      BY <2>4 DEF NewTask, IdleTask, UnusedUnknown
    <2> QED
      BY <2>3, <2>5 DEF Add, NoFile
  <1>2. CASE Run(t)
    <2>1. <<task[t].pc, "head">> \in Moves
      BY <1>2, RunMoves DEF IdleTask
    <2> QED
      BY <2>1 DEF Moves
  <1>3. CASE Restart(t)
    BY <1>3, TaskTyped DEF Restart, NewTask, IdleTask
  <1>4. CASE DnsmasqReread \/ UNCHANGED vars
    BY <1>4 DEF DnsmasqReread, vars, NewHasNoFile, At
  <1>5. CASE Crash
    BY <1>5 DEF Crash, IdleTask
  <1> QED
    BY <1>1, <1>2, <1>3, <1>4, <1>5 DEF Next

\* The configuration is what it was, when no rule has changed, no file has other
\* domains, and the lists that have some are enabled as they were.
LEMMA DesiredStays ==
  ASSUME rules' = rules,
         \A l \in Lists :
           /\ file'[l].domains = file[l].domains
           /\ file[l].domains # {} => (l \in Enabled' <=> l \in Enabled)
  PROVE  Desired' = Desired
  <1> DEFINE Now == UNION {file[l].domains : l \in Enabled}
             Then == UNION {file'[l].domains : l \in Enabled'}
  <1>1. Enabled \subseteq Lists /\ Enabled' \subseteq Lists
    BY DEF Enabled, Present
  <1>2. ASSUME NEW d PROVE d \in Then <=> d \in Now
    <2>1. d \in Now <=> \E l \in Enabled : d \in file[l].domains
      OBVIOUS
    <2>2. d \in Then <=> \E l \in Enabled' : d \in file'[l].domains
      OBVIOUS
    <2> QED
      BY <1>1, <2>1, <2>2
  <1>3. Then = Now
    BY <1>2
  <1>4. Desired = Merge(Now, Ruled("deny"), Ruled("allow"))
    BY DEF Desired
  <1>5. Desired' = Merge(Then, Ruled("deny")', Ruled("allow")')
    BY DEF Desired, Merge
  <1>6. Ruled("deny")' = Ruled("deny") /\ Ruled("allow")' = Ruled("allow")
    BY DEF Ruled
  <1> QED
    BY <1>3, <1>4, <1>5, <1>6

\* What the tables and the files say is untouched by an activity that has
\* nothing to apply, until it has.
LEMMA NotDueKeepsDesired ==
  ASSUME TypeOK, ListKnown, JobAtStep, UnusedUnknown, FilesOpen, Alone,
         NewHasNoFile, NEW t \in Tasks, Operation(t) \/ Run(t),
         ~WillApply(t), ~WillApply(t)'
  PROVE  Desired' = Desired /\ UNCHANGED output
  <1>1. CASE Add(t) \/ Upload(t)
    <2>0. PICK l \in Lists :
            rows[l].state = "unused" /\ \E row : rows' = [rows EXCEPT ![l] = row]
      BY <1>1 DEF Add, Upload
    <2>1. PICK row : rows[l].state = "unused" /\ rows' = [rows EXCEPT ![l] = row]
      BY <2>0
    <2>2. file[l].domains = {}
      BY <2>1 DEF UnusedUnknown, NoFile
    <2>3. \A k \in Lists : k # l => rows'[k] = rows[k]
      BY <2>1 DEF TypeOK
    <2>4. file' = file /\ rules' = rules /\ output' = output
      BY <1>1 DEF Add, Upload
    <2> QED
      BY <2>2, <2>3, <2>4, DesiredStays DEF Enabled, Present
  <1>2. CASE Edit(t)
    <2>1. PICK l \in Lists : rows' = Update(l, [rows[l] EXCEPT !.url = TRUE])
      BY <1>2 DEF Edit
    <2>2. \A k \in Lists : /\ rows'[k].state = rows[k].state
                           /\ rows'[k].enabled = rows[k].enabled
      BY <2>1 DEF Update, TypeOK, Row
    <2>3. file' = file /\ rules' = rules /\ output' = output
      BY <1>2 DEF Edit
    <2> QED
      BY <2>2, <2>3, DesiredStays DEF Enabled, Present
  <1>3. CASE HeadFail(t)
    <2> DEFINE l == task[t].list
    <2>1. l \in Lists /\ ~file[l].exists
      BY <1>3 DEF HeadFail, Step, At, ListKnown, NewHasNoFile
    <2>2. file[l].domains = {}
      BY <2>1 DEF FilesOpen
    <2>3. \A k \in Lists : k # l => rows'[k] = rows[k]
      BY <1>3, <2>1 DEF HeadFail, Update, TypeOK
    <2>4. file' = file /\ rules' = rules /\ output' = output
      BY <1>3 DEF HeadFail
    <2> QED
      BY <2>2, <2>3, <2>4, DesiredStays DEF Enabled, Present
  <1>4. CASE UNCHANGED <<rows, rules, file, output>>
    BY <1>4 DEF Desired, Enabled, Present, Ruled
  <1>5. ~Preset(t) /\ ~Toggle(t) /\ ~Delete(t) /\ ~AddRule(t) /\ ~DeleteRule(t)
    <2>1. task'[t].pc \notin {"save", "queued", "unlink"}
      BY DEF WillApply
    <2> QED
      BY <2>1, TaskTyped DEF Preset, Toggle, Delete, AddRule, DeleteRule,
         NewTask, IdleTask
  <1>6. ~Fetch(t) /\ ~SavePreset(t)
    BY FetchEffect, SavePresetEffect DEF WillApply
  <1>7. ~CloseList(t) /\ ~SaveFail(t) /\ ~Count(t) /\ ~Unlink(t)
    BY DEF CloseList, SaveFail, Count, Unlink, Step, At, WillApply
  <1>8. ~OpenOutput(t) /\ ~CloseOutput(t)
    BY DEF OpenOutput, CloseOutput, Step, At, WillApply, Alone, Begun
  <1>9. CASE Sync(t) \/ Nightly(t) \/ HeadOk(t) \/ Select(t) \/ FetchFail(t)
               \/ Refreshed(t) \/ CountFail(t) \/ ReadLists(t) \/ ReadDeny(t)
               \/ ReadAllow(t)
    BY <1>4, <1>9 DEF Sync, Nightly, HeadOk, Select, FetchFail, Refreshed,
       CountFail, ReadLists, ReadDeny, ReadAllow
  <1>10. CASE BeginMerge(t) \/ LoadCheck(t) \/ LoadRead(t) \/ LoadVanished(t)
                \/ WriteFail(t) \/ Reload(t)
    BY <1>4, <1>10 DEF BeginMerge, LoadCheck, LoadRead, LoadVanished, WriteFail,
       Reload
  <1> QED
    BY <1>1, <1>2, <1>3, <1>5, <1>6, <1>7, <1>8, <1>9, <1>10 DEF Operation, Run

LEMMA CurrentOrDueKept ==
  ASSUME NEW t, Tasks = {t}, Failures \cap {"save", "count", "write"} = {}
  PROVE  Inv /\ Booting /\ Alone /\ NewHasNoFile /\ CurrentOrDue /\ [Next]_vars
           => CurrentOrDue'
  <1> SUFFICES ASSUME Inv, Booting, Alone, NewHasNoFile, CurrentOrDue,
                      [Next]_vars, server' # "down", ~WillApply(t)'
               PROVE  output' = Whole(Desired)'
    BY DEF CurrentOrDue
  <1> USE DEF Inv
  <1>1. CASE Operation(t) \/ Run(t)
    <2>1. server # "down"
      <3>1. CASE server' = server
        BY <3>1
      <3>2. CASE task[t].job = "boot"
        BY <3>2 DEF Booting
      <3> QED
        BY <1>1, <3>1, <3>2, ServerMoves
    <2>2. CASE CloseOutput(t)
      BY <2>2, CloseOutputWrites DEF Whole
    <2>3. CASE ~CloseOutput(t)
      <3>1. ~(WillApply(t) /\ Run(t))
        BY <2>3, WillApplyStays
      <3>2. ~(WillApply(t) /\ Operation(t))
        BY OperationWasIdle DEF WillApply, At, Begun
      <3>3. output = Whole(Desired)
        BY <1>1, <2>1, <3>1, <3>2 DEF CurrentOrDue
      <3>4. Desired' = Desired /\ output' = output
        BY <1>1, <3>1, <3>2, NotDueKeepsDesired
      <3> QED
        BY <3>3, <3>4 DEF Whole
    <2> QED
      BY <2>2, <2>3
  <1>2. CASE Restart(t)
    <2>1. task'[t].pc = "queued"
      BY <1>2, TaskTyped DEF Restart, NewTask, IdleTask
    <2> QED
      BY <2>1 DEF WillApply
  <1>3. CASE DnsmasqReread \/ UNCHANGED vars
    <2>1. UNCHANGED <<rows, rules, file, output, task, server>>
      BY <1>3 DEF DnsmasqReread, vars
    <2>2. ~WillApply(t) /\ Desired' = Desired
      BY <2>1 DEF WillApply, Desired, Enabled, Present, Ruled
    <2> QED
      BY <2>1, <2>2 DEF CurrentOrDue, Whole
  <1>4. ~Crash
    BY DEF Crash
  <1> QED
    BY <1>1, <1>2, <1>3, <1>4 DEF Next

\* With one activity at a time, crashes in the middle of any of them included,
\* the output of a server that is up and at rest is the configuration: if the
\* list files, the count and the output can be written.
THEOREM QuietOutputIsCurrent ==
  ASSUME NEW t, Tasks = {t}, Failures \cap {"save", "count", "write"} = {}
  PROVE  Spec => []QuietIsCurrent
  <1>1. Init => Booting /\ NewHasNoFile /\ CurrentOrDue
    BY DEF Init, IdleTask, Booting, NewHasNoFile, CurrentOrDue, At
  <1>2. Inv /\ Booting /\ [Next]_vars => Booting'
    BY BootingKept DEF Inv
  <1>3. Inv /\ NewHasNoFile /\ [Next]_vars => NewHasNoFile'
    BY NewHasNoFileKept DEF Inv
  <1>4. Inv /\ Booting /\ Alone /\ NewHasNoFile /\ CurrentOrDue /\ [Next]_vars
          => CurrentOrDue'
    BY CurrentOrDueKept
  <1>5. CurrentOrDue => QuietIsCurrent
    BY DEF CurrentOrDue, QuietIsCurrent, Quiet, Idle, WillApply, At, Begun
  <1> QED
    BY Invariance, AloneAlways, <1>1, <1>2, <1>3, <1>4, <1>5, PTL DEF Spec

\* Running, an activity fetches lists it has selected, and saves one of them.
LEMMA RowsHeldKept ==
  ASSUME NEW t, Tasks = {t}
  PROVE  TypeOK /\ ListKnown /\ RowsHeld /\ [Next]_vars => RowsHeld'
  <1> SUFFICES ASSUME TypeOK, ListKnown, RowsHeld, [Next]_vars
               PROVE  /\ task'[t].pc \in Fetching => task'[t].todo \subseteq Present'
                      /\ task'[t].pc \in {"save", "saving", "count"} =>
                           task'[t].list \in Present'
    BY DEF RowsHeld
  <1> USE DEF Fetching
  <1>1. CASE Add(t)
    <2>1. PICK l \in Lists, withUrl \in BOOLEAN :
            /\ rows' = [rows EXCEPT ![l] = NewRow("url", withUrl, 0)]
            /\ task' = IF withUrl
                       THEN [task EXCEPT ![t] = [NewTask("bg", "head") EXCEPT
                                                !.list = l, !.todo = {l}]]
                       ELSE task
      BY <1>1 DEF Add
    <2>2. l \in Present'
      BY <2>1 DEF Present, NewRow, TypeOK
    <2>3. task[t].pc = "idle"
      BY <1>1 DEF Add, Start, At
    <2> QED
      BY <2>1, <2>2, <2>3, TaskTyped DEF NewTask, IdleTask
  <1>2. CASE Upload(t)
    <2>1. PICK l \in Lists :
            /\ rows' = [rows EXCEPT ![l] = NewRow("file", FALSE, 0)]
            /\ task' = [task EXCEPT ![t] = [NewTask("bg", "refresh") EXCEPT
                                              !.list = l, !.todo = {l}]]
      BY <1>2 DEF Upload
    <2>2. l \in Present'
      BY <2>1 DEF Present, NewRow, TypeOK
    <2> QED
      BY <2>1, <2>2, TaskTyped DEF NewTask, IdleTask
  <1>3. CASE Preset(t)
    <2>1. PICK l \in Lists, feed \in Feeds \cup {{}} :
            /\ rows' = [rows EXCEPT ![l] = NewRow("url", TRUE, Cardinality(feed))]
            /\ task' = [task EXCEPT ![t] =
                     [NewTask("preset", IF feed = {} THEN "queued" ELSE "save")
                        EXCEPT !.list = l, !.acc = feed]]
      BY <1>3 DEF Preset
    <2>2. l \in Present'
      BY <2>1 DEF Present, NewRow, TypeOK
    <2> QED
      BY <2>1, <2>2, TaskTyped DEF NewTask, IdleTask
  <1>4. CASE Toggle(t) \/ Delete(t) \/ Sync(t) \/ Nightly(t) \/ AddRule(t)
               \/ DeleteRule(t)
    <2>1. task'[t].pc \in {"queued", "unlink", "select"}
      BY <1>4, TaskTyped DEF Toggle, Delete, Sync, Nightly, AddRule, DeleteRule,
         NewTask, IdleTask
    <2> QED
      BY <2>1
  <1>5. CASE Edit(t)
    BY <1>5 DEF Edit, Start, At
  <1>6. CASE HeadOk(t)
    <2>1. task'[t].todo = task[t].todo /\ task'[t].pc = "refresh"
      BY <1>6, TaskTyped DEF HeadOk, Goto, Task
    <2> QED
      BY <1>6, <2>1 DEF HeadOk, Step, At, RowsHeld, Present
  <1>7. CASE Select(t)
    <2>1. task'[t].todo \subseteq Present /\ task'[t].pc = "refresh"
      BY <1>7, TaskTyped DEF Select, Task
    <2> QED
      BY <1>7, <2>1 DEF Select, Present
  <1>8. CASE Fetch(t)
    <2>1. PICK l \in task[t].todo : /\ task'[t].list = l
                                   /\ task'[t].todo = task[t].todo \ {l}
      BY <1>8, FetchEffect
    <2> QED
      BY <1>8, <2>1 DEF Fetch, Step, At, RowsHeld, Present
  <1>9. CASE FetchFail(t)
    <2>1. PICK l \in task[t].todo :
            task' = IF task[t].job = "bg" THEN [task EXCEPT ![t] = IdleTask]
                    ELSE [task EXCEPT ![t] =
                            [@ EXCEPT !.todo = task[t].todo \ {l}]]
      BY <1>9 DEF FetchFail
    <2>2. \/ task'[t].pc = "idle"
          \/ task'[t].pc = "refresh" /\ task'[t].todo \subseteq task[t].todo
      BY <1>9, <2>1, TaskTyped DEF FetchFail, Step, At, IdleTask, Task
    <2> QED
      BY <1>9, <2>2 DEF FetchFail, Step, At, RowsHeld, Present
  <1>10. CASE SavePreset(t)
    BY <1>10, SavePresetEffect DEF SavePreset, Step, At, RowsHeld, Present
  <1>11. CASE CloseList(t)
    BY <1>11, CloseListEffect DEF CloseList, Step, At, RowsHeld, Present
  <1>12. CASE Count(t)
    <2> DEFINE n == Cardinality(task[t].acc)
               k == task[t].list
    <2>1. rows' = Update(k, [rows[k] EXCEPT !.count = n])
      BY <1>12 DEF Count
    <2> HIDE DEF n
    <2>2. \A l \in Lists : rows'[l].state = rows[l].state
      BY <2>1 DEF Update, TypeOK, Row
    <2>3. /\ task'[t].pc \in {"queued", "refresh"}
          /\ task'[t].todo = task[t].todo
      BY <1>12, TaskTyped DEF Count, Goto, Task
    <2> QED
      BY <1>12, <2>2, <2>3 DEF Count, Step, At, RowsHeld, Present
  <1>13. CASE CountFail(t)
    <2>1. \/ task'[t].pc = "idle"
          \/ task'[t].pc = "refresh" /\ task'[t].todo = task[t].todo
      BY <1>13, TaskTyped DEF CountFail, Goto, IdleTask, Task
    <2> QED
      BY <1>13, <2>1 DEF CountFail, Step, At, RowsHeld, Present
  <1>19. CASE SaveFail(t)
    <2>1. \/ task'[t].pc = "idle"
          \/ task'[t].pc = "refresh" /\ task'[t].todo = task[t].todo
      BY <1>19, SaveFailEffect
    <2> QED
      BY <1>19, <2>1 DEF SaveFail, Step, At, RowsHeld, Present
  <1>14. CASE Run(t) /\ task'[t].pc \notin Fetching
    BY <1>14
  <1>15. CASE Run(t) /\ task'[t].pc \in Fetching
    <2>1. <<task[t].pc, task'[t].pc>> \in Moves
      BY <1>15, RunMoves DEF IdleTask
    <2>2. task[t].pc \in {"head", "select", "refresh", "save", "saving", "count"}
      BY <1>15, <2>1 DEF Moves
    <2>3. ~HeadFail(t) /\ ~Refreshed(t)
      BY <1>15, TaskTyped DEF HeadFail, Refreshed, Goto, IdleTask, Task
    <2> QED
      BY <1>15, <2>2, <2>3, <1>6, <1>7, <1>8, <1>9, <1>10, <1>11, <1>12, <1>13,
         <1>19
      DEF Run, Unlink, ReadLists, ReadDeny, ReadAllow, BeginMerge, LoadCheck,
          LoadRead, LoadVanished, OpenOutput, CloseOutput, WriteFail, Reload,
          Step, At
  <1>16. CASE Restart(t)
    BY <1>16, TaskTyped DEF Restart, NewTask, IdleTask
  <1>17. CASE DnsmasqReread \/ UNCHANGED vars
    BY <1>17 DEF DnsmasqReread, vars, RowsHeld, Present
  <1>18. CASE Crash
    BY <1>18 DEF Crash, IdleTask
  <1> QED
    BY <1>1, <1>2, <1>3, <1>4, <1>5, <1>14, <1>15, <1>16, <1>17, <1>18
    DEF Next, Operation

\* Counting, of the state after a step.
CountingOf(t) ==
  /\ task[t].pc \in {"head", "select", "refresh", "queued"} =>
       task[t].list = NoList \/ Agree(task[t].list)
  /\ At(t, "saving") => file[task[t].list].domains = {}
  /\ task[t].pc \in {"save", "saving"} /\ task[t].job = "preset" =>
       rows[task[t].list].count = Cardinality(task[t].acc)
  /\ At(t, "count") => file[task[t].list].domains = task[t].acc

\* A list that comes to be, counting what it has: nothing.
LEMMA NewListAgrees ==
  ASSUME TypeOK, UnusedUnknown, NEW l \in Lists, rows[l].state = "unused",
         NEW type, NEW url,
         rows' = [rows EXCEPT ![l] = NewRow(type, url, 0)], file' = file
  PROVE  Agree(l)'
  <1>1. file'[l].domains = {}
    BY DEF UnusedUnknown, NoFile
  <1>2. l \in Present' /\ rows'[l].count = 0
    BY DEF TypeOK, NewRow, Present
  <1> QED
    BY <1>1, <1>2, FS_EmptySet DEF Agree

LEMMA OperationCounting ==
  ASSUME TypeOK, UnusedUnknown, NEW t \in Tasks, Operation(t)
  PROVE  CountingOf(t)'
  <1>1. CASE Add(t)
    <2>1. PICK l \in Lists, withUrl \in BOOLEAN :
            /\ rows[l].state = "unused"
            /\ rows' = [rows EXCEPT ![l] = NewRow("url", withUrl, 0)]
            /\ task' = IF withUrl
                       THEN [task EXCEPT ![t] = [NewTask("bg", "head") EXCEPT
                                                !.list = l, !.todo = {l}]]
                       ELSE task
      BY <1>1 DEF Add
    <2>2. file' = file /\ task[t].pc = "idle"
      BY <1>1 DEF Add, Start, At
    <2>3. Agree(l)'
      <3>1. /\ rows[l].state = "unused"
            /\ rows' = [rows EXCEPT ![l] = NewRow("url", withUrl, 0)]
        BY <2>1
      <3> QED
        BY <2>2, <3>1, NewListAgrees
    <2>4. \/ task' = task
          \/ task'[t] = [NewTask("bg", "head") EXCEPT !.list = l, !.todo = {l}]
      BY <2>1, TaskTyped
    <2>5. \/ task'[t].pc = "idle"
          \/ task'[t].pc = "head" /\ task'[t].list = l
      BY <2>2, <2>4 DEF NewTask, IdleTask
    <2> QED
      BY <2>3, <2>5 DEF CountingOf, At, Agree, Present
  <1>2. CASE Upload(t)
    <2>1. PICK l \in Lists :
            /\ rows[l].state = "unused"
            /\ rows' = [rows EXCEPT ![l] = NewRow("file", FALSE, 0)]
            /\ task' = [task EXCEPT ![t] = [NewTask("bg", "refresh") EXCEPT
                                              !.list = l, !.todo = {l}]]
      BY <1>2 DEF Upload
    <2>2. Agree(l)'
      BY <1>2, <2>1, NewListAgrees DEF Upload
    <2>3. task'[t].pc = "refresh" /\ task'[t].list = l
      BY <2>1, TaskTyped DEF NewTask, IdleTask
    <2> QED
      BY <2>2, <2>3 DEF CountingOf, At, Agree, Present
  <1>3. CASE Preset(t)
    <2>1. PICK l \in Lists, feed \in Feeds \cup {{}} :
            /\ rows[l].state = "unused"
            /\ rows' = [rows EXCEPT ![l] = NewRow("url", TRUE, Cardinality(feed))]
            /\ task' = [task EXCEPT ![t] =
                     [NewTask("preset", IF feed = {} THEN "queued" ELSE "save")
                        EXCEPT !.list = l, !.acc = feed]]
      BY <1>3 DEF Preset
    <2>2. CASE feed = {}
      <3>1. Agree(l)'
        BY <1>3, <2>1, <2>2, NewListAgrees, FS_EmptySet DEF Preset
      <3>2. task'[t].pc = "queued" /\ task'[t].list = l
        BY <2>1, <2>2, TaskTyped DEF NewTask, IdleTask
      <3> QED
        BY <3>1, <3>2 DEF CountingOf, At, Agree, Present
    <2>3. CASE feed # {}
      <3> DEFINE n == Cardinality(feed)
      <3>1. /\ task'[t].pc = "save" /\ task'[t].list = l
            /\ task'[t].acc = feed
        BY <2>1, <2>3, TaskTyped DEF NewTask, IdleTask
      <3>2. rows' = [rows EXCEPT ![l] = NewRow("url", TRUE, n)]
        BY <2>1
      <3> HIDE DEF n
      <3>3. rows'[l].count = n
        BY <3>2 DEF TypeOK, NewRow
      <3> QED
        BY <3>1, <3>3 DEF CountingOf, At, n
    <2> QED
      BY <2>2, <2>3
  <1>4. CASE Toggle(t) \/ AddRule(t) \/ DeleteRule(t) \/ Sync(t) \/ Nightly(t)
    <2>1. task'[t].pc \in {"queued", "select"} /\ task'[t].list = NoList
      BY <1>4, TaskTyped DEF Toggle, AddRule, DeleteRule, Sync, Nightly, NewTask,
         IdleTask
    <2> QED
      BY <2>1 DEF CountingOf, At
  <1>5. CASE Delete(t)
    <2>1. task'[t].pc = "unlink"
      BY <1>5, TaskTyped DEF Delete, NewTask, IdleTask
    <2> QED
      BY <2>1 DEF CountingOf, At
  <1>6. CASE Edit(t)
    BY <1>6 DEF Edit, Start, CountingOf, At
  <1> QED
    BY <1>1, <1>2, <1>3, <1>4, <1>5, <1>6 DEF Operation

LEMMA CountingKept ==
  ASSUME NEW t, Tasks = {t}, Failures \cap {"save", "count"} = {}
  PROVE  Inv /\ Alone /\ RowsHeld /\ Counting /\ [Next]_vars => Counting'
  <1> SUFFICES ASSUME Inv, Alone, RowsHeld, CountingOf(t), [Next]_vars
               PROVE  CountingOf(t)'
    BY DEF Counting, CountingOf
  <1> USE DEF Inv
  <1>1. CASE Operation(t)
    BY <1>1, OperationCounting
  <1>2. CASE Run(t) /\ task'[t].pc \in
                         {"head", "select", "refresh", "queued", "saving", "count"}
    <2> DEFINE k == task[t].list
    <2>1. CASE HeadOk(t) \/ Select(t) \/ Refreshed(t)
      <3>1. /\ task'[t].list = task[t].list
            /\ task'[t].pc \in {"refresh", "queued"}
        BY <2>1, TaskTyped DEF HeadOk, Select, Refreshed, Goto, Task
      <3>2. task[t].list = NoList \/ Agree(task[t].list)
        BY <2>1 DEF HeadOk, Select, Refreshed, Step, At, CountingOf
      <3>3. UNCHANGED <<rows, file>>
        BY <2>1 DEF HeadOk, Select, Refreshed
      <3> QED
        BY <3>1, <3>2, <3>3 DEF CountingOf, At, Agree, Present
    <2>2. CASE FetchFail(t)
      <3>1. PICK l \in task[t].todo :
              task' = IF task[t].job = "bg" THEN [task EXCEPT ![t] = IdleTask]
                      ELSE [task EXCEPT ![t] =
                              [@ EXCEPT !.todo = task[t].todo \ {l}]]
        BY <2>2 DEF FetchFail
      <3>2. \/ task'[t].pc = "idle"
            \/ task'[t].pc = "refresh" /\ task'[t].list = task[t].list
        BY <2>2, <3>1, TaskTyped DEF FetchFail, Step, At, IdleTask, Task
      <3>3. task[t].list = NoList \/ Agree(task[t].list)
        BY <2>2 DEF FetchFail, Step, At, CountingOf
      <3>4. UNCHANGED <<rows, file>>
        BY <2>2 DEF FetchFail
      <3> QED
        BY <3>2, <3>3, <3>4 DEF CountingOf, At, Agree, Present
    <2>3. CASE Fetch(t)
      <3>1. PICK l \in task[t].todo :
              /\ OpenList(t, l) /\ task'[t].list = l
              /\ task'[t].pc = "saving" /\ task'[t].job = task[t].job
        BY <2>3, FetchEffect
      <3>2. l \in Lists
        BY TaskTyped DEF Task
      <3>3. file'[l].domains = {}
        BY <3>1, <3>2 DEF OpenList, TypeOK
      <3>4. task[t].job # "preset"
        BY <2>3 DEF Fetch, Step, JobAtStep, JobFits
      <3> QED
        BY <3>1, <3>3, <3>4 DEF CountingOf, At
    <2>4. CASE SavePreset(t)
      <3>1. k \in Lists
        BY <2>4 DEF SavePreset, Step, At, ListKnown
      <3>2. file'[k].domains = {}
        BY <2>4, <3>1 DEF SavePreset, OpenList, TypeOK
      <3>3. rows' = rows /\ (task[t].job = "preset" =>
                                rows[k].count = Cardinality(task[t].acc))
        BY <2>4 DEF SavePreset, Step, At, CountingOf
      <3> QED
        BY <2>4, <3>2, <3>3, SavePresetEffect DEF CountingOf, At
    <2>5. CASE CloseList(t)
      <3>1. k \in Lists /\ k \in Present /\ file[k].domains = {}
        BY <2>5 DEF CloseList, Step, At, ListKnown, RowsHeld, CountingOf
      <3>2. ~task[t].clash
        BY DEF Alone
      <3>3. PICK rest \in SUBSET file[k].domains :
              file' = [file EXCEPT ![k].domains = task[t].acc \cup rest]
        BY <2>5, <3>2 DEF CloseList
      <3>4. file'[k].domains = task[t].acc
        BY <3>1, <3>3 DEF TypeOK, File
      <3>5. rows' = rows /\ k \in Present'
        BY <2>5, <3>1 DEF CloseList, Present
      <3>6. CASE task[t].job = "preset"
        <4>1. rows[k].count = Cardinality(task[t].acc)
          BY <2>5, <3>6 DEF CloseList, Step, At, CountingOf
        <4>2. rows'[k].count = Cardinality(file'[k].domains)
          BY <3>4, <3>5, <4>1
        <4>3. task'[t].pc = "queued" /\ task'[t].list = k
          BY <2>5, <3>6, CloseListEffect
        <4> QED
          BY <3>5, <4>2, <4>3 DEF CountingOf, At, Agree
      <3>7. CASE task[t].job # "preset"
        <4>1. /\ task'[t].pc = "count" /\ task'[t].list = k
              /\ task'[t].acc = task[t].acc
          BY <2>5, <3>7, CloseListEffect
        <4> QED
          BY <3>4, <4>1 DEF CountingOf, At
      <3> QED
        BY <3>6, <3>7
    <2>6. CASE Count(t)
      <3> DEFINE n == Cardinality(task[t].acc)
      <3>1. k \in Lists /\ k \in Present /\ file[k].domains = task[t].acc
        BY <2>6 DEF Count, Step, At, ListKnown, RowsHeld, CountingOf
      <3>2. rows' = Update(k, [rows[k] EXCEPT !.count = n]) /\ file' = file
        BY <2>6 DEF Count
      <3> HIDE DEF n
      <3>3. rows'[k].count = n /\ rows'[k].state = rows[k].state
        BY <3>1, <3>2 DEF Update, Present, TypeOK, Row
      <3>4. rows'[k].count = Cardinality(file'[k].domains)
        BY <3>1, <3>2, <3>3 DEF n
      <3>5. k \in Present'
        BY <3>1, <3>3 DEF Present
      <3>6. task'[t].list = k /\ task'[t].pc \in {"queued", "refresh"}
        BY <2>6, TaskTyped DEF Count, Goto, Task
      <3> QED
        BY <3>4, <3>5, <3>6 DEF CountingOf, At, Agree
    <2>7. CASE Unlink(t)
      <3>1. k \in Lists /\ k \notin Present
        BY <2>7 DEF Unlink, Step, At, ListKnown, UnlinkIsLast, Present
      <3>2. ~file'[k].exists /\ k \notin Present'
        BY <2>7, <3>1 DEF Unlink, TypeOK, NoFile, Present
      <3>3. task'[t].list = k /\ task'[t].pc = "queued"
        BY <2>7, TaskTyped DEF Unlink, Task
      <3> QED
        BY <3>2, <3>3 DEF CountingOf, At, Agree
    <2>8. <<task[t].pc, task'[t].pc>> \in Moves
      BY <1>2, RunMoves DEF IdleTask
    <2>9. task[t].pc \in {"head", "select", "refresh", "save", "saving", "count",
                         "unlink"}
      BY <1>2, <2>8 DEF Moves
    <2>10. ~HeadFail(t) /\ ~SaveFail(t) /\ ~CountFail(t)
      BY <1>2, TaskTyped DEF HeadFail, IdleTask, SaveFail, CountFail
    <2> QED
      BY <1>2, <2>1, <2>2, <2>3, <2>4, <2>5, <2>6, <2>7, <2>9, <2>10
      DEF Run, ReadLists, ReadDeny, ReadAllow, BeginMerge, LoadCheck, LoadRead,
          LoadVanished, OpenOutput, CloseOutput, WriteFail, Reload, Step, At
  <1>3. CASE Run(t) /\ task'[t].pc \notin
                         {"head", "select", "refresh", "queued", "saving", "count"}
    <2>1. task'[t].pc # "save"
      <3>1. task'[t] = IdleTask \/ <<task[t].pc, task'[t].pc>> \in Moves
        BY <1>3, RunMoves
      <3> QED
        BY <3>1 DEF IdleTask, Moves
    <2> QED
      BY <1>3, <2>1 DEF CountingOf, At
  <1>4. CASE Restart(t)
    BY <1>4, TaskTyped DEF Restart, NewTask, IdleTask, CountingOf, At
  <1>5. CASE DnsmasqReread \/ UNCHANGED vars
    BY <1>5 DEF DnsmasqReread, vars, CountingOf, At, Agree, Present
  <1>6. CASE Crash
    BY <1>6 DEF Crash, IdleTask, CountingOf, At
  <1> QED
    BY <1>1, <1>2, <1>3, <1>4, <1>5, <1>6 DEF Next

\* With one activity at a time, when it comes to its apply, domain_count is the
\* number of domains in the file of the list it was about, and a deleted list
\* has left no file: if list files and the count can be written, whatever else
\* fails.
THEOREM CountsMatchFiles ==
  ASSUME NEW t, Tasks = {t}, Failures \cap {"save", "count"} = {}
  PROVE  Spec => []TablesMatchFiles
  <1>1. Init => RowsHeld /\ Counting
    <2>1. Init => \A u \in Tasks : task[u].pc = "idle"
      BY DEF Init, IdleTask
    <2> QED
      BY <2>1 DEF RowsHeld, Fetching, Counting, At
  <1>2. Inv /\ RowsHeld /\ [Next]_vars => RowsHeld'
    BY RowsHeldKept DEF Inv
  <1>3. Inv /\ Alone /\ RowsHeld /\ Counting /\ [Next]_vars => Counting'
    BY CountingKept
  <1>4. Counting => TablesMatchFiles
    BY DEF Counting, TablesMatchFiles, At
  <1> QED
    BY Invariance, AloneAlways, <1>1, <1>2, <1>3, <1>4, PTL DEF Spec

===============================================================================
