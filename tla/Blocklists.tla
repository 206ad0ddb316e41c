------------------------------ MODULE Blocklists ------------------------------
(***************************************************************************)
(* The blocklist pipeline of HexBlock: the blocklists and rules tables,    *)
(* the per-list files, the handlers that change them, and                  *)
(* BlocklistService.apply_all_active, which merges them into the file      *)
(* dnsmasq loads.                                                          *)
(*                                                                         *)
(* An apply reads the database three times and then the list files, so     *)
(* several of them overlap: requests and background tasks interleave at    *)
(* every await of the one event loop ("main"), a delete applies in a       *)
(* thread of the executor, the nightly update in the scheduler's thread.   *)
(* A task slot stands for one such activity, from the request that starts  *)
(* it to the end of the apply it leads to.                                 *)
(***************************************************************************)
EXTENDS Naturals, FiniteSets

CONSTANTS
  Lists,     \* ids of the blocklists table (AUTOINCREMENT: never reused)
  Domains,   \* domain names
  Under,     \* Under[a]: a itself and the domains below it ("." + a)
  Feeds,     \* contents a source may serve or a user may upload, parsed
  Tasks,     \* slots for concurrent activities
  Ops,       \* bound: the operations the environment performs
  MaxOps,    \* bound: how many of them
  Failures,  \* the steps that may fail
  NoList,    \* no list
  Free       \* no task: the event loop is between two callbacks

AllOps == {"add", "upload", "preset", "toggle", "edit", "delete", "sync",
           "nightly", "addRule", "deleteRule", "crash"}

AllFailures == {"head", "fetch", "save", "count", "write", "reload"}

ASSUME DomainsFinite == IsFiniteSet(Domains)
ASSUME UnderAssumption == Under \in [Domains -> SUBSET Domains]
ASSUME FeedsAssumption == Feeds \subseteq SUBSET Domains
ASSUME OpsAssumption == Ops \subseteq AllOps /\ MaxOps \in Nat
ASSUME FailuresAssumption == Failures \subseteq AllFailures
ASSUME NoListAssumption == NoList \notin Lists
ASSUME FreeAssumption == Free \notin Tasks

VARIABLES
  rows,      \* the blocklists table
  rules,     \* the rules table (one row per domain at most)
  file,      \* the files list_<id>.txt
  output,    \* the file dnsmasq_hosts_file
  dns,       \* what dnsmasq has loaded
  hup,       \* dnsmasq has been signalled and has not re-read its files yet
  task,      \* the activities under way
  loop,      \* the task that holds the event loop without awaiting, or Free
  server,    \* the app's process
  sched,     \* the scheduler thread is alive
  applied,   \* history: an apply begun after the last change has written
  ops        \* bound: operations performed so far

vars == <<rows, rules, file, output, dns, hup, task, loop, server, sched,
          applied, ops>>

-------------------------------------------------------------------------------
(* Types *)

Row == [state : {"unused", "present", "deleted"}, enabled : BOOLEAN,
        type : {"url", "file"}, url : BOOLEAN, count : Nat]

NoFile == [exists |-> FALSE, domains |-> {}]

File == [exists : BOOLEAN, domains : SUBSET Domains]

\* The output file: the lines of one apply when it is whole; otherwise cut
\* short, or the lines of two applies over one another.
Output == [whole : BOOLEAN, domains : SUBSET Domains]

NotWhole == [whole |-> FALSE, domains |-> {}]

Whole(S) == [whole |-> TRUE, domains |-> S]

Jobs == {"none", "boot", "bg", "preset", "toggle", "delete", "sync", "nightly",
         "rule"}

\* Steps from the first read of apply_all_active to the end of its write.
Begun == {"deny", "allow", "ready", "load", "read", "write"}

Steps == {"idle", "head", "select", "refresh", "save", "saving", "count",
          "unlink", "queued", "reload"} \cup Begun

Task == [job : Jobs, pc : Steps, list : Lists \cup {NoList},
         todo : SUBSET Lists, ids : SUBSET Lists, deny : SUBSET Domains,
         allow : SUBSET Domains, acc : SUBSET Domains,
         fresh : BOOLEAN,    \* history: nothing changed since the first read
         clash : BOOLEAN]    \* the file being written is not the task's alone:
                             \* another opened (the output) or removed it

TypeOK ==
  /\ rows \in [Lists -> Row]
  /\ rules \in [Domains -> {"none", "allow", "deny"}]
  /\ file \in [Lists -> File]
  /\ output \in Output
  /\ dns \in Output
  /\ hup \in BOOLEAN
  /\ task \in [Tasks -> Task]
  /\ loop \in Tasks \cup {Free}
  /\ server \in {"down", "boot", "up"}
  /\ sched \in BOOLEAN
  /\ applied \in BOOLEAN
  /\ ops \in 0..MaxOps

-------------------------------------------------------------------------------
(* What the output should hold *)

Present == {l \in Lists : rows[l].state = "present"}

Enabled == {l \in Present : rows[l].enabled}

Ruled(kind) == {d \in Domains : rules[d] = kind}

\* The merge of apply_all_active: the lists' domains and the deny rules,
\* without the allowed domains and what is below them.
Merge(listed, deny, allow) ==
  {d \in listed \cup deny : \A a \in allow : d \notin Under[a]}

Desired ==
  Merge(UNION {file[l].domains : l \in Enabled}, Ruled("deny"), Ruled("allow"))

-------------------------------------------------------------------------------
(* Task slots and the event loop *)

IdleTask == [job |-> "none", pc |-> "idle", list |-> NoList, todo |-> {},
             ids |-> {}, deny |-> {}, allow |-> {}, acc |-> {},
             fresh |-> FALSE, clash |-> FALSE]

At(t, pc) == task[t].pc = pc

\* The nightly update has a thread of its own; a delete hands its apply to a
\* thread of the executor; everything else runs on the event loop.
OnMain(t) ==
  /\ task[t].job # "nightly"
  /\ task[t].job = "delete" => At(t, "unlink")

\* A task of the event loop takes a step only between the callbacks of others.
Step(t, pc) ==
  /\ At(t, pc)
  /\ OnMain(t) => loop \in {Free, t}

\* From here on the task does not await: it keeps the event loop, if it has it.
Hold(t) == loop' = IF OnMain(t) THEN t ELSE loop

\* A slot free for a new operation of a server that accepts requests.
Start(op, t) ==
  /\ op \in Ops
  /\ ops < MaxOps
  /\ ops' = ops + 1
  /\ server = "up"
  /\ At(t, "idle")
  /\ loop = Free

NewRow(type, url, count) ==
  [state |-> "present", enabled |-> TRUE, type |-> type, url |-> url,
   count |-> count]

NewTask(job, pc) == [IdleTask EXCEPT !.job = job, !.pc = pc]

Goto(t, pc) == [task EXCEPT ![t] = [@ EXCEPT !.pc = pc]]

\* The configuration changed: no apply under way is up to date any more.
Stale(tasks) == [u \in Tasks |-> [tasks[u] EXCEPT !.fresh = FALSE]]

\* The task ends, and gives the event loop back if it held it.
Finish(t) ==
  /\ task' = [task EXCEPT ![t] = IdleTask]
  /\ loop' = IF loop = t THEN Free ELSE loop

-------------------------------------------------------------------------------
(* The operations of the API.  Each starts an activity in an idle slot.    *)

\* POST /blocklists inserts the row, then looks whether the source answers.
Add(t) ==
  /\ Start("add", t)
  /\ \E l \in Lists, withUrl \in BOOLEAN :
       /\ rows[l].state = "unused"
       /\ rows' = [rows EXCEPT ![l] = NewRow("url", withUrl, 0)]
       /\ task' = IF withUrl
                  THEN [task EXCEPT ![t] = [NewTask("bg", "head") EXCEPT
                                              !.list = l, !.todo = {l}]]
                  ELSE task
  /\ UNCHANGED <<rules, file, output, dns, hup, loop, server, sched, applied>>

\* POST /blocklists/upload inserts the row and parses in the background.
Upload(t) ==
  /\ Start("upload", t)
  /\ \E l \in Lists :
       /\ rows[l].state = "unused"
       /\ rows' = [rows EXCEPT ![l] = NewRow("file", FALSE, 0)]
       /\ task' = [task EXCEPT ![t] = [NewTask("bg", "refresh") EXCEPT
                                         !.list = l, !.todo = {l}]]
  /\ UNCHANGED <<rules, file, output, dns, hup, loop, server, sched, applied>>

\* A preset chosen in the onboarding is fetched before its row is inserted.
Preset(t) ==
  /\ Start("preset", t)
  /\ \E l \in Lists, feed \in Feeds \cup {{}} :
       /\ feed = {} => {} \in Feeds \/ "fetch" \in Failures
       /\ rows[l].state = "unused"
       /\ rows' = [rows EXCEPT ![l] = NewRow("url", TRUE, Cardinality(feed))]
       /\ task' = [task EXCEPT ![t] =
                     [NewTask("preset", IF feed = {} THEN "queued" ELSE "save")
                        EXCEPT !.list = l, !.acc = feed]]
  /\ UNCHANGED <<rules, file, output, dns, hup, loop, server, sched, applied>>

\* An UPDATE or a DELETE of a row that is gone changes nothing.
Update(l, row) ==
  IF rows[l].state = "present" THEN [rows EXCEPT ![l] = row] ELSE rows

Toggle(t) ==
  /\ Start("toggle", t)
  /\ \E l \in Lists, enabled \in BOOLEAN :
       /\ rows[l].state # "unused"
       /\ rows' = Update(l, [rows[l] EXCEPT !.enabled = enabled])
  /\ task' = [Stale(task) EXCEPT ![t] = NewTask("toggle", "queued")]
  /\ applied' = FALSE
  /\ UNCHANGED <<rules, file, output, dns, hup, loop, server, sched>>

\* A new name, category and URL; the list is not fetched before the next sync.
Edit(t) ==
  /\ Start("edit", t)
  /\ \E l \in Lists :
       /\ rows[l].state # "unused"
       /\ rows' = Update(l, [rows[l] EXCEPT !.url = TRUE])
  /\ UNCHANGED <<rules, file, output, dns, hup, task, loop, server, sched,
                 applied>>

\* Mutant: the file of a deleted list is left behind.
DeleteKeepsFile(t) ==
  /\ Start("delete", t)
  /\ \E l \in Lists :
       /\ rows[l].state # "unused"
       /\ rows' = Update(l, [rows[l] EXCEPT !.state = "deleted"])
       /\ task' = [Stale(task) EXCEPT
                     ![t] = [NewTask("delete", "queued") EXCEPT !.list = l]]
  /\ applied' = FALSE
  /\ UNCHANGED <<rules, file, output, dns, hup, loop, server, sched>>

Delete(t) ==
  /\ Start("delete", t)
  /\ \E l \in Lists :
       /\ rows[l].state # "unused"
       /\ rows' = Update(l, [rows[l] EXCEPT !.state = "deleted"])
       /\ task' = [Stale(task) EXCEPT
                     ![t] = [NewTask("delete", "unlink") EXCEPT !.list = l]]
  /\ applied' = FALSE
  /\ UNCHANGED <<rules, file, output, dns, hup, loop, server, sched>>

Sync(t) ==
  /\ Start("sync", t)
  /\ task' = [task EXCEPT ![t] = NewTask("sync", "select")]
  /\ UNCHANGED <<rows, rules, file, output, dns, hup, loop, server, sched,
                 applied>>

\* The scheduler's thread runs one job at a time, and none once it has died.
Nightly(t) ==
  /\ Start("nightly", t)
  /\ sched
  /\ \A u \in Tasks : task[u].job # "nightly"
  /\ task' = [task EXCEPT ![t] = NewTask("nightly", "select")]
  /\ UNCHANGED <<rows, rules, file, output, dns, hup, loop, server, sched,
                 applied>>

\* Mutant: a new rule waits for the next apply.
AddRuleUnapplied(t) ==
  /\ Start("addRule", t)
  /\ \E d \in Domains, kind \in {"allow", "deny"} :
       /\ rules[d] = "none"
       /\ rules' = [rules EXCEPT ![d] = kind]
  /\ task' = Stale(task)
  /\ applied' = FALSE
  /\ UNCHANGED <<rows, file, output, dns, hup, loop, server, sched>>

\* rules.domain is UNIQUE: a second rule for a domain is refused.
AddRule(t) ==
  /\ Start("addRule", t)
  /\ \E d \in Domains, kind \in {"allow", "deny"} :
       /\ rules[d] = "none"
       /\ rules' = [rules EXCEPT ![d] = kind]
  /\ task' = [Stale(task) EXCEPT ![t] = NewTask("rule", "queued")]
  /\ applied' = FALSE
  /\ UNCHANGED <<rows, file, output, dns, hup, loop, server, sched>>

\* Mutant: a deleted rule holds until the next apply.
DeleteRuleUnapplied(t) ==
  /\ Start("deleteRule", t)
  /\ \E d \in Domains : rules' = [rules EXCEPT ![d] = "none"]
  /\ task' = Stale(task)
  /\ applied' = FALSE
  /\ UNCHANGED <<rows, file, output, dns, hup, loop, server, sched>>

DeleteRule(t) ==
  /\ Start("deleteRule", t)
  /\ \E d \in Domains : rules' = [rules EXCEPT ![d] = "none"]
  /\ task' = [Stale(task) EXCEPT ![t] = NewTask("rule", "queued")]
  /\ applied' = FALSE
  /\ UNCHANGED <<rows, file, output, dns, hup, loop, server, sched>>

-------------------------------------------------------------------------------
(* Fetching a list and saving it                                           *)

\* The source of a new list answers: the list is fetched in the background.
HeadOk(t) ==
  /\ Step(t, "head")
  /\ task' = Goto(t, "refresh")
  /\ UNCHANGED <<rows, rules, file, output, dns, hup, loop, server, sched,
                 applied, ops>>

\* It does not: the row that was committed before the check is deleted, the
\* request refused, and nothing applied.
HeadFail(t) ==
  /\ "head" \in Failures
  /\ Step(t, "head")
  /\ LET l == task[t].list IN
       /\ rows' = Update(l, [rows[l] EXCEPT !.state = "deleted"])
       /\ applied' = (applied /\ ~file[l].exists)
       /\ task' = [(IF file[l].exists THEN Stale(task) ELSE task)
                     EXCEPT ![t] = IdleTask]
  /\ UNCHANGED <<rules, file, output, dns, hup, loop, server, sched, ops>>

\* update_all reads which lists to fetch once, before the first fetch.
Select(t) ==
  /\ Step(t, "select")
  /\ task' = [task EXCEPT ![t] = [@ EXCEPT !.pc = "refresh",
                !.todo = {l \in Present : rows[l].type = "url" /\ rows[l].url}]]
  /\ UNCHANGED <<rows, rules, file, output, dns, hup, loop, server, sched,
                 applied, ops>>

\* save_blocklist_file opens the file, which cuts it to nothing ...
OpenList(t, l) ==
  /\ file' = [file EXCEPT ![l] = [exists |-> TRUE, domains |-> {}]]
  /\ applied' = FALSE
  /\ Hold(t)

\* A source answers (an upload always does), and saving begins at once.
Fetch(t) ==
  /\ Step(t, "refresh")
  /\ \E l \in task[t].todo, feed \in Feeds :
       /\ OpenList(t, l)
       /\ task' = [Stale(task) EXCEPT ![t] =
                     [@ EXCEPT !.pc = "saving", !.list = l,
                               !.todo = task[t].todo \ {l}, !.acc = feed]]
  /\ UNCHANGED <<rows, rules, output, dns, hup, server, sched, ops>>

\* A source does not answer.  update_all goes on to the next list, the
\* background fetch of a new list gives up and applies nothing.
FetchFail(t) ==
  /\ "fetch" \in Failures
  /\ Step(t, "refresh")
  /\ \E l \in task[t].todo :
       /\ task[t].job = "bg" => rows[l].type = "url"
       /\ task' = IF task[t].job = "bg" THEN [task EXCEPT ![t] = IdleTask]
                  ELSE [task EXCEPT ![t] =
                          [@ EXCEPT !.todo = task[t].todo \ {l}]]
  /\ UNCHANGED <<rows, rules, file, output, dns, hup, loop, server, sched,
                 applied, ops>>

\* update_all has been through all its lists.
Refreshed(t) ==
  /\ Step(t, "refresh")
  /\ task[t].todo = {}
  /\ task' = Goto(t, "queued")
  /\ UNCHANGED <<rows, rules, file, output, dns, hup, loop, server, sched,
                 applied, ops>>

\* A preset list has its row; its file is opened.
SavePreset(t) ==
  /\ Step(t, "save")
  /\ OpenList(t, task[t].list)
  /\ task' = [Stale(task) EXCEPT ![t] = [@ EXCEPT !.pc = "saving"]]
  /\ UNCHANGED <<rows, rules, output, dns, hup, server, sched, ops>>

\* ... and the write puts the domains at its beginning: what another thread
\* wrote since it was opened may stand behind them.  A file removed meanwhile
\* stays removed: the write goes to the old inode.
CloseList(t) ==
  /\ Step(t, "saving")
  /\ IF task[t].clash THEN UNCHANGED file
     ELSE \E rest \in SUBSET file[task[t].list].domains :
            file' = [file EXCEPT ![task[t].list].domains =
                                    task[t].acc \cup rest]
  /\ task' = [Stale(task) EXCEPT ![t] = [@ EXCEPT
                !.pc = IF task[t].job = "preset" THEN "queued" ELSE "count",
                !.clash = FALSE]]
  /\ loop' = IF loop = t THEN Free ELSE loop
  /\ applied' = FALSE
  /\ UNCHANGED <<rows, rules, output, dns, hup, server, sched, ops>>

\* The write fails on the way (the disk is full) and leaves a part.  update_all
\* goes on to the next list; a new list keeps its row and is not applied.
SaveFail(t) ==
  /\ "save" \in Failures
  /\ Step(t, "saving")
  /\ IF task[t].clash THEN UNCHANGED file
     ELSE \E part \in SUBSET (file[task[t].list].domains \cup task[t].acc) :
            file' = [file EXCEPT ![task[t].list].domains = part]
  /\ task' = [Stale(task) EXCEPT ![t] =
                IF task[t].job \in {"bg", "preset"} THEN IdleTask
                ELSE [@ EXCEPT !.pc = "refresh", !.clash = FALSE]]
  /\ loop' = IF loop = t THEN Free ELSE loop
  /\ applied' = FALSE
  /\ UNCHANGED <<rows, rules, output, dns, hup, server, sched, ops>>

\* Mutant: a list fetched in the background is saved and counted, not applied.
CountEnds(t) ==
  /\ Step(t, "count")
  /\ LET l == task[t].list IN
       rows' = Update(l, [rows[l] EXCEPT !.count = Cardinality(task[t].acc)])
  /\ task' = IF task[t].job = "bg" THEN [task EXCEPT ![t] = IdleTask]
             ELSE Goto(t, "refresh")
  /\ UNCHANGED <<rules, file, output, dns, hup, loop, server, sched, applied,
                 ops>>

\* The row gets the new domain_count; a new list is then applied, update_all
\* goes on.  A row deleted meanwhile does not come back, but its file has.
Count(t) ==
  /\ Step(t, "count")
  /\ LET l == task[t].list IN
       rows' = Update(l, [rows[l] EXCEPT !.count = Cardinality(task[t].acc)])
  /\ task' = Goto(t, IF task[t].job = "bg" THEN "queued" ELSE "refresh")
  /\ UNCHANGED <<rules, file, output, dns, hup, loop, server, sched, applied,
                 ops>>

\* The UPDATE fails (the database is locked): a new list is never applied.
CountFail(t) ==
  /\ "count" \in Failures
  /\ Step(t, "count")
  /\ task' = IF task[t].job = "bg" THEN [task EXCEPT ![t] = IdleTask]
             ELSE Goto(t, "refresh")
  /\ UNCHANGED <<rows, rules, file, output, dns, hup, loop, server, sched,
                 applied, ops>>

\* delete: the file goes, and the apply to a thread of the executor.
Unlink(t) ==
  /\ Step(t, "unlink")
  /\ LET l == task[t].list IN
       /\ file' = [file EXCEPT ![l] = NoFile]
       /\ task' = [u \in Tasks |->
                     IF u = t THEN [task[u] EXCEPT !.pc = "queued"]
                     ELSE IF At(u, "saving") /\ task[u].list = l
                          THEN [task[u] EXCEPT !.clash = TRUE] ELSE task[u]]
  /\ UNCHANGED <<rows, rules, output, dns, hup, loop, server, sched, applied,
                 ops>>

-------------------------------------------------------------------------------
(* apply_all_active                                                        *)

\* Mutant: disabled lists are merged too.
ReadAllLists(t) ==
  /\ Step(t, "queued")
  /\ task' = [task EXCEPT ![t] = [@ EXCEPT !.pc = "deny", !.ids = Present,
                                              !.fresh = TRUE]]
  /\ UNCHANGED <<rows, rules, file, output, dns, hup, loop, server, sched,
                 applied, ops>>

\* The enabled lists are read, then the deny rules, then, on a connection of
\* its own, the allow rules: three moments, with other tasks between them.
ReadLists(t) ==
  /\ Step(t, "queued")
  /\ task' = [task EXCEPT ![t] = [@ EXCEPT !.pc = "deny", !.ids = Enabled,
                                              !.fresh = TRUE]]
  /\ UNCHANGED <<rows, rules, file, output, dns, hup, loop, server, sched,
                 applied, ops>>

ReadDeny(t) ==
  /\ Step(t, "deny")
  /\ task' = [task EXCEPT ![t] = [@ EXCEPT !.pc = "allow",
                                              !.deny = Ruled("deny")]]
  /\ UNCHANGED <<rows, rules, file, output, dns, hup, loop, server, sched,
                 applied, ops>>

ReadAllow(t) ==
  /\ Step(t, "allow")
  /\ task' = [task EXCEPT ![t] = [@ EXCEPT !.pc = "ready",
                                              !.allow = Ruled("allow")]]
  /\ UNCHANGED <<rows, rules, file, output, dns, hup, loop, server, sched,
                 applied, ops>>

\* Mutant: the output is written with awaits in between.
BeginMergeAwaiting(t) ==
  /\ Step(t, "ready")
  /\ task' = [task EXCEPT ![t] = [@ EXCEPT !.pc = "load", !.todo = task[t].ids,
                                              !.acc = {}]]
  /\ UNCHANGED <<rows, rules, file, output, dns, hup, loop, server, sched,
                 applied, ops>>

\* From the merge to the reload nothing awaits.
BeginMerge(t) ==
  /\ Step(t, "ready")
  /\ task' = [task EXCEPT ![t] = [@ EXCEPT !.pc = "load", !.todo = task[t].ids,
                                              !.acc = {}]]
  /\ Hold(t)
  /\ UNCHANGED <<rows, rules, file, output, dns, hup, server, sched, applied,
                 ops>>

\* Mutant: a list is read without a look whether it has a file.
LoadUnchecked(t) ==
  /\ Step(t, "load")
  /\ \E l \in task[t].todo :
       task' = [task EXCEPT ![t] = [@ EXCEPT
                  !.pc = "read", !.todo = task[t].todo \ {l}, !.list = l]]
  /\ UNCHANGED <<rows, rules, file, output, dns, hup, loop, server, sched,
                 applied, ops>>

\* load_blocklist_file: a list without a file has no domains ...
LoadCheck(t) ==
  /\ Step(t, "load")
  /\ \E l \in task[t].todo :
       task' = [task EXCEPT ![t] = [@ EXCEPT
                  !.pc = IF file[l].exists THEN "read" ELSE "load",
                  !.todo = task[t].todo \ {l}, !.list = l]]
  /\ UNCHANGED <<rows, rules, file, output, dns, hup, loop, server, sched,
                 applied, ops>>

\* ... and one that has a file is read next.
LoadRead(t) ==
  /\ Step(t, "read")
  /\ file[task[t].list].exists
  /\ task' = [task EXCEPT ![t] = [@ EXCEPT !.pc = "load",
                !.acc = task[t].acc \cup file[task[t].list].domains]]
  /\ UNCHANGED <<rows, rules, file, output, dns, hup, loop, server, sched,
                 applied, ops>>

\* An exception leaves apply_all_active, and with it whatever awaits it: a
\* request fails, the scheduler's thread dies, a start of the server fails.
Abort(t) ==
  /\ Finish(t)
  /\ sched' = (sched /\ task[t].job # "nightly")
  /\ server' = IF task[t].job = "boot" THEN "down" ELSE server

\* The file went between the check and the read.
LoadVanished(t) ==
  /\ Step(t, "read")
  /\ ~file[task[t].list].exists
  /\ Abort(t)
  /\ UNCHANGED <<rows, rules, file, output, dns, hup, applied, ops>>

\* Opening the output cuts it to nothing.
OpenOutput(t) ==
  /\ Step(t, "load")
  /\ task[t].todo = {}
  /\ output' = NotWhole
  /\ LET others == {u \in Tasks : At(u, "write")} IN
       task' = [u \in Tasks |->
                  IF u = t THEN [task[u] EXCEPT !.pc = "write",
                                                !.clash = others # {}]
                  ELSE IF u \in others THEN [task[u] EXCEPT !.clash = TRUE]
                  ELSE task[u]]
  /\ UNCHANGED <<rows, rules, file, dns, hup, loop, server, sched, applied,
                 ops>>

\* Mutant: the deny rules are left out of the merge.
MergedWithoutDeny(t) == Merge(task[t].acc, {}, task[t].allow)

Merged(t) == Merge(task[t].acc, task[t].deny, task[t].allow)

\* The lines are on disk when the file is closed.  When another thread had it
\* open too, what remains is one of the two, or neither.
CloseOutput(t) ==
  /\ Step(t, "write")
  /\ \/ output' = Whole(Merged(t))
     \/ task[t].clash /\ output' = NotWhole
  /\ task' = [task EXCEPT ![t] = [@ EXCEPT !.pc = "reload", !.clash = FALSE]]
  /\ applied' = (applied \/ task[t].fresh)
  /\ UNCHANGED <<rows, rules, file, dns, hup, loop, server, sched, ops>>

\* Writing fails (the disk is full): the output stays cut.
WriteFail(t) ==
  /\ "write" \in Failures
  /\ Step(t, "write")
  /\ Abort(t)
  /\ UNCHANGED <<rows, rules, file, output, dns, hup, applied, ops>>

\* Mutant: dnsmasq is not signalled.
ReloadSilent(t) ==
  /\ Step(t, "reload")
  /\ Finish(t)
  /\ IF task[t].job = "boot" THEN server' = "up" /\ sched' = TRUE
     ELSE UNCHANGED <<server, sched>>
  /\ UNCHANGED <<rows, rules, file, output, dns, hup, applied, ops>>

\* dnsmasq is signalled, which may fail unnoticed, and the activity is over:
\* the request is answered, or the server starts to serve.
Reload(t) ==
  /\ Step(t, "reload")
  /\ hup' \in {TRUE} \cup (IF "reload" \in Failures THEN {hup} ELSE {})
  /\ Finish(t)
  /\ IF task[t].job = "boot" THEN server' = "up" /\ sched' = TRUE
     ELSE UNCHANGED <<server, sched>>
  /\ UNCHANGED <<rows, rules, file, output, dns, applied, ops>>

-------------------------------------------------------------------------------
(* The process and dnsmasq                                                 *)

\* SIGHUP makes dnsmasq read what the output holds at that moment.
DnsmasqReread ==
  /\ hup
  /\ hup' = FALSE
  /\ dns' = output
  /\ UNCHANGED <<rows, rules, file, output, task, loop, server, sched, applied,
                 ops>>

\* The process dies, with all that was in memory.
Crash ==
  /\ "crash" \in Ops
  /\ ops < MaxOps
  /\ ops' = ops + 1
  /\ server' = "down"
  /\ sched' = FALSE
  /\ task' = [t \in Tasks |-> IdleTask]
  /\ loop' = Free
  /\ UNCHANGED <<rows, rules, file, output, dns, hup, applied>>

\* Mutant: the server starts without an apply.
RestartUnapplied(t) ==
  /\ server = "down"
  /\ server' = "up"
  /\ sched' = TRUE
  /\ UNCHANGED <<rows, rules, file, output, dns, hup, task, loop, applied, ops>>

\* The container is restarted, and lifespan applies before it serves.
Restart(t) ==
  /\ server = "down"
  /\ server' = "boot"
  /\ task' = [task EXCEPT ![t] = NewTask("boot", "queued")]
  /\ UNCHANGED <<rows, rules, file, output, dns, hup, loop, sched, applied,
                 ops>>

Init ==
  /\ rows = [l \in Lists |->
               [NewRow("url", FALSE, 0) EXCEPT !.state = "unused"]]
  /\ rules = [d \in Domains |-> "none"]
  /\ file = [l \in Lists |-> NoFile]
  /\ output = Whole({})
  /\ dns = Whole({})
  /\ hup = FALSE
  /\ task = [t \in Tasks |-> IdleTask]
  /\ loop = Free
  /\ server = "down"
  /\ sched = FALSE
  /\ applied = FALSE
  /\ ops = 0

Operation(t) ==
  \/ Add(t) \/ Upload(t) \/ Preset(t) \/ Toggle(t) \/ Edit(t) \/ Delete(t)
  \/ Sync(t) \/ Nightly(t) \/ AddRule(t) \/ DeleteRule(t)

Run(t) ==
  \/ HeadOk(t) \/ HeadFail(t) \/ Select(t) \/ Fetch(t) \/ FetchFail(t)
  \/ Refreshed(t) \/ SavePreset(t) \/ CloseList(t) \/ SaveFail(t)
  \/ Count(t) \/ CountFail(t)
  \/ Unlink(t) \/ ReadLists(t) \/ ReadDeny(t) \/ ReadAllow(t) \/ BeginMerge(t)
  \/ LoadCheck(t) \/ LoadRead(t) \/ LoadVanished(t) \/ OpenOutput(t)
  \/ CloseOutput(t) \/ WriteFail(t) \/ Reload(t)

Next ==
  \/ \E t \in Tasks : Operation(t) \/ Run(t) \/ Restart(t)
  \/ DnsmasqReread
  \/ Crash

Spec == Init /\ [][Next]_vars

\* The event loop and the threads run what is ready, every request to a source
\* ends (its timeout is 60 s), the container restarts, dnsmasq gets its signal.
\* Nobody has to start an operation.
Fairness ==
  /\ \A t \in Tasks : WF_vars(Run(t))
  /\ WF_vars(\E t \in Tasks : Restart(t))
  /\ WF_vars(DnsmasqReread)

FairSpec == Spec /\ Fairness

-------------------------------------------------------------------------------
(* Properties                                                              *)

Idle == \A t \in Tasks : At(t, "idle")

Quiet == server = "up" /\ Idle

\* A file is open: that of a list, or the output.
Writing(t) == At(t, "saving") \/ At(t, "write")

\* The activity will read the configuration from now on, or has done so since
\* the last change, and will write what it read.
WillApply(t) ==
  \/ task[t].pc \in {"save", "saving", "count", "unlink", "queued"}
  \/ task[t].job \in {"sync", "nightly"} /\ task[t].pc \in {"select", "refresh"}
  \/ task[t].pc \in Begun /\ task[t].fresh

\* No change is forgotten: whatever the interleaving of requests, background
\* fetches, deletes and nightly updates, a server that is up has written an
\* output begun after the last change, or some activity is still bound to.
\* (Every handler that changes a table or a list file leads to an apply.)
NoChangeForgotten ==
  server = "up" => applied \/ \E t \in Tasks : WillApply(t)

\* What an apply is about to write is exactly the configuration, although it
\* read it in several steps, unless something changed meanwhile: no mixture of
\* moments can come out of apply_all_active unnoticed by a later apply.
FreshApplyIsExact ==
  \A t \in Tasks : At(t, "write") /\ task[t].fresh => Merged(t) = Desired

\* load_blocklist_file checks that a file exists and then reads it.  Between
\* the two a delete may remove it under an apply in another thread, but never
\* under one of the event loop, nor under the only one that is up to date.
ReadIsSafe ==
  \A t \in Tasks :
    At(t, "read") /\ (OnMain(t) \/ task[t].fresh) => file[task[t].list].exists

\* apply_all_active and save_blocklist_file truncate a file, write it and close
\* it without a lock.  Two tasks of the event loop never have a file open at
\* once, whatever requests and background fetches overlap: only the threads of
\* a delete and of the nightly update can get in the way of a write.
OneWriterOnLoop ==
  \A t, u \in Tasks :
    t # u /\ OnMain(t) /\ OnMain(u) => ~(Writing(t) /\ Writing(u))

\* One activity at a time, and the output is the configuration whenever the
\* server is up and at rest, crashes in the middle of anything included.
QuietIsCurrent == Quiet => output = Whole(Desired)

\* The row of a list and its file tell the same.
Agree(l) ==
  IF l \in Present THEN rows[l].count = Cardinality(file[l].domains)
  ELSE ~file[l].exists

\* One activity at a time, and when it comes to its apply, the row and the file
\* of the list it was about agree: domain_count, which the API shows, is the
\* number of domains in the file, and a deleted list has left none.  What
\* failed or crashed before it does not matter.
TablesMatchFiles ==
  \A t \in Tasks : At(t, "queued") /\ task[t].list # NoList =>
    Agree(task[t].list)

\* When the operations stop, all activities end, and dnsmasq has the output.
Settles == <>[](Quiet /\ dns = output)

\* Every change is followed by an output that was begun after it.
ChangeIsApplied == ~applied ~> applied

\* One activity at a time, and dnsmasq ends up with the configuration.
Converges == <>[](dns = Whole(Desired))

\* One activity at a time, and the pipeline does what Publication promises: an
\* output is the configuration of the moment it is written, or it is cut.
Publication == INSTANCE Publication
  WITH want <- Desired, out <- output, dns <- dns, Domains <- Domains

ImplementsPublication == Publication!Spec

-------------------------------------------------------------------------------
(* Why it holds: the parts of the inductive invariant                      *)

\* What an activity does at a step is decided by what started it.
JobFits(t) ==
  /\ At(t, "head") => task[t].job = "bg"
  /\ At(t, "select") => task[t].job \in {"sync", "nightly"}
  /\ At(t, "refresh") \/ At(t, "count") =>
       task[t].job \in {"bg", "sync", "nightly"}
  /\ At(t, "save") => task[t].job = "preset"
  /\ At(t, "unlink") => task[t].job = "delete"
  /\ At(t, "saving") => task[t].job \in {"bg", "sync", "nightly", "preset"}

JobAtStep == \A t \in Tasks : JobFits(t)

\* The event loop stays with the task that does not await.
LoopHeld ==
  \A t \in Tasks :
    OnMain(t) /\ task[t].pc \in {"saving", "load", "read", "write", "reload"} =>
      loop = t

\* A list that has no row yet has no file, and no task knows of it.
UnusedUnknown ==
  \A l \in Lists : rows[l].state = "unused" =>
    /\ file[l] = NoFile
    /\ \A t \in Tasks :
         /\ l \notin task[t].todo \cup task[t].ids
         /\ task[t].list # l

\* A file about to be unlinked has lost its row, for good.
UnlinkIsLast ==
  \A t \in Tasks : At(t, "unlink") => rows[task[t].list].state = "deleted"

\* The clash flag speaks of the file that is open, and an open list file that
\* was not removed exists; a file that does not exist has no domains.
FilesOpen ==
  /\ \A l \in Lists : ~file[l].exists => file[l].domains = {}
  /\ \A t \in Tasks :
       /\ task[t].clash => At(t, "saving") \/ At(t, "write")
       /\ At(t, "saving") /\ ~task[t].clash => file[task[t].list].exists

\* The lists whose files an apply has merged so far.
Loaded(t) ==
  task[t].ids \ (task[t].todo \cup IF At(t, "read") THEN {task[t].list} ELSE {})

\* What an apply has read is what the tables and the files hold, but for lists
\* without a file, which make no difference.
Current(t) ==
  /\ \A l \in Lists : file[l].exists => (l \in task[t].ids <=> l \in Enabled)
  /\ ~At(t, "deny") => task[t].deny = Ruled("deny")
  /\ task[t].pc \notin {"deny", "allow"} => task[t].allow = Ruled("allow")
  /\ task[t].pc \in {"load", "read", "write"} =>
       task[t].acc = UNION {file[l].domains : l \in Loaded(t)}

SnapshotIsCurrent ==
  \A t \in Tasks : task[t].pc \in Begun /\ task[t].fresh => Current(t)

\* The loop over the lists takes each of them once.
MergeOrder ==
  \A t \in Tasks :
    /\ task[t].pc \in {"load", "read", "write"} =>
         task[t].todo \subseteq task[t].ids
    /\ At(t, "read") => task[t].list \in task[t].ids \ task[t].todo
    /\ At(t, "write") => task[t].todo = {}

\* NoChangeForgotten, for a server that is starting as well.
ApplyIsDue == server # "down" => applied \/ \E t \in Tasks : WillApply(t)

\* With one activity at a time: nobody makes the snapshot of an apply stale, nor
\* has the file open that it writes.
Alone == \A t \in Tasks : ~task[t].clash /\ (task[t].pc \in Begun => task[t].fresh)

\* The new list whose source is being tried has no file yet; the lists to fetch,
\* and the one being saved, have their rows.
NewHasNoFile == \A t \in Tasks : At(t, "head") => ~file[task[t].list].exists

Fetching == {"head", "refresh", "save", "saving", "count"}

RowsHeld ==
  \A t \in Tasks :
    /\ task[t].pc \in Fetching => task[t].todo \subseteq Present
    /\ task[t].pc \in {"save", "saving", "count"} => task[t].list \in Present

\* How the row and the file of a list come to agree again: the file is cut, then
\* holds what was fetched, then the row counts it (that of a preset did before).
Counting ==
  \A t \in Tasks :
    /\ task[t].pc \in {"head", "select", "refresh", "queued"} =>
         task[t].list = NoList \/ Agree(task[t].list)
    /\ At(t, "saving") => file[task[t].list].domains = {}
    /\ task[t].pc \in {"save", "saving"} /\ task[t].job = "preset" =>
         rows[task[t].list].count = Cardinality(task[t].acc)
    /\ At(t, "count") => file[task[t].list].domains = task[t].acc

\* QuietIsCurrent, in the middle of things: the output is the configuration, or
\* the activity will write it.
CurrentOrDue ==
  server # "down" => output = Whole(Desired) \/ \E t \in Tasks : WillApply(t)

===============================================================================
