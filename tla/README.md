# A TLA+ model of HexBlock

HexBlock is a self-hosted DNS gateway: a FastAPI application that keeps block
lists and rules in SQLite, merges them into a file that dnsmasq loads, follows
dnsmasq's query log, manages WireGuard peers, and shows all of it in a
dashboard. This directory models the parts of it whose behaviour depends on the
order in which things happen, checks them with TLC and proves some of the
results with TLAPS for every size of the instance.

`PROJECT.json` lists, for every definition, the lines it models, and for every
property the run that checks it and an error in the code that would break it.

## The system

Paths are relative to `src/app` unless they begin with `src`.

| Component | Source | State | Operations | What is hard | What makes it correct | Module |
|---|---|---|---|---|---|---|
| Blocklist pipeline | `services/blocklist_service.py`, `routers/api.py` 226-401, `hexblock.py` 143-156 | tables `blocklists`, `rules`; files `list_<id>.txt`; dnsmasq's hosts file | add, upload, toggle, edit, delete, sync, rules, presets, `apply_all_active` | applies overlap at every await, and run in threads; files are truncated before they are written; steps fail; crashes | the output is the configuration; no change is forgotten | `Blocklists`, `Publication` |
| Scheduler | `services/scheduler.py` | one thread, the job table of `schedule` | nightly `update_all`, log pruning, session purge | an exception ends the thread; runs beside requests; a long job makes the next one late; a restart forgets what was due | it disturbs nothing that runs beside it; what is old goes | `QueryLog`, its jobs also in `Blocklists` and `Sessions` |
| Devices and WireGuard | `services/wireguard_service.py`, `routers/api.py` 547-593, `_upsert_device` of the log reader | table `devices`, `wg0.conf`, the live interface | add, remove a peer, discover a client | three copies of one fact, changed one after the other by steps that may fail; addresses chosen by counting | table and file agree; addresses and clients are distinct | `Devices` |
| Query log reader | `services/log_reader_service.py` | a dict of pending queries, `query_log` | tail, match, insert, publish | queries and answers are paired by domain; rotation; a thread beside the event loop | each query once, with its client | `LogReader` |
| Event bus | `services/event_bus.py`, the streams of `routers/api.py` 111-155 | one bounded queue per subscriber | subscribe, publish, unsubscribe | publishing from a thread; full queues; streams that end | every open stream gets every event, in order | `EventBus` |
| Login and sessions | `services/auth_service.py`, `routers/auth.py` | tables `account`, `sessions`, `login_attempts` | login, logout, timeout, purge, onboarding, password, TOTP | checks and their use are separate transactions; two clocks and two formats compared as strings | a lockout locks, a session lasts and ends | `Timestamps`, `Sessions` |
| DNS records | `routers/api.py` 403-544 | table `dns_records`, `local-hosts.conf` | add, delete, rebuild | the rebuild reads, awaits, and then writes | the file is the table | `LocalHosts` |
| Dashboard | `static/js/dashboard.js` | page state in the browser | navigation, lists, filter, poll, stream | answers out of order, pages left meanwhile; counters fed from two sources | what is shown is what the server has | `Dashboard` |
| Query log, statistics, settings, extension events | `routers/api.py` 57-222, 605-700, `scheduler.py` 22-39 | `query_log`, `settings` | insert, count, prune, update | local time compared with UTC; a setting read before it is used | nothing stays too long, nothing counted goes | `QueryLog`; a filter's rows in `Dashboard` |
| Language | `static/js/i18n.js` 395-495, `dashboard.js` 71-83, `routers/api.py` 606-635 | the setting, `localStorage` of each browser, each tab | detect, choose, load the settings | every answer is sent back to the server, in no order | a choice is kept | `Locale` |
| Forms of the dashboard, password change | `dashboard.js` 281-519, 690-835, 930-942, 1020-1038, `routers/api.py` 718-744, `auth_service.py` 223-239 | drawer, readers of files, calls, the account | fill in, choose or drop a file, upload, add a peer, change the password, sync | files and answers that come to a page opened anew; two transactions | what is announced is what is done | `Panels` |
| CSRF tokens, onboarding | `services/csrf_service.py`, `routers/auth.py` | signed tokens; the row of the account | issue, validate | age; nothing records a token's use | - | not modelled |
| Proxy middleware, start-up | `hexblock.py`, `config.py` | Cloudflare's ranges | address and scheme of a request | none: a function of a request | - | not modelled |
| Hosts file parser | `blocklist_service.py` 30-79, `dashboard.js` 499-519 | none | parse a list | two parsers of one format | they agree where they must | `HostsFormat`, used by `Panels` |
| Schemas, database schema, texts of the translations, scripts, containers, proxy configurations, templates | `models/`, `database.py`, `i18n.js`, `src/scripts`, `src/dns`, `src/proxy` | files | run once, or static | what is left of a failed installation | - | not modelled |

The components share the SQLite file (every function opens a connection of its
own and commits once), the event loop of the one uvicorn process, and the files
dnsmasq reads. The event loop interleaves requests and background tasks at each
`await` only; a delete's apply, the scheduler and the log reader run in threads.
The log reader hands its inserts to the event loop, which publishes them on the
event bus; the streams of the dashboards take them from there.

## Conventions

A SQL statement with its commit is one step. An activity (a request with the
background work it leads to) is a record in a slot `task[t]`, whose `pc` is the
await the activity is at: between two awaits the event loop runs nothing else,
so the code between them is one action, and code in a thread is cut at every
file operation and statement. A crash empties the slots and keeps tables and
files. The bounds on operations, clock and failures are constants, named as
such where they are declared.

Some properties hold only as long as something has not happened that the code
has no guard against (two requests overlapping, a removal, a lost message).
Those name their condition, and the modules keep it in history variables that
no action reads: `fresh`, `clash` and `applied` (Blocklists), `past` (Devices),
`alone` and `repaired` (LocalHosts), `lost` and `since` (EventBus), `excused`
(Dashboard), `steady` (QueryLog), `calm` and `told` (Locale), `stray`, `agreed`
and the `alone` of a call (Panels). What happens without the condition is listed
under *Divergences*, and `PROJECT.json` says at each hazard which part of it no
property covers for that reason.

## The modules and their runs

### Blocklists

`Blocklists.tla` has a slot for each activity under way: a request with the
background work and the apply it leads to, the nightly update, or the apply of a
starting server. The correspondence:

| Code | Model |
|---|---|
| `POST /blocklists`, its HEAD request, `_fetch_in_bg` | `Add`, `HeadOk`, `HeadFail`, then `Fetch`/`FetchFail`, `CloseList`/`SaveFail`, `Count`/`CountFail` |
| `POST /blocklists/upload`, `_parse_in_bg` | `Upload`, then as above |
| `BlocklistService.add` for the presets of the onboarding | `Preset`, `SavePreset`, `CloseList`/`SaveFail` |
| toggle, edit, delete | `Toggle`, `Edit`, `Delete` and `Unlink` |
| `update_all`, by sync or by the scheduler | `Sync`/`Nightly`, `Select`, `Fetch`/`FetchFail`, `CloseList`/`SaveFail`, `Count`/`CountFail`, `Refreshed` |
| `POST`/`DELETE /rules` | `AddRule`, `DeleteRule` |
| `apply_all_active` | `ReadLists`, `ReadDeny`, `ReadAllow`, `BeginMerge`, `LoadCheck`, `LoadRead`/`LoadVanished`, `OpenOutput`, `CloseOutput`/`WriteFail`, `Reload` |
| `lifespan`, the container's restart policy | `Restart`, `Crash` |
| dnsmasq on SIGHUP | `DnsmasqReread` |

`loop` is the task that holds the event loop between two awaits
(`apply_all_active` does not await anything that suspends from the merge to the
reload); tasks for which `OnMain` is false have a thread and run whenever they
like. What an apply has read so far is in its record (`ids`, `deny`, `allow`,
`acc`). `fresh` says that nothing an apply reads has changed since its first
read, `clash` that the file it has open is not its own any more, and `applied`
that an apply begun after the last change has written.

What is abstracted: a list is the set of domains its file holds, a source serves
one of `Feeds`, `Under[a]` stands for `d == a or d.endswith('.' + a)`. A file is
read in one step, and written in two, the open that truncates it and the close.
A write that fails in between (`SaveFail`, `WriteFail`) leaves any part of it.
When two threads have the output open, what remains is one of the two outputs or
`NotWhole`. A SIGHUP is assumed to make dnsmasq re-read the file, which is what
`src/docker-compose.yml:95` says of it.

`Publication.tla` is the promise of the pipeline without its mechanism: a
configuration wants some domains blocked, the output is cut or is what is wanted
at the moment it is published, and what stays wanted is published and loaded.
`ImplementsPublication` says that `FairSpec` implements it, by the refinement
`want <- Desired, out <- output, dns <- dns`; `Safety` is the part of it
without the fairness.

| Run | Instance | Result |
|---|---|---|
| `Blocklists_serial` | 2 lists, 1 activity, 3 operations of every kind, failing checks and sources, under fairness | the pipeline implements `Publication`; at rest the output is the configuration and is loaded, crashes in the middle of anything included; row and file of a list agree when it is applied |
| `Blocklists_threads` | 2 lists, 2 activities, 3 operations, every step fails that can: the check, the fetch, the write of a list file, the count, the write of the output, the signal | an apply nothing changed under writes exactly the configuration, although it reads it in many steps; no list file vanishes under a read that matters; two tasks of the event loop never have a file open at once |
| `Blocklists_live` | 1 list, 2 activities, 3 operations, failing sources, crashes, under fairness | no change is forgotten; everything ends; every change is applied |

Bounds. Two activities are enough for every interleaving of one apply with one
other change; two lists let an apply hold one list while the other changes; two
domains, one below the other, tell apart what an allow rule removes and what it
leaves. A third operation is needed to have a list, and then change it while it
is applied. The list of `Blocklists_live` is an uploaded one once it exists, so a
sync has nothing to fetch there; that no handler forgets a change, sync included, is
the theorem `NothingIsForgotten`. The theorems drop all of these bounds.

Fairness. The event loop and the threads run what is ready, and every request
has a timeout (60 s for a source), so each activity's next step is weakly fair
(`Run(t)`); the container restarts (`restart: unless-stopped`) and a signalled
dnsmasq reads its file. Nobody has to start an operation.

### Devices

`Devices.tla` has the rows of `devices` (a peer has a key, a discovered client an
address) and the lines of `wg0.conf`. `Add` is the key and the COUNT,
`AppendPeer`/`AppendFail` the end of `add_peer`, `InsertPeer`/`InsertFail` the
row; `Delete` is the SELECT of the handler, `RemovePeer`/`RemoveFail` the
rewriting of the file, `DeleteRow` the row; `Seen`, `Lookup`, `Touch`, `Discover`
are `_upsert_device`; `Crash` may tear a file that is being rewritten.
`conf` maps places to lines: a line is appended at a place of its own, and the
place of a line that is taken out stays empty, so that only the order of the
lines counts. `Dropped` says which lines the loop of `remove_peer` drops, and
`WithoutPeer` drops them; `MCDevices` has the loop itself (`Keep`, `Rewritten`),
and compares the two on every file of up to five lines as an assumption
(`DroppedByLoop`). The `# name` comment in a peer's section stands with its
`[Peer]` line. The live interface is
not modelled: an add never tells it, and a removal whether or not it knew the
peer continues. Keys are taken to be distinct, and a key generation that fails is
left out, as it ends the request before anything is written. The server's own
section (`Interface`) is the first line of the file; a torn file may lose it,
which no property speaks of (see *Divergences*).

`Devices_peers` runs two activities, six operations and every failure: a deleted
peer's key is never in `wg0.conf` again; a peer of the table is whole in
`wg0.conf` until the first removal, which may take the `[Peer]` lines of others
with it; addresses are distinct as long as no peer is deleted and nothing
overlaps, and a client is discovered once as long as nothing overlaps. (After the
delete of an older peer the next add gets the address of the newest.) Three ids
suffice for a file with a peer before and after the one that is removed.

### LogReader

dnsmasq answers one query at a time, so its lines of a query are adjacent
(`Query`, `Lines`; this is an assumption about dnsmasq, which the pairing by
domain needs). `ReadLine` is one round of the reader's loop; `ReadEnd` and `Wake`
are the end of the file, the sleep and the check for rotation, which is a rename
(`Rotate`, `Reopen`). `Put`, `Pop`, `Evict` are the dict of pending queries.
`Insert`/`InsertFail` are the coroutine on the event loop; row and event are
published in one step. The lock file and the wait for the log at start are left
out: the container has one worker. A blocked query is taken to have one answer
line, as a query for an address has, and a query's type to be one that
`_QUERY_RE` matches.

`LogReader_follow`: three queries by two clients and the health check, answered,
blocked, forwarded once or twice or cached, a dict with a limit of one (`Limit`,
5000 in the code), one rotation, and a database that may refuse. A published query
of a client names that client; each is published once; while the log is not
rotated none is missed. That the dict stays small is in the type invariant. Three
queries are needed to evict one and answer another.

### EventBus

`Publish` copies the subscribers, `Post` posts to one of them, `PutNowait` is the
callback in the loop (a full queue refuses), `Subscribe`, `Take`, `Leave`,
`Close` are the life of a stream. `Coming` are the messages still to be put into
a queue, those of the loop before those of the thread. `Subscribe` comes between
a `Publish` and its `Post`s, as a publisher in a thread allows.

`EventBus_streams`, two streams, queues of two and four events, so that one
overflows while the other is read: an open stream has every event since it
subscribed, in order and once, in its client's hands, in its queue or on the way,
but for those a full queue refused. `Accounted` says so in four parts: what the
stream holds is ascending, what is on the way comes later than that, and in order,
and together they are the events published since it subscribed without those lost.
With a fair publisher, a fair loop and streams that are closed once left (`Post`,
`PutNowait`, `Close`; no client has to read), an event comes to every queue
whatever the others do, and a stream that ended is forgotten.

### Timestamps and Sessions

`Timestamps.tla` is the comparison the database does: an ISO string in UTC
against a SQLite string in local time; the dates first, then "T" against a
space. `Sessions.tla` has the two tables and the login handler in its
transactions: `Login`, `CheckLockout`, `VerifyCredentials`, `RecordAttempt`,
`CreateSession`, and `DestroySession`, `Purge`, `UpdateTimeout`, `Tick`. Time is
UTC, in ticks, `Day` of them in a day, and starts on the second day so that
stamps before it exist. A session ends at two places: the server takes its token
while it is `Valid`, and the browser sends it (`Sent`) while the cookie lasts,
`CookieAge` from the login whatever the timeout is. A request is `SignedIn` when
both hold.

`Sessions_west` has local time two thirds of a day behind UTC, two addresses, and
a clock of two days. Nobody is locked out but for failures of the last `Lockout`
ticks. The server takes a token until it expires, whatever the purge does, unless
its user logs out (`NotCutShort`). After that it takes it for less than a day and
the two thirds of one that local time is behind (`EndsByDayAndOffset`), because the
date of the expiry, in UTC, is compared with the local date. The timeouts are one
that has passed at once, one shorter and one longer than the cookie's age.

Two things one may expect are not so. A session does not last as long as its
timeout for the user, because the cookie ends it after an hour; and a lockout may be
shorter than its time, because failures of the same day are not counted.

### LocalHosts

`Add` and `Delete` are the requests, which change the table; `Select` is the read
of the rebuild, `Write` and `WriteUnsignalled` the write of the file and the
signal, after an await; in `WriteFail` the write raises, before the file is opened
or when part of it is written (`CutShort`), and no signal is sent. `Crash`, which
may cut a file short as well, and `DnsmasqReread` are what they say.
The routes are defined twice in `api.py`; FastAPI takes the first definition of
each path, while the second definition of `_rebuild_local_hosts` is the one that
name has at run time, and the model has that combination.

`LocalHosts_rebuild`: two requests at once, five operations, crashes, writes that
fail or are cut, and failing signals. A request that has the server to itself
leaves the file equal to the table, whatever went before, and dnsmasq ends up with
it if it was signalled. Fairness: a request goes on, a signalled dnsmasq reads.

### Dashboard

A call (`calls`, in the order they were made) is a record of what it asks for and
what has come of it: `renderDashboard` waits for several requests, which the
server handles one by one and in any order (`Serve`, `Fail`), and the
continuation runs when all have settled (`Rendered`, `Polled`, `LogLoaded`,
`Loaded`, `Changed`). `content` is what the elements of the page show: an answer
whose elements are gone is dropped, by `setText` or by the error it throws.
`GoPage`, `QlFilter`, `Change` are the user; `Poll` the timer; `Receive` the
stream, whose messages may be lost (`Log`); `Unshift` puts a row in front of a
log, which keeps its newest `LogRows`. The three list pages are alike;
`Change("row", t)` stands for toggle, edit and delete, `Change("form", t)` for
adding. `deleteDevice` renders the page of the devices whatever page is open
(`Changed`). The five requests of `renderDashboard` are two here, the statistics
and the log; the others fill elements of their own in the same way. A list is
the number of changes made to it from this dashboard: what the server changes by
itself (a domain count, when a fetch ends) is not shown until the next load.

`Dashboard_pages`: four clicks, two calls at a time, two queries, one failure.
Four clicks are needed to change a list, leave its page while the change is under
way and return. A settled list shows its table and a settled query log the filter
that is highlighted, unless a call failed or an older answer came after a newer
one; the live log survives every rendering (`LogRows` is one in this run, so it
does not exercise the order of the rows, which the theorem `LiveLogStays` has for
every length); and the count on the dashboard is right in the end, while the page
stays open. Fairness: every request is answered
or fails, messages arrive, the timer runs on.

### QueryLog

The clock is UTC; a row is the time it was logged at, and stands in the table in
local time (`Timestamps`). The scheduler's thread is `asleep`, at a job, between
the two statements of the pruning, or `gone`: `Run` picks the jobs that are due
in the order of their times, as `run_pending` does, `Finish` and `DeleteOld`
schedule a job again from the time it ended, `JobFails` is an exception, which
nothing catches, and `Start` is `lifespan`, which schedules everything anew and
so forgets a pruning that was due. `Today` is the query of `/stats`.

The setting takes any integer. One of 0 makes the pruning delete every row with a
stamp before the UTC time of the pruning; a negative one makes a modifier that
SQLite does not know (`--1 days`), and nothing is deleted. `KeepsAsLong` orders
retentions accordingly.

`QueryLog_retention` has a day of three ticks, one of them the offset of a zone
east of UTC, retentions of -1, 0, one and two days, two rows, a crash or a failing
job, and four and a half days: unless the retention is negative, nothing stays
longer than it (`Age`), a day, the offset and what the pruning is late
(`OldRowsGo`); a change to a shorter retention and a missed pruning are excused
until the next one. The pruning never takes a row the statistics of the day have
counted, the day being UTC's, unless it has read a retention of 0
(`TodayNeverShrinks`). The second proper retention is needed to change the setting
between the pruning's read and its DELETE, the days to miss a pruning and have
the next. The theorems take any offset within a day, either way.

### Locale

A tab has the language it shows (`locale`), its picker, and its request for the
settings, whose answer it takes by `setLocale`, which saves it in the browser and
sends it back to the server. Those PATCH requests (`patches`) are handled in any
order or lost; tabs open and close at any time. `choice` is the last language
chosen by hand.

`Locale_tabs`: two tabs of one browser and one of another, three openings, two
choices. A choice made while nothing else was under way stays the account's, and
is what every tab shows that knows of it, although each of them sends its answer
back. What the condition leaves out is a defect of the code: the answer to a tab
that was opened before the choice may be sent back after it, and undoes it. Three
openings give an opening before, at and after the choice; two choices give one
that replaces another.

### Panels and HostsFormat

`HostsFormat.tla` has the two parsers of a list, on lines that are a form and a
name: `Parsed` is what `parse_hosts_content` imports, `Preview` what the browser
counts. `MCPanels` compares them on every file of three lines as an assumption.

`Panels.tla` is the user in one tab. `GoPage` builds a page anew, so the drawer,
the form and the QR code are lost; `_wgConfig` is forgotten by `renderVPN`. The
files that are being read (`readers`) and the calls (`calls`) end in any order,
and what comes of them is written to the page that is there (`Read`, `Added`,
`DeviceAdded`, `PwChanged`, `Synced`). A call that is lost throws, or its answer
is. The change of the password is two transactions, `Verify` and `Write`, and may
come from elsewhere (`ChangeElsewhere`). Of an upload the call carries what the
user had been told (`count`), as history. `Fill` is `loadPreset` as well as
typing.

`Panels_forms`: two files, with a domain twice in two spellings and the names of
the host itself, two calls, one of them lost. The number announced for an upload
is the number imported, or more by the lines that say nothing new; the
configuration on offer is the one whose QR code is shown; after changes that did
not overlap the password is the one told last; and only who names the password
replaces it, unless two changes overlap. Two calls are two overlapping changes,
and an answer that comes to a page opened anew while another is under way.

No fairness is assumed in these three: they have no liveness properties. (A file
that cannot be read, a pruning whose thread is gone and a request that is lost
have nobody to make up for them.)

## What is proved

The assumptions are the named `ASSUME`s of the modules; TLC evaluates them in
every run.

### Blocklists

`BlocklistsProofs.tla`, for any sets of lists and tasks and any finite set of
domains. The inductive invariant `Inv` has `TypeOK` (`TypeCorrect`) and these
parts, each preserved by every action from those before it:

- `JobAtStep`: what an activity does at a step is decided by what started it;
- `LoopHeld`: an activity of the event loop that does not await holds the loop;
- `UnlinkIsLast`: a file about to be unlinked has lost its row, for good (ids
  are not reused, a deleted row does not come back);
- `UnusedUnknown`: no task knows of a list that has no row yet, and it has no
  file;
- `FilesOpen`: what the `clash` flags say, and that a list file being written
  exists unless it was removed;
- `MergeOrder`: the loop over the lists takes each of them once;
- `SnapshotIsCurrent`: an apply that is `fresh` has read what the tables and
  files hold now, lists without a file aside;
- `ReadIsSafe` itself.

`WritersAloneOnLoop` follows from `LoopHeld`: a task that writes on the event
loop holds it. `FreshAppliesAreExact` follows from `SnapshotIsCurrent` and
`MergeOrder` at the step that writes: all lists have been taken, so the merge is
`Desired`. `SnapshotIsCurrent` needs `UnlinkIsLast` because the unlink of a
delete comes after the row is gone and after the change was announced: the file
of a list that is no longer enabled may vanish under a fresh apply, which does
not notice. `ReadsAreSafe` needs `LoopHeld` for the event loop (an unlink cannot
come between check and read) and `SnapshotIsCurrent` for the threads (a fresh
apply reads enabled lists only). `NothingIsForgotten` adds `Booting` (only the
first apply runs before the server is up) and `ApplyIsDue`; it assumes that the
check of a new list, the write of its file, the update of its count and the write
of the output do not fail, and each of the four is needed: a check that fails
during a sync deletes the row and applies nothing (`HeadFail`), a file that cannot
be written (`SaveFail`) or a failing UPDATE (`CountFail`) skips the apply of a new
list, and a failing write loses it (`WriteFail`).

Three theorems are about one activity at a time, `Tasks = {t}`, which is when the
properties hold at all (see *Divergences*): then every apply is fresh and no file
it has open is touched by another (`Alone`, which `AloneKept` derives from `Inv`).

- `PublicationIsImplemented`: `Spec => Publication!Safety`, crashes and every
  failure included. `InitPublication` and `StepPublication` map the initial
  state and each action: the open of the output is `Open`, its close `Publish`,
  because what an `Alone` apply has read is `Desired` (`SnapshotIsCurrent`); the
  reread of dnsmasq is `Load`; all other steps may change what is wanted and touch
  neither the output nor dnsmasq.
- `QuietOutputIsCurrent` (`QuietIsCurrent`), if list files, the count and the
  output can be written: `CurrentOrDue` says in the middle of things what
  `QuietIsCurrent` says at rest, that the output is the configuration or the
  activity will write it. Where `NothingIsForgotten` also excludes a failing check
  of a source, this one does not: with nobody else, a refused list has no file yet
  (`NewHasNoFile`), so its row can go without an apply.
- `CountsMatchFiles` (`TablesMatchFiles`), if list files and the count can be
  written:
  `Counting` follows row and file of a list through truncation, write and
  count, `RowsHeld` keeps the rows of the lists being fetched.

### Sessions

`SessionsProofs.tla` proves, for every length of the day, every offset within a
day, any sets of addresses and tokens, and any timeouts and age of the cookie:

- `TypeCorrect`, with attempts never in the future, which the lockout needs;
- `SessionsEnd` (`EndsByDayAndOffset`): a good session's expiry is, by date, not
  before the local date of now (`ValidComparesDates`), so local time is less than
  a day past it, and UTC less than a day and what local time is behind;
- `SessionsLast` (`NotCutShort`: of the server, the cookie aside), where `Offset
  <= 0`: an unexpired session compares as greater (`UnexpiredIsGreater`);
  inductively, what the purge deleted had expired, and a session expires for good
  as time only goes on;
- `LockoutsAreDue` (`LockedForCause`), where `Offset <= 0`: an attempt that is
  counted is within the window (`CountedIsRecent`), so the count is at most that
  of the recent ones.

The last two need `Offset <= 0`: east of UTC a stamp of local time may be ahead
of the window's by its date. Division is handled by two lemmas (`DivisionBounds`,
`DivisionIsMonotone`).

### QueryLog

`QueryLogProofs.tla`, for every length of the day, every offset within it, any
schedule and any integers as retentions: `TypeCorrect`, `OldRowsAreDeleted`,
`TodayIsKept`. The inductive invariant says where the next pruning is
(`PruneIsSoon`: at its time of the day and never more than a day ahead) and,
relative to it, how old a row may be (`RowsArePruned`): at the next pruning,
unless the retention is negative, no row is older than it, a day and the offset.
`OldRowsGo` alone is not inductive, as it says nothing of when the next pruning
comes. `NextAtIsFirst` is the fact about `schedule`'s clock arithmetic that all of
it needs, and `SqlStampsCompareTimes` that two stamps SQLite wrote compare as the
times they show, so the one offset between them is the whole error.

### Dashboard

`DashboardProofs.tla`, for any lists, filters, calls, clicks and failures, and a
live log of any length: `TypeCorrect`, `ListsShowTables` (`ListIsTable`),
`LogShowsFilter` (`FilterIsShown`), `LiveLogStays` (`LiveLogIsShown`). The three
properties speak of a page that is settled; the invariant says what an unsettled
page is waiting for:

- `CallsOK`: what each call may have been answered, by its kind, and that a call
  that failed has excused its page;
- `Counted`: the changes the server has not made yet fit under the clicks, which
  bounds `version`;
- `TablesDue`: a page shows its table, or a change of it is under way (its load is
  still to be made), or the *last* load of it under way will be answered the
  table as it is;
- `LogDue`: the same of the query log and the chosen filter;
- `LiveDue`: the log on the dashboard starts with the live log, or a rendering is
  under way that will put it there.

"Last" is what makes it inductive: a call overtaken by a later answer has excused
its page. Each of the lemmas says what becomes of the calls when one is made,
answered or dropped.

### Locale

`DashboardProofs.tla` too, for any languages, browsers and tabs:
`LanguagesTypeCorrect` and `ChoicesAreKept`. (The definitions of `Locale` and
`EventBus` that other modules have as well carry a prefix, so that one module of
proofs can extend two components.) The invariant (`OnlyChoice`) is that after a
calm choice every PATCH under way carries that choice, every tab that still waits
for an answer asked before the server had it or will be answered the choice, and
what is answered since is the choice: then whatever is echoed is the choice.

### Panels

`PanelsProofs.tla`, for any files, names and spellings: `TypeCorrect`,
`PreviewsAreImports`, `QrCodesAreConfigs`, `PasswordsAreAsTold`,
`PasswordsAreNamed`. `ShownIsChosen` is that unless a file is astray only the
chosen one is being read or shown, from which the announcement follows by
`PreviewsAnnounce`: the imported domains are the image of the counted lines
(`ImportedIsCounted`), so they are no more, and as many if the lines are
distinct. `PasswordInv` is what is known of a change that is alone at each of its
steps. `QrIsConfig` is inductive.

### LocalHosts

`LocalHostsProofs.tla`, for any finite set of requests: `TypeCorrect` and
`FilesAreTables`. A request that is alone is the only one under way and what it
has read is the table (`AloneIsOnly`), so what it writes is; `RowsAreTable` is
that a read names every host once, which the table does by its key.

### Devices

`DevicesProofs.tla`, for any set of ids, infinite ones included, any keys and
addresses, and any finite set of activities. Two invariants:

`Inv` is about the rows: `AddressesAreDistinct` and `ClientsAreDiscoveredOnce`.
Without an overlap one activity is under way (`OneUnderWay`), so what it has
counted or looked up is still so when it inserts: `AddressesBelow` is that the
addresses given are below the next one and that an add in progress has that one,
`DiscoveredIsNew` that a discovery goes on only for a client without a row. The
rows are finitely many, which the count needs.

`FileInv` is about `wg0.conf`: `TypeCorrect`, `DeletedPeersAreGone`
(`DeletedIsGone`) and `PeersAreKept` (`PeersKept`), with any overlaps, failures and
crashes. A key is generated once and belongs to one add and then to one row
(`KeysHeld`); the line after a key's is the only other that has it (`WellFormed`),
so dropping a section drops the key; a peer is out of the file before its row is
deleted (`RemovedFirst`), and in it before its row is inserted (`AppendedFirst`,
until the first removal). `DeletedIsGone` alone is not inductive: that no
add under way carries the key of a deleted peer is in `KeysHeld`.
That `Dropped` is what the loop drops is checked on small files (`DroppedByLoop`)
and not proved, as a fold is induction over data.

### LogReader

`LogReaderProofs.tla`, for any clients, domains, numbers of queries and rotations,
and any limit of the dict: `TypeCorrect`, `RowsAreAttributed` (`Attributed`),
`RowsComeOnce` (`OnceEach`), `NoQueryIsMissed` (`NothingMissed`). The argument is
the order of the lines. The unread lines and the file after the rotation are
queries, each followed by its answers (`Files`, of which `Stream` is one file). So
when an answer comes, its query is the last the reader took into the dict, and is
still there (`HeldAtAnswer`): only a line that forwards evicts, and it leaves the
newest entry. What it pops is that query, for the dict has one query of a domain
(`Dict`), which gives `RowsRight`. After the first answer the entry is gone, and a
second one finds nothing (`TakenBefore`), which gives `OnceEach`. `Room` bounds
the dict: it is above the limit only between a query and its answer. `Unrotated`
is that before the first rotation a query of a client is taken or its answer is
still unread.

### EventBus

`LogReaderProofs.tla` too, for any streams, any size of the queues and any number
of events: `BusTypeCorrect` and `EventsAreAccounted` (`Accounted`). `BusInv` adds to
the two that the list of subscribers is the streams that have not ended, each once
(`Subscribed`), that nothing is sent to a stream before it subscribes
(`NothingEarly`), and that only what was published comes or is lost
(`OnlyPublished`). `AccountedFor` is `Accounted` of one stream, and three lemmas are
its three ways to change: an event is published to it (`OneMore`, which needs
`Subscribed`: the copy has it once), a message of another arrives
(`OtherArrives`), or one of its own, into the queue or refused (`OwnArrives`). A
`Post` leaves `Coming` as it is (`PostedMessages`), a `Take` what the stream holds
(`HeldShift`).

### Only model-checked

Every invariant that a run checks is proved, as are the action properties. What
is left to TLC is liveness (`Settles`, `ChangeIsApplied`, `Converges`, `Answered`,
`Arrives`, `LeftIsForgotten`, `CountIsCorrected`) and the fairness of
`Publication`, that is `ImplementsPublication` beyond `Safety`: the prover does not
reach `ENABLED`. One fact about a loop over data, `DroppedByLoop`, is evaluated on
small files only.

## Divergences

These were met while modelling. The modules have the behaviour, and the
properties are stated so as to hold beside it:

- Of two changes, the apply of the first may write last, and the second is not
  applied until the next one; the README has "Applied instantly"
  (`src/README.md:21`). `QuietIsCurrent` is therefore checked with one activity.
- A new peer's address is one more than the number of peers ("Assign next
  available IP", `wireguard_service.py:80`): after a delete it may be that of
  another peer. The number is not bounded; the 254th peer gets `.256`.
- Failures of the same day are not counted for the lockout, because of the two
  formats of the stamps (`auth_service.py:91`; `src/CHANGELOG.md:138`).
- A delete's apply runs in a thread and may write the output while another one
  does: what is left may be part of each (`NotWhole` in `Blocklists`).
- Toggle and sync wait for the apply, although the changelog says that add,
  sync, toggle and delete "all return instantly" (`src/CHANGELOG.md:19`).
- An allow rule does not reach below a listed parent domain: the merge removes
  the domains below the rule, not those above it (`src/README.md:21`).
- The nightly update dies of a list deleted under it, and the scheduler's thread
  with it (`LoadVanished`; `scheduler.py:63` has no handler).
- A list that was refused stays blocked when a sync ran during its check:
  `api.py:272` deletes the row and applies nothing. A new list whose file or count
  cannot be written is not applied (`api.py:268`), and a file whose write fails
  is left cut (`blocklist_service.py:94`).
- A list that is deleted while `update_all` fetches it gets its file back, which
  no row refers to and nothing removes (`blocklist_service.py:175`).
- A removal strips the `[Peer]` lines of the peers before the removed one
  (`wireguard_service.py:177`). A crash while it rewrites `wg0.conf` may lose the
  server's own section, and nothing writes it again (`wireguard_service.py:183`).
- Clients are discovered twice by overlapping queries, for the index that
  `src/CHANGELOG.md:90` speaks of is not there.
- An answer to the health check's query is attributed to a client that waits for
  the same domain, or to "unknown" (`src/CHANGELOG.md:89`).
- Queries answered from dnsmasq's cache are not logged, although
  `src/README.md:22` promises every one, and lines written between the last read
  and a rotation are lost (`log_reader_service.py:134`). Queries of a type that is
  not all capital letters, such as `type=65` or `NSEC3`, are skipped
  (`log_reader_service.py:23`) while their answers are read: those are dropped, or
  attributed to an older query for the same domain, and a blocked one to
  "unknown". This is not in the model.
- The cookie of a session is sent for an hour (`max_age=3600`, `auth.py:148`)
  whatever `session_timeout` is, so that a user is signed out after an hour at the
  latest; the changelog has "Session management with configurable timeout"
  (`src/CHANGELOG.md:140`) and "Session timeout increased to 30 days for display
  screen" (`src/CHANGELOG.md:38`). The model has the cookie (`Sent`), and
  `NotCutShort` speaks of the server.
- East of UTC a lockout may last longer than its time, and the server end a
  session early; at UTC and west of it sessions may end late, by less than a day
  and the time local time is behind UTC.
- A retention of 0 is accepted (`schemas.py:163`, `api.py:624`) and makes the
  pruning delete the rows of today as well; a negative one is accepted and makes
  it delete nothing.
- A rebuild of the local hosts that another request overtook leaves the older
  table in the file until the next change (`api.py:491`), and so does one that
  crashes, or whose write fails (`api.py:504`).
- In the dashboard, an older answer may be shown after a newer, and a deleted
  device opens the page of the devices over whatever page is open
  (`dashboard.js:976`).
- The settings page promises 7 days of query history whatever the setting is,
  and its four switches are not connected to anything (`dashboard.js:844-847`).
- East of UTC a row stays up to the offset longer than the retention, and the
  statistics of "today" count from the UTC midnight, in local stamps. A restart
  between the time of a pruning and the pruning skips that one.
- A language answered by the server is sent back to it as if chosen, and may
  undo a choice made meanwhile (`i18n.js:419`). The pickers are built once:
  they do not follow the answer, the one in Settings stays empty
  (`src/CHANGELOG.md:107`), and what JavaScript rendered changes its language with
  the next rendering only (`src/CHANGELOG.md:109`).
- A file that is dropped is previewed and announced, but not put into the field:
  adding then makes a list without it, or is an upload of the file chosen before.
  After an upload the file stays chosen, so that a second Add uploads it again;
  and an upload that fails says nothing (`dashboard.js:474-476`).
- The preview does not know three formats the server imports (AdGuard, dnsmasq
  and bare addresses), and counts repetitions.
- Of two overlapping changes of the password, both of which name the old one,
  the later wins and both are told that theirs was made.
- A sync that fails leaves its button disabled (`dashboard.js:936`). A peer whose
  page was left before the answer came keeps no configuration to download once
  the page is opened again, although its row is there.
- The tokens of the forms are described as single-use (`csrf_service.py:4`);
  nothing records their use.

## Plan

Done, in this order: `Blocklists` and `Publication`, as the core; `Devices`,
`LogReader`, `EventBus`, `Timestamps` and `Sessions`, `LocalHosts`, `Dashboard`;
`QueryLog`, `Locale`, `HostsFormat` and `Panels`. Proofs: `Blocklists`,
`Sessions`, `QueryLog`, `Locale`, `Panels`, `LocalHosts`, `Devices`, `LogReader`,
`Dashboard`, `EventBus`, and the safety part of the refinement of `Publication`.

What would come next:

1. A composition of `LogReader`, `EventBus` and the dashboard's stream, with the
   promise "every query published reaches an open dashboard once, in order" as
   an abstract specification that it implements.
2. The steps of the installation script as far as they can be run again.
3. Proofs: the liveness properties, once the prover reaches `ENABLED`; the
   composition of the first item.

## Not modelled

Texts and layout: the translations are 360 of the 498 lines of `i18n.js`, and
their lookup with a fallback is wording; the pages of the dashboard are mostly
HTML in strings, of which the modules have the elements a property refers to. Of
the dashboard, the loads of the VPN, security and settings pages (they fill
elements of their own, as the modelled ones do), toasts, the proxy example, the
text of the dialog that edits a list; `hexblock.js`, which shows and hides a
password. The database's own locking beyond a statement that fails; the
validation of fields; onboarding, which writes the account in one transaction;
the tokens of the forms, which no state refers to; the audit log; the proxy
middleware, a function of one request.
The installation scripts and the container and proxy configurations act outside
the repository; what the modules take from them (one worker, shared files,
`log-queries`, the restart policy) is named where it is used.
