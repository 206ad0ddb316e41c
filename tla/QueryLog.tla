-------------------------------- MODULE QueryLog --------------------------------
(***************************************************************************)
(* How long HexBlock keeps the query log: the table query_log, the setting *)
(* log_retention_days, the scheduler's thread that prunes the table, and   *)
(* the statistics of today.                                                *)
(*                                                                         *)
(* Rows carry local time.  The pruning and the statistics compare it with  *)
(* UTC; the schedule goes by local time.  clock is the time in UTC.        *)
(***************************************************************************)
EXTENDS Timestamps, FiniteSets

CONSTANTS
  UpdateAt,    \* AUTO_UPDATE_HOUR, as a time of the day
  PruneAt,     \* 04:00
  Hour,        \* ticks between two purges of the sessions
  Retentions,  \* values of log_retention_days, any integer
  MaxRows,     \* bound: rows in the log
  MaxStops,    \* bound: crashes of the server and failures of a job
  MaxClock     \* bound: the end of time

ASSUME ScheduleAssumption ==
  UpdateAt \in 0..(Day - 1) /\ PruneAt \in 0..(Day - 1) /\ Hour \in 1..Day
ASSUME RetentionsAssumption == Retentions \subseteq Int /\ Retentions # {}
ASSUME LogBoundsAssumption ==
  MaxRows \in Nat /\ MaxStops \in Nat /\ MaxClock \in Nat /\ MaxClock >= Day

Jobs == {"update", "prune", "purge"}

VARIABLES
  clock,   \* the time, in UTC
  rows,    \* when the rows of query_log were logged
  days,    \* the setting log_retention_days
  up,      \* the server is up
  thread,  \* the scheduler: asleep, at a job, deleting what is old, or gone
  next,    \* when each job is to run next, in local time
  kept,    \* the retention the pruning has read
  stops,   \* bound: crashes and failures so far
  steady   \* history: the last pruning there should have been has been made,
           \* and kept no more than the setting says

vars == <<clock, rows, days, up, thread, next, kept, stops, steady>>

TypeOK ==
  /\ clock \in 0..MaxClock
  /\ rows \in SUBSET (0..clock)
  /\ days \in Retentions
  /\ up \in BOOLEAN
  /\ thread \in Jobs \cup {"asleep", "delete", "gone"}
  /\ next \in [Jobs -> Int]
  /\ kept \in Retentions
  /\ stops \in 0..MaxStops
  /\ steady \in BOOLEAN

Local == clock + Offset

\* The first time after t at which it is at o'clock.
NextAt(t, at) == ((t - at) \div Day + 1) * Day + at

NextRun(j, t) == CASE j = "update" -> NextAt(t, UpdateAt)
                   [] j = "prune"  -> NextAt(t, PruneAt)
                   [] j = "purge"  -> t + Hour

Due(j) == next[j] <= Local

-------------------------------------------------------------------------------
(* Mutants: errors the checks must notice *)

\* The retention is one day too long.
OldOneMore(r) ==
  kept >= 0 /\ Greater(SqlUtc(clock - (kept + 1) * Day), SqlLocal(r))

\* The retention is one day too short.
OldOneLess(r) ==
  kept >= 0 /\ Greater(SqlUtc(clock - (kept - 1) * Day), SqlLocal(r))

-------------------------------------------------------------------------------
(* The log *)

\* _insert of the log reader, and the events of the browser extension.
Insert ==
  /\ up
  /\ Cardinality(rows) < MaxRows
  /\ rows' = rows \cup {clock}
  /\ UNCHANGED <<clock, days, up, thread, next, kept, stops, steady>>

\* A retention of a keeps whatever one of b keeps: of a negative one, everything.
KeepsAsLong(a, b) == a < 0 \/ (b >= 0 /\ a >= b)

\* update_settings takes any integer.
UpdateRetention(value) ==
  /\ up
  /\ days' = value
  /\ steady' = (steady /\ KeepsAsLong(value, days))
  /\ UNCHANGED <<clock, rows, up, thread, next, kept, stops>>

-------------------------------------------------------------------------------
(* The scheduler's thread *)

\* run_pending takes the jobs that are due one after the other, in the order
\* of the times they are due at.
Run(j) ==
  /\ thread = "asleep"
  /\ Due(j)
  /\ \A k \in Jobs : Due(k) => next[j] <= next[k]
  /\ thread' = j
  /\ UNCHANGED <<clock, rows, days, up, next, kept, stops, steady>>

\* A job is over: it is scheduled again from now.
Reschedule(j) ==
  /\ thread' = "asleep"
  /\ next' = [next EXCEPT ![j] = NextRun(j, Local)]

\* The update of the blocklists and the purge of the sessions: here, something
\* that takes its time.
Finish(j) ==
  /\ j \in {"update", "purge"}
  /\ thread = j
  /\ Reschedule(j)
  /\ UNCHANGED <<clock, rows, days, up, kept, stops, steady>>

\* _prune_query_log reads the setting ...
ReadRetention ==
  /\ thread = "prune"
  /\ thread' = "delete"
  /\ kept' = days
  /\ UNCHANGED <<clock, rows, days, up, next, stops, steady>>

\* ... and deletes what is older than that.  Of a negative one it makes
\* '--1 days', which SQLite does not know: the comparison is with NULL.
Old(r) == kept >= 0 /\ Greater(SqlUtc(clock - kept * Day), SqlLocal(r))

DeleteOld ==
  /\ thread = "delete"
  /\ rows' = {r \in rows : ~Old(r)}
  /\ Reschedule("prune")
  /\ steady' = KeepsAsLong(days, kept)
  /\ UNCHANGED <<clock, days, up, kept, stops>>

\* A job raises an exception, which ends the thread.
JobFails ==
  /\ thread \notin {"asleep", "gone"}
  /\ stops < MaxStops /\ stops' = stops + 1
  /\ thread' = "gone"
  /\ UNCHANGED <<clock, rows, days, up, next, kept, steady>>

-------------------------------------------------------------------------------
(* The server, and the time *)

Crash ==
  /\ up
  /\ stops < MaxStops /\ stops' = stops + 1
  /\ up' = FALSE
  /\ thread' = "gone"
  /\ UNCHANGED <<clock, rows, days, next, kept, steady>>

\* lifespan starts the scheduler, which knows nothing of the runs that were due.
Start ==
  /\ ~up
  /\ up' = TRUE
  /\ thread' = "asleep"
  /\ next' = [j \in Jobs |-> NextRun(j, Local)]
  /\ steady' = (steady /\ ~Due("prune"))
  /\ UNCHANGED <<clock, rows, days, kept, stops>>

Tick ==
  /\ clock < MaxClock
  /\ clock' = clock + 1
  /\ UNCHANGED <<rows, days, up, thread, next, kept, stops, steady>>

-------------------------------------------------------------------------------
\* The clock starts on the second day.
Init ==
  /\ clock = Day
  /\ rows = {}
  /\ days \in Retentions
  /\ up = TRUE
  /\ thread = "asleep"
  /\ next = [j \in Jobs |-> NextRun(j, Local)]
  /\ kept = days
  /\ stops = 0
  /\ steady = TRUE

Next ==
  \/ Insert
  \/ \E value \in Retentions : UpdateRetention(value)
  \/ \E j \in Jobs : Run(j) \/ Finish(j)
  \/ ReadRetention \/ DeleteOld \/ JobFails
  \/ Crash \/ Start \/ Tick

Spec == Init /\ [][Next]_vars

-------------------------------------------------------------------------------
(* Properties *)

\* How long the pruning has been due.
Lag == IF Due("prune") THEN Local - next["prune"] ELSE 0

\* How old the rows may be that a pruning leaves.  (West of UTC, one with a
\* retention of 0 leaves none.)
Age == IF days = 0 /\ Offset < 0 THEN 0 ELSE days * Day + Offset

\* Unless the retention is negative, nothing is in the log for longer than the
\* retention, a day, and what local time is ahead, but for the time the pruning
\* is late: because an update takes long, or because an exception ended the
\* thread.  It does not hold after the retention was shortened or a pruning was
\* missed by a restart, until the next one.  (The settings page: "Retain 7 days
\* of query history".)
OldRowsGo ==
  steady /\ days >= 0 => \A r \in rows : clock - r <= Age + Day + Lag

\* The rows /stats counts as those of today.
Today == {r \in rows : ~Greater(SqlUtc(Day * Date(SqlUtc(clock))), SqlLocal(r))}

\* The count of the day never goes down during the day (of UTC), although the
\* table is pruned and its retention changed in the middle of it: what is
\* deleted was not counted.  Only a pruning that has read a retention of 0
\* deletes rows of the day.
TodayNeverShrinks ==
  [][Date(SqlUtc(clock')) = Date(SqlUtc(clock))
     => Today \subseteq Today' \/ (thread = "delete" /\ kept = 0)]_vars
===============================================================================
