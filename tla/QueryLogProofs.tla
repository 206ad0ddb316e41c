----------------------------- MODULE QueryLogProofs -----------------------------
(***************************************************************************)
(* How long a row is kept, for every length of the day, offset of local    *)
(* time, times of the jobs and values of the retention.                    *)
(***************************************************************************)
EXTENDS QueryLog, TLAPS

-------------------------------------------------------------------------------
(* Days and stamps *)

LEMMA DivisionBounds ==
  ASSUME NEW d \in Nat \ {0}, NEW a \in Int
  PROVE  /\ a \div d \in Int
         /\ d * (a \div d) <= a
         /\ a < d * (a \div d) + d
  OBVIOUS

LEMMA DivisionIsMonotone ==
  ASSUME NEW d \in Nat \ {0}, NEW a \in Int, NEW b \in Int, a <= b
  PROVE  a \div d <= b \div d
  OBVIOUS

\* Two stamps SQLite wrote compare as the times they show.
LEMMA SqlStampsCompareTimes ==
  ASSUME NEW a \in Int, NEW b \in Int
  PROVE  Greater(SqlUtc(a), SqlLocal(b)) <=> a > b + Offset
<1>1. b + Offset \in Int
  BY OffsetAssumption
<1>2. a <= b + Offset => a \div Day <= (b + Offset) \div Day
  BY <1>1, DayAssumption, DivisionIsMonotone
<1>3. b + Offset <= a => (b + Offset) \div Day <= a \div Day
  BY <1>1, DayAssumption, DivisionIsMonotone
<1>4. a \div Day \in Int /\ (b + Offset) \div Day \in Int
  BY <1>1, DayAssumption, DivisionBounds
<1> QED
  BY <1>1, <1>2, <1>3, <1>4 DEF Greater, SqlUtc, SqlLocal, Date

-------------------------------------------------------------------------------
(* The invariant *)

AtPruneTime(t) == \E k \in Int : t = k * Day + PruneAt

\* The pruning is never more than a day ahead, and at its time of the day.
PruneIsSoon ==
  /\ next["prune"] <= Local + Day
  /\ AtPruneTime(next["prune"])

\* When the pruning is due, no row is older than a pruning leaves, and a day,
\* unless the retention is negative.
RowsArePruned ==
  steady /\ days >= 0 => \A r \in rows : next["prune"] <= r + Offset + Age + Day

Inv == TypeOK /\ PruneIsSoon /\ RowsArePruned

-------------------------------------------------------------------------------
(* The schedule *)

\* What NextAt returns is ahead, by a day at most, at the time of the day, and
\* the first such time.
LEMMA NextAtIsFirst ==
  ASSUME NEW t \in Int
  PROVE  /\ NextAt(t, PruneAt) \in Int
         /\ NextAt(t, PruneAt) <= t + Day
         /\ AtPruneTime(NextAt(t, PruneAt))
         /\ \A u \in Int : AtPruneTime(u) /\ u > t => NextAt(t, PruneAt) <= u
<1> DEFINE q == (t - PruneAt) \div Day
<1>0. PruneAt \in Int /\ Day \in Nat \ {0}
  BY ScheduleAssumption, DayAssumption
<1>1. q \in Int /\ Day * q <= t - PruneAt /\ t - PruneAt < Day * q + Day
  BY <1>0, DivisionBounds
<1>2. NextAt(t, PruneAt) = (q + 1) * Day + PruneAt
  BY DEF NextAt
<1> HIDE DEF q
<1>3. (q + 1) * Day = Day * q + Day
  BY <1>0, <1>1
<1>4. \A u \in Int : AtPruneTime(u) /\ u > t => NextAt(t, PruneAt) <= u
  <2> SUFFICES ASSUME NEW u \in Int, NEW k \in Int, u = k * Day + PruneAt, u > t
               PROVE  NextAt(t, PruneAt) <= u
    BY DEF AtPruneTime
  <2>1. k * Day > Day * q
    BY <1>0, <1>1
  <2>2. k >= q + 1
    BY <1>0, <1>1, <2>1
  <2>3. k * Day >= (q + 1) * Day
    BY <1>0, <1>1, <2>2
  <2> QED BY <1>0, <1>1, <1>2, <2>3
<1> QED BY <1>0, <1>1, <1>2, <1>3, <1>4 DEF AtPruneTime

LEMMA NextRunTyped ==
  ASSUME NEW j \in Jobs, NEW t \in Int
  PROVE  NextRun(j, t) \in Int
<1>1. \A at \in Int : NextAt(t, at) \in Int
  <2> SUFFICES ASSUME NEW at \in Int PROVE NextAt(t, at) \in Int
    OBVIOUS
  <2>1. (t - at) \div Day \in Int
    BY DayAssumption, DivisionBounds
  <2> QED BY <2>1, DayAssumption DEF NextAt
<1>2. UpdateAt \in Int /\ PruneAt \in Int /\ Hour \in Int
  BY ScheduleAssumption, DayAssumption
<1> QED BY <1>1, <1>2 DEF NextRun, Jobs

\* All the jobs scheduled from now.
LEMMA ScheduledAnew ==
  ASSUME clock \in Int, next' = [j \in Jobs |-> NextRun(j, Local)]
  PROVE  next' \in [Jobs -> Int] /\ next'["prune"] = NextAt(Local, PruneAt)
<1>1. Local \in Int
  BY OffsetAssumption DEF Local
<1> QED BY <1>1, NextRunTyped DEF NextRun, Jobs

-------------------------------------------------------------------------------
LEMMA Initially == Init => Inv
<1> SUFFICES ASSUME Init PROVE Inv
  OBVIOUS
<1>1. clock \in 0..MaxClock /\ clock \in Int /\ Local \in Int
  BY LogBoundsAssumption, DayAssumption, OffsetAssumption DEF Init, Local
<1>2. next \in [Jobs -> Int] /\ next["prune"] = NextAt(Local, PruneAt)
  BY <1>1, NextRunTyped DEF Init, NextRun, Jobs
<1>3. TypeOK
  BY <1>1, <1>2, LogBoundsAssumption DEF Init, TypeOK
<1>4. PruneIsSoon
  BY <1>1, <1>2, NextAtIsFirst DEF PruneIsSoon
<1>5. RowsArePruned
  BY DEF Init, RowsArePruned
<1> QED BY <1>3, <1>4, <1>5 DEF Inv

\* What every step may use.
LEMMA Typed ==
  ASSUME TypeOK
  PROVE  /\ clock \in Int /\ clock >= 0 /\ Local \in Int /\ Local = clock + Offset
         /\ Offset \in Int /\ Day \in Int /\ Day > 0 /\ -Day < Offset
         /\ days \in Int /\ kept \in Int
         /\ next \in [Jobs -> Int] /\ "prune" \in Jobs
         /\ \A r \in rows : r \in Int
BY DayAssumption, OffsetAssumption, RetentionsAssumption, LogBoundsAssumption
DEF TypeOK, Local, Jobs

\* The age is not negative, and that of the retention at the least.
LEMMA AgeBounds ==
  ASSUME TypeOK, days >= 0
  PROVE  /\ Age \in Int /\ Age >= 0 /\ days * Day \in Int
         /\ Age >= days * Day + Offset
<1>1. days * Day \in Int /\ (days >= 1 => days * Day >= Day)
  BY Typed
<1>2. days = 0 => days * Day = 0
  BY Typed
<1>3. CASE days = 0 /\ Offset < 0
  BY <1>1, <1>2, <1>3, Typed DEF Age
<1>4. CASE ~(days = 0 /\ Offset < 0)
  <2>1. Age = days * Day + Offset
    BY <1>4 DEF Age
  <2> QED BY <1>1, <1>2, <1>4, <2>1, Typed
<1> QED BY <1>3, <1>4

\* A row comes in, before the next pruning by a day at most.
LEMMA InsertKeeps ==
  ASSUME Inv, Insert
  PROVE  Inv'
<1>1. TypeOK'
  BY DEF Inv, TypeOK, Insert
<1>2. PruneIsSoon'
  BY DEF Inv, PruneIsSoon, Insert, Local
<1>3. RowsArePruned'
  <2>1. days >= 0 => next["prune"] <= clock + Offset + Age + Day
    BY AgeBounds, Typed DEF Inv, PruneIsSoon
  <2> QED BY <2>1 DEF Inv, RowsArePruned, Insert, Age
<1> QED BY <1>1, <1>2, <1>3 DEF Inv

\* A longer retention keeps more; a shorter one is not steady.
LEMMA UpdateKeeps ==
  ASSUME Inv, NEW value \in Retentions, UpdateRetention(value)
  PROVE  Inv'
<1>1. TypeOK'
  <2>1. steady' \in BOOLEAN
    BY DEF UpdateRetention
  <2> QED BY <2>1 DEF Inv, TypeOK, UpdateRetention
<1>2. PruneIsSoon'
  BY DEF Inv, PruneIsSoon, UpdateRetention, Local
<1>3. RowsArePruned'
  <2> SUFFICES ASSUME steady', days' >= 0, NEW r \in rows
               PROVE  next["prune"] <= r + Offset + Age' + Day
    BY DEF RowsArePruned, UpdateRetention
  <2>0. value >= 0
    BY DEF UpdateRetention
  <2>1. days' = value /\ value \in Int /\ steady /\ KeepsAsLong(value, days)
    BY RetentionsAssumption DEF UpdateRetention
  <2>2. days >= 0 /\ value >= days
    BY <2>0, <2>1, Typed DEF Inv, KeepsAsLong
  <2>3. Age \in Int /\ next["prune"] <= r + Offset + Age + Day
    BY <2>1, <2>2, AgeBounds DEF Inv, RowsArePruned
  <2>4. Age' \in Int /\ Age' >= Age
    <3>1. days * Day <= value * Day /\ days * Day \in Int /\ value * Day \in Int
      BY <2>1, <2>2, Typed DEF Inv
    <3>2. Age' = IF value = 0 /\ Offset < 0 THEN 0 ELSE value * Day + Offset
      BY <2>1 DEF Age
    <3>3. value >= 1 => value * Day >= Day
      BY <2>1, Typed DEF Inv
    <3>4. value = 0 => days = 0
      BY <2>1, <2>2, Typed DEF Inv
    <3>5. CASE days = 0 /\ Offset < 0
      BY <2>1, <2>2, <3>1, <3>2, <3>3, <3>5, Typed DEF Inv, Age
    <3>6. CASE ~(days = 0 /\ Offset < 0)
      BY <2>1, <2>2, <3>1, <3>2, <3>4, <3>6, Typed DEF Inv, Age
    <3> QED BY <3>5, <3>6
  <2>5. next["prune"] \in Int /\ r \in Int
    BY Typed DEF Inv
  <2> QED BY <2>3, <2>4, <2>5, Typed DEF Inv
<1> QED BY <1>1, <1>2, <1>3 DEF Inv

\* The pruning leaves no row older than the retention; the next one comes
\* within a day.
LEMMA DeleteOldKeeps ==
  ASSUME Inv, DeleteOld
  PROVE  Inv'
<1>0. /\ next' = [next EXCEPT !["prune"] = NextAt(Local, PruneAt)]
      /\ UNCHANGED <<clock, days, kept>>
  BY DEF DeleteOld, Reschedule, NextRun
<1>1. NextAt(Local, PruneAt) \in Int /\ NextAt(Local, PruneAt) <= Local + Day
      /\ AtPruneTime(NextAt(Local, PruneAt))
  BY NextAtIsFirst, Typed DEF Inv
<1>2. next'["prune"] = NextAt(Local, PruneAt)
  BY <1>0, Typed DEF Inv
<1>3. TypeOK'
  <2>1. steady' \in BOOLEAN
    BY DEF DeleteOld, KeepsAsLong
  <2> QED BY <1>0, <1>1, <2>1 DEF Inv, TypeOK, DeleteOld, Reschedule
<1>4. PruneIsSoon'
  BY <1>0, <1>1, <1>2 DEF PruneIsSoon, Local
<1>5. RowsArePruned'
  <2> SUFFICES ASSUME steady', days >= 0, NEW r \in rows'
               PROVE  next'["prune"] <= r + Offset + Age + Day
    BY <1>0 DEF RowsArePruned, Age
  <2>1. r \in rows /\ ~Old(r) /\ KeepsAsLong(days, kept)
    BY DEF DeleteOld
  <2>2. kept >= 0 /\ kept <= days
    BY <2>1, Typed DEF Inv, KeepsAsLong
  <2>3. kept * Day \in Int /\ r \in Int
    BY <2>1, Typed DEF Inv
  <2>4. clock - kept * Day <= r + Offset
    BY <2>1, <2>2, <2>3, SqlStampsCompareTimes, Typed DEF Inv, Old
  <2>5. kept * Day <= days * Day
    BY <2>2, Typed DEF Inv
  <2>6. Age \in Int /\ days * Day \in Int /\ Age >= days * Day + Offset
    BY AgeBounds DEF Inv
  <2> QED BY <1>1, <1>2, <2>3, <2>4, <2>5, <2>6, Typed DEF Inv
<1> QED BY <1>3, <1>4, <1>5 DEF Inv

\* A start schedules everything anew: a pruning that was not due comes no later
\* than it would have.
LEMMA StartKeeps ==
  ASSUME Inv, Start
  PROVE  Inv'
<1>0. next' \in [Jobs -> Int] /\ next'["prune"] = NextAt(Local, PruneAt)
  BY ScheduledAnew, Typed DEF Inv, Start
<1>1. /\ NextAt(Local, PruneAt) <= Local + Day
      /\ AtPruneTime(NextAt(Local, PruneAt))
      /\ next["prune"] > Local => NextAt(Local, PruneAt) <= next["prune"]
  BY NextAtIsFirst, Typed DEF Inv, PruneIsSoon
<1>2. TypeOK'
  <2>1. steady' \in BOOLEAN
    BY DEF Start
  <2> QED BY <1>0, <2>1 DEF Inv, TypeOK, Start
<1>3. PruneIsSoon'
  BY <1>0, <1>1 DEF PruneIsSoon, Start, Local
<1>4. RowsArePruned'
  <2> SUFFICES ASSUME steady', days >= 0, NEW r \in rows
               PROVE  next'["prune"] <= r + Offset + Age + Day
    BY DEF RowsArePruned, Start, Age
  <2>1. steady /\ next["prune"] > Local
    <3>1. steady /\ ~Due("prune")
      BY DEF Start
    <3> QED BY <3>1, Typed DEF Due, Inv
  <2>2. next["prune"] <= r + Offset + Age + Day
    BY <2>1 DEF Inv, RowsArePruned
  <2>3. Age \in Int /\ r \in Int /\ next["prune"] \in Int /\ next'["prune"] \in Int
    BY <1>0, AgeBounds, Typed DEF Inv
  <2> QED BY <1>0, <1>1, <2>1, <2>2, <2>3, Typed DEF Inv
<1> QED BY <1>2, <1>3, <1>4 DEF Inv

\* The other jobs, and time.
LEMMA OthersKeep ==
  ASSUME Inv,
         \/ \E j \in Jobs : Run(j) \/ Finish(j)
         \/ ReadRetention \/ JobFails \/ Crash \/ Tick
         \/ UNCHANGED vars
  PROVE  Inv'
<1>1. ASSUME NEW j \in Jobs, Run(j) PROVE Inv'
  BY <1>1 DEF Inv, TypeOK, PruneIsSoon, RowsArePruned, Age, Run, Local
<1>2. ASSUME NEW j \in Jobs, Finish(j) PROVE Inv'
  <2>1. NextRun(j, Local) \in Int
    BY NextRunTyped, Typed DEF Inv
  <2>2. next' = [next EXCEPT ![j] = NextRun(j, Local)] /\ j # "prune"
    BY <1>2 DEF Finish, Reschedule
  <2>3. next'["prune"] = next["prune"] /\ next' \in [Jobs -> Int]
    BY <2>1, <2>2, Typed DEF Inv
  <2> QED BY <1>2, <2>3 DEF Inv, TypeOK, PruneIsSoon, RowsArePruned, Age, Finish, Reschedule, Local
<1>3. CASE ReadRetention
  BY <1>3 DEF Inv, TypeOK, PruneIsSoon, RowsArePruned, Age, ReadRetention, Local
<1>4. CASE JobFails
  BY <1>4, LogBoundsAssumption DEF Inv, TypeOK, PruneIsSoon, RowsArePruned, Age, JobFails, Local
<1>5. CASE Crash
  <2>1. TypeOK'
    <3>1. stops' \in 0..MaxStops
      BY <1>5, LogBoundsAssumption DEF Inv, TypeOK, Crash
    <3>2. up' \in BOOLEAN
      BY <1>5 DEF Crash
    <3>3. /\ thread' = "gone"
          /\ UNCHANGED <<clock, rows, days, next, kept, steady>>
      BY <1>5 DEF Crash
    <3> QED BY <3>1, <3>2, <3>3 DEF Inv, TypeOK
  <2>2. PruneIsSoon' /\ RowsArePruned'
    BY <1>5 DEF Inv, PruneIsSoon, RowsArePruned, Age, Crash, Local
  <2> QED BY <2>1, <2>2 DEF Inv
<1>6. CASE Tick
  <2>1. TypeOK'
    BY <1>6, LogBoundsAssumption DEF Inv, TypeOK, Tick
  <2>2. PruneIsSoon'
    BY <1>6, Typed DEF Inv, PruneIsSoon, Tick, Local
  <2>3. RowsArePruned'
    BY <1>6 DEF Inv, RowsArePruned, Age, Tick
  <2> QED BY <2>1, <2>2, <2>3 DEF Inv
<1>7. CASE UNCHANGED vars
  BY <1>7 DEF Inv, TypeOK, PruneIsSoon, RowsArePruned, Age, vars, Local
<1> QED BY <1>1, <1>2, <1>3, <1>4, <1>5, <1>6, <1>7

LEMMA InvInductive == Spec => []Inv
<1>1. Init => Inv
  BY Initially
<1>2. Inv /\ [Next]_vars => Inv'
  BY InsertKeeps, UpdateKeeps, DeleteOldKeeps, StartKeeps, OthersKeep DEF Next
<1> QED BY <1>1, <1>2, PTL DEF Spec

-------------------------------------------------------------------------------
\* The table, the schedule and the scheduler's thread keep their types; no row
\* is from the future.
THEOREM TypeCorrect == Spec => []TypeOK
<1>1. Inv => TypeOK
  BY DEF Inv
<1> QED BY <1>1, InvInductive, PTL

\* Unless the retention is negative, rows go at the retention, a day and the
\* offset, but for what the pruning is late.
THEOREM OldRowsAreDeleted == Spec => []OldRowsGo
<1>1. Inv => OldRowsGo
  <2> SUFFICES ASSUME Inv, steady, days >= 0, NEW r \in rows
               PROVE  clock - r <= Age + Day + Lag
    BY DEF OldRowsGo
  <2>1. next["prune"] <= r + Offset + Age + Day
    BY DEF Inv, RowsArePruned
  <2>2. Age \in Int /\ r \in Int /\ next["prune"] \in Int
    BY AgeBounds, Typed DEF Inv
  <2>3. CASE Due("prune")
    BY <2>1, <2>2, <2>3, Typed DEF Inv, Lag, Due
  <2>4. CASE ~Due("prune")
    BY <2>1, <2>2, <2>4, Typed DEF Inv, Lag, Due
  <2> QED BY <2>3, <2>4
<1> QED BY <1>1, InvInductive, PTL

\* The pruning deletes nothing that the statistics of the day count, unless it
\* has read a retention of 0.
THEOREM TodayIsKept == Spec => TodayNeverShrinks
<1>1. Inv /\ [Next]_vars
      => [Date(SqlUtc(clock')) = Date(SqlUtc(clock))
          => Today \subseteq Today' \/ (thread = "delete" /\ kept = 0)]_vars
  <2> SUFFICES ASSUME Inv, Next, Date(SqlUtc(clock')) = Date(SqlUtc(clock)),
                      ~(thread = "delete" /\ kept = 0), NEW r \in Today
               PROVE  r \in Today'
    OBVIOUS
  <2>1. r \in rows /\ ~Greater(SqlUtc(Day * Date(SqlUtc(clock))), SqlLocal(r))
    BY DEF Today
  <2>2. r \in rows' => r \in Today'
    BY <2>1 DEF Today
  <2>3. CASE DeleteOld
    <3> DEFINE D == clock \div Day
    <3>0. clock \in Int /\ Day \in Nat \ {0}
      BY DayAssumption, Typed DEF Inv
    <3>1. D \in Int /\ clock < Day * D + Day /\ Day * D \in Int
      BY <3>0, DivisionBounds
    <3>2. Date(SqlUtc(clock)) = D
      BY DEF Date, SqlUtc
    <3> HIDE DEF D
    <3>3. Day * D <= r + Offset
      BY <2>1, <3>1, <3>2, SqlStampsCompareTimes, Typed DEF Inv
    <3>4. kept # 0
      BY <2>3 DEF DeleteOld
    <3>5. kept >= 0 => kept * Day \in Int /\ kept * Day >= Day
      BY <3>4, Typed DEF Inv
    <3>6. kept >= 0 => ~(clock - kept * Day > r + Offset)
      BY <2>1, <3>1, <3>3, <3>5, Typed DEF Inv
    <3>7. ~Old(r)
      BY <2>1, <3>5, <3>6, SqlStampsCompareTimes, Typed DEF Inv, Old
    <3> QED BY <2>1, <2>2, <2>3, <3>7 DEF DeleteOld
  <2>4. CASE ~DeleteOld
    <3>1. rows \subseteq rows'
      BY <2>4 DEF Next, Insert, UpdateRetention, Run, Finish, ReadRetention,
                  JobFails, Crash, Start, Tick
    <3> QED BY <2>1, <2>2, <3>1
  <2> QED BY <2>3, <2>4
<1> QED BY <1>1, InvInductive, PTL DEF TodayNeverShrinks, Spec
===============================================================================
