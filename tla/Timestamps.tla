------------------------------- MODULE Timestamps -------------------------------
(***************************************************************************)
(* The timestamps HexBlock stores and compares, which are strings.  Python *)
(* writes "2026-05-22T13:05:00.123456+00:00" (isoformat, in UTC), SQLite   *)
(* "2026-05-22 13:05:00" (datetime, in UTC or in local time).  Comparing   *)
(* two of them compares the dates first; on one date, a "T" is greater     *)
(* than a space; and only two of one style get as far as their times.      *)
(***************************************************************************)
EXTENDS Integers

CONSTANTS
  Day,     \* ticks in a day
  Offset   \* ticks local time is ahead of UTC

ASSUME DayAssumption == Day \in Nat \ {0}
ASSUME OffsetAssumption == Offset \in Int /\ -Day < Offset /\ Offset < Day

\* datetime.now(timezone.utc) ... .isoformat()
Isoformat(time) == [style |-> "T", time |-> time]

\* Mutant: the offset is taken away.
SqlBehind(time) == [style |-> " ", time |-> time - Offset]

\* datetime('now'), shifted or not
SqlUtc(time) == [style |-> " ", time |-> time]

\* datetime('now', 'localtime')
SqlLocal(time) == [style |-> " ", time |-> time + Offset]

Date(stamp) == stamp.time \div Day

Greater(a, b) ==
  \/ Date(a) > Date(b)
  \/ /\ Date(a) = Date(b)
     /\ \/ a.style = "T" /\ b.style = " "
        \/ a.style = b.style /\ a.time > b.time
===============================================================================
