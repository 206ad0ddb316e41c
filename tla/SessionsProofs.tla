----------------------------- MODULE SessionsProofs -----------------------------
(***************************************************************************)
(* What the comparison of timestamps does to sessions, for every length of *)
(* a day, every offset of the local time, every timeout, any number of     *)
(* sessions and of logins under way.                                       *)
(***************************************************************************)
EXTENDS Sessions, SequenceTheorems, FiniteSetTheorems, TLAPS

(***************************************************************************)
(* Division                                                                *)
(***************************************************************************)

LEMMA DivisionBounds ==
  ASSUME NEW d \in Nat \ {0}, NEW a \in Int
  PROVE  /\ a \div d \in Int
         /\ d * (a \div d) <= a
         /\ a < d * (a \div d) + d
  OBVIOUS

LEMMA DivisionIsMonotone ==
  ASSUME NEW d \in Nat \ {0}, NEW a \in Int, NEW b \in Int, a <= b
  PROVE  a \div d <= b \div d
  OBVIOUS

(***************************************************************************)
(* Types                                                                   *)
(***************************************************************************)

LEMMA IdleTaskTyped == IdleTask \in Task
BY IpsAssumption DEF IdleTask, Task

LEMMA GotoTyped ==
  ASSUME TypeOK, NEW t \in Tasks, NEW pc \in {"idle", "verify", "record", "create"},
         Goto(t, pc)
  PROVE  task' \in [Tasks -> Task]
<1> DEFINE new == [task[t] EXCEPT !.pc = pc]
<1>1. task \in [Tasks -> Task]
  BY DEF TypeOK
<1>2. new \in Task
  BY <1>1 DEF Task
<1>3. task' = [task EXCEPT ![t] = IF pc = "idle" THEN IdleTask ELSE new]
  BY DEF Goto
<1> HIDE DEF new
<1> QED
  BY <1>1, <1>2, <1>3, IdleTaskTyped

LEMMA AttemptsLater ==
  ASSUME NEW a \in Nat, NEW b \in Nat, a <= b,
         NEW s \in Seq([ip : Ips, at : 0..a])
  PROVE  s \in Seq([ip : Ips, at : 0..b])
<1>1. [ip : Ips, at : 0..a] \subseteq [ip : Ips, at : 0..b]
  OBVIOUS
<1> QED
  BY <1>1, SeqMonotonic

\* The tables and the logins under way keep their types.
THEOREM TypeCorrect == Spec => []TypeOK
<1>1. Init => TypeOK
  <2> SUFFICES ASSUME Init
               PROVE  TypeOK
    OBVIOUS
  <2>1. clock \in 0..MaxClock
    BY DayAssumption, MaxClockAssumption DEF Init
  <2>2. attempts \in Seq([ip : Ips, at : 0..clock]) /\ Len(attempts) <= MaxFailures
    BY EmptySeq, MaxClockAssumption DEF Init
  <2>3. sessions \in [Tokens -> Session]
    BY DEF Init, Session
  <2>4. task \in [Tasks -> Task]
    BY IdleTaskTyped DEF Init
  <2> QED
    BY <2>1, <2>2, <2>3, <2>4 DEF Init, TypeOK
<1>2. TypeOK /\ [Next]_vars => TypeOK'
  <2> SUFFICES ASSUME TypeOK, [Next]_vars
               PROVE  TypeOK'
    OBVIOUS
  <2>0. /\ clock \in 0..MaxClock /\ clock \in Nat /\ timeout \in Timeouts /\ timeout \in Int
        /\ attempts \in Seq([ip : Ips, at : 0..clock]) /\ Len(attempts) <= MaxFailures
        /\ sessions \in [Tokens -> Session]
        /\ task \in [Tasks -> Task]
    BY TimeoutsAssumption, MaxClockAssumption DEF TypeOK
  <2>1. CASE UNCHANGED vars
    BY <2>1, <2>0 DEF vars, TypeOK
  <2>2. ASSUME NEW t \in Tasks, NEW ip \in Ips, NEW right \in BOOLEAN, Login(t, ip, right)
        PROVE  TypeOK'
    <3>1. [pc |-> "check", ip |-> ip, right |-> right] \in Task
      BY DEF Task
    <3>2. task' \in [Tasks -> Task]
      BY <2>2, <2>0, <3>1 DEF Login
    <3> QED
      BY <2>0, <2>2, <3>2 DEF Login, TypeOK
  <2>3. ASSUME NEW t \in Tasks, CheckLockout(t)
        PROVE  TypeOK'
    <3>1. task' \in [Tasks -> Task]
      <4>1. CASE Locked(task[t].ip)
        BY <2>3, <4>1, GotoTyped DEF CheckLockout
      <4>2. CASE ~Locked(task[t].ip)
        BY <2>3, <4>2, GotoTyped DEF CheckLockout
      <4> QED
        BY <4>1, <4>2
    <3> QED
      BY <2>0, <2>3, <3>1 DEF CheckLockout, TypeOK
  <2>4. ASSUME NEW t \in Tasks, VerifyCredentials(t)
        PROVE  TypeOK'
    <3>1. task' \in [Tasks -> Task]
      <4>1. CASE task[t].right
        BY <2>4, <4>1, GotoTyped DEF VerifyCredentials
      <4>2. CASE ~task[t].right
        BY <2>4, <4>2, GotoTyped DEF VerifyCredentials
      <4> QED
        BY <4>1, <4>2
    <3> QED
      BY <2>0, <2>4, <3>1 DEF VerifyCredentials, TypeOK
  <2>5. ASSUME NEW t \in Tasks, RecordAttempt(t)
        PROVE  TypeOK'
    <3>1. task' \in [Tasks -> Task]
      BY <2>5, GotoTyped DEF RecordAttempt
    <3>2. [ip |-> task[t].ip, at |-> clock] \in [ip : Ips, at : 0..clock]
      BY <2>0 DEF Task
    <3>3. /\ attempts' \in Seq([ip : Ips, at : 0..clock])
          /\ Len(attempts') = Len(attempts) + 1
      BY <2>0, <2>5, <3>2 DEF RecordAttempt
    <3>4. Len(attempts') <= MaxFailures
      BY <2>0, <2>5, <3>3, MaxClockAssumption DEF RecordAttempt
    <3> QED
      BY <2>0, <2>5, <3>1, <3>3, <3>4 DEF RecordAttempt, TypeOK
  <2>6. ASSUME NEW t \in Tasks, CreateSession(t)
        PROVE  TypeOK'
    <3>1. task' \in [Tasks -> Task]
      BY <2>6, GotoTyped DEF CreateSession
    <3>2. [state |-> "present", expires |-> clock + timeout,
           cookie |-> clock + CookieAge] \in Session
      BY <2>0, TimeoutsAssumption DEF Session
    <3>3. sessions' \in [Tokens -> Session]
      BY <2>0, <2>6, <3>2 DEF CreateSession
    <3> QED
      BY <2>0, <2>6, <3>1, <3>3 DEF CreateSession, TypeOK
  <2>7. ASSUME NEW k \in Tokens, DestroySession(k)
        PROVE  TypeOK'
    <3>1. sessions' \in [Tokens -> Session]
      BY <2>0, <2>7 DEF DestroySession, Session
    <3> QED
      BY <2>0, <2>7, <3>1 DEF DestroySession, TypeOK
  <2>8. CASE Purge
    <3>1. sessions' \in [Tokens -> Session]
      BY <2>0, <2>8 DEF Purge, Session
    <3> QED
      BY <2>0, <2>8, <3>1 DEF Purge, TypeOK
  <2>9. ASSUME NEW value \in Timeouts, UpdateTimeout(value)
        PROVE  TypeOK'
    BY <2>0, <2>9 DEF UpdateTimeout, TypeOK
  <2>10. CASE Tick
    <3>1. clock' \in 0..MaxClock /\ clock' \in Nat /\ clock <= clock'
      BY <2>0, <2>10, MaxClockAssumption DEF Tick
    <3>2. attempts' \in Seq([ip : Ips, at : 0..clock'])
      BY <2>0, <2>10, <3>1, AttemptsLater DEF Tick
    <3> QED
      BY <2>0, <2>10, <3>1, <3>2 DEF Tick, TypeOK
  <2> QED
    BY <2>1, <2>2, <2>3, <2>4, <2>5, <2>6, <2>7, <2>8, <2>9, <2>10 DEF Next
<1> QED
  BY <1>1, <1>2, PTL DEF Spec

(***************************************************************************)
(* How long a session is good                                              *)
(***************************************************************************)

LEMMA Typed ==
  ASSUME TypeOK
  PROVE  /\ clock \in Nat /\ clock \in Int /\ clock + Offset \in Int
         /\ \A k \in Tokens : sessions[k].expires \in Int
BY MaxClockAssumption, OffsetAssumption DEF TypeOK, Session

\* validate_session looks at the dates only.
LEMMA ValidComparesDates ==
  ASSUME TypeOK, NEW k \in Tokens
  PROVE  Greater(Isoformat(sessions[k].expires), SqlLocal(clock))
           <=> sessions[k].expires \div Day >= (clock + Offset) \div Day
<1>1. /\ sessions[k].expires \div Day \in Int
      /\ (clock + Offset) \div Day \in Int
  BY Typed, DivisionBounds, DayAssumption
<1> QED
  BY <1>1 DEF Greater, Isoformat, SqlLocal, Date

\* No session is good for longer after its expiry than a day and the time local
\* time is behind UTC, or, where it is ahead, a day less that.
THEOREM SessionsEnd == Spec => []EndsByDayAndOffset
<1>1. TypeOK => EndsByDayAndOffset
  <2> SUFFICES ASSUME TypeOK, NEW k \in Tokens, Valid(k)
               PROVE  clock < sessions[k].expires + Day - Offset
    BY DEF EndsByDayAndOffset
  <2> DEFINE e == sessions[k].expires
             n == clock + Offset
  <2>1. e \in Int /\ n \in Int
    BY Typed
  <2>2. e \div Day >= n \div Day
    BY ValidComparesDates DEF Valid
  <2>3. /\ e \div Day \in Int /\ Day * (e \div Day) <= e
        /\ n \div Day \in Int /\ n < Day * (n \div Day) + Day
    BY <2>1, DivisionBounds, DayAssumption
  <2>4. Day * (n \div Day) <= Day * (e \div Day)
    BY <2>2, <2>3, DayAssumption
  <2>5. Day * (n \div Day) \in Int /\ Day * (e \div Day) \in Int
    BY <2>3, DayAssumption
  <2>6. n < e + Day
    <3> HIDE DEF e, n
    <3> QED
      BY <2>1, <2>3, <2>4, <2>5, DayAssumption
  <2> QED
    BY <2>6, Typed, OffsetAssumption, DayAssumption
<1> QED
  BY <1>1, TypeCorrect, PTL

\* Where the local time is not ahead of UTC, a session that has not expired is
\* valid.
LEMMA UnexpiredIsGreater ==
  ASSUME TypeOK, Offset <= 0, NEW k \in Tokens, clock < sessions[k].expires
  PROVE  Greater(Isoformat(sessions[k].expires), SqlLocal(clock))
<1>1. clock + Offset \in Int /\ sessions[k].expires \in Int
      /\ clock + Offset <= sessions[k].expires
  BY Typed, OffsetAssumption
<1>2. (clock + Offset) \div Day <= sessions[k].expires \div Day
  BY <1>1, DivisionIsMonotone, DayAssumption
<1>3. (clock + Offset) \div Day \in Int /\ sessions[k].expires \div Day \in Int
  BY <1>1, DivisionBounds, DayAssumption
<1> QED
  BY <1>2, <1>3, ValidComparesDates

\* What a purge deleted had expired.
PurgedHadExpired ==
  \A k \in Tokens : sessions[k].state = "purged" => sessions[k].expires <= clock

\* Where the local time is not ahead of UTC, the server takes the token of a
\* session until it expires: neither validate_session nor the purge ends it
\* before.
THEOREM SessionsLast ==
  ASSUME Offset <= 0
  PROVE  Spec => []NotCutShort
<1>1. Init => PurgedHadExpired
  BY DEF Init, PurgedHadExpired
<1>2. TypeOK /\ PurgedHadExpired /\ [Next]_vars => PurgedHadExpired'
  <2> SUFFICES ASSUME TypeOK, PurgedHadExpired, [Next]_vars, NEW k \in Tokens,
                      sessions'[k].state = "purged"
               PROVE  sessions'[k].expires <= clock'
    BY DEF PurgedHadExpired
  <2>0. clock \in Nat /\ sessions \in [Tokens -> Session]
    BY Typed DEF TypeOK
  <2>1. CASE sessions'[k] = sessions[k]
    <3>1. clock' = clock \/ clock' = clock + 1
      BY DEF Next, vars, Login, CheckLockout, VerifyCredentials, RecordAttempt,
             CreateSession, DestroySession, Purge, UpdateTimeout, Tick
    <3>2. sessions[k].expires <= clock /\ sessions[k].expires \in Int
      BY <2>1, Typed DEF PurgedHadExpired
    <3> QED
      BY <2>0, <2>1, <3>1, <3>2
  <2>2. CASE sessions'[k] # sessions[k]
    <3>1. \/ \E t \in Tasks : CreateSession(t)
          \/ \E j \in Tokens : DestroySession(j)
          \/ Purge
      BY <2>2 DEF Next, vars, Login, CheckLockout, VerifyCredentials,
                  RecordAttempt, UpdateTimeout, Tick
    <3>2. Purge
      <4>1. ASSUME NEW t \in Tasks, CreateSession(t)
            PROVE  FALSE
        <5>1. PICK j \in Tokens :
                sessions' = [sessions EXCEPT ![j] = [state |-> "present",
                                                     expires |-> clock + timeout,
                                                     cookie |-> clock + CookieAge]]
          BY <4>1 DEF CreateSession
        <5> QED
          BY <2>0, <2>2, <5>1
      <4>2. ASSUME NEW j \in Tokens, DestroySession(j)
            PROVE  FALSE
        BY <2>0, <2>2, <4>2 DEF DestroySession, Session
      <4> QED
        BY <3>1, <4>1, <4>2
    <3>3. /\ ~Greater(Isoformat(sessions[k].expires), SqlLocal(clock))
          /\ sessions'[k].expires = sessions[k].expires
          /\ clock' = clock
      BY <2>0, <2>2, <3>2 DEF Purge, Session
    <3>4. sessions[k].expires \in Int
      BY Typed
    <3>5. ~(clock < sessions[k].expires)
      BY <3>3, UnexpiredIsGreater
    <3> QED
      BY <2>0, <3>3, <3>4, <3>5
  <2> QED
    BY <2>1, <2>2
<1>3. TypeOK /\ PurgedHadExpired => NotCutShort
  <2> SUFFICES ASSUME TypeOK, PurgedHadExpired, NEW k \in Tokens,
                      sessions[k].state \in {"present", "purged"},
                      clock < sessions[k].expires
               PROVE  Valid(k)
    BY DEF NotCutShort
  <2>1. sessions[k].state = "present"
    BY Typed DEF PurgedHadExpired
  <2> QED
    BY <2>1, UnexpiredIsGreater DEF Valid
<1> QED
  BY <1>1, <1>2, <1>3, TypeCorrect, PTL DEF Spec

(***************************************************************************)
(* Lockouts                                                                *)
(***************************************************************************)

\* Where the local time is not ahead of UTC, an attempt that counts is recent.
LEMMA CountedIsRecent ==
  ASSUME Offset <= 0, NEW at \in Nat, NEW window \in Int,
         Greater(SqlLocal(at), Isoformat(window))
  PROVE  at > window
<1>1. at + Offset \in Int
  BY OffsetAssumption
<1>2. /\ (at + Offset) \div Day \in Int
      /\ window \div Day \in Int
  BY <1>1, DivisionBounds, DayAssumption
<1>3. (at + Offset) \div Day > window \div Day
  BY <1>2 DEF Greater, SqlLocal, Isoformat, Date
<1>4. ~(at + Offset <= window)
  BY <1>1, <1>2, <1>3, DivisionIsMonotone, DayAssumption
<1> QED
  BY <1>1, <1>4, OffsetAssumption

\* Where the local time is not ahead of UTC, nobody is locked out but for
\* failures within the last Lockout ticks.
THEOREM LockoutsAreDue ==
  ASSUME Offset <= 0
  PROVE  Spec => []LockedForCause
<1>1. TypeOK => LockedForCause
  <2> SUFFICES ASSUME TypeOK, NEW ip \in Ips, Locked(ip)
               PROVE  Recent(ip) >= MaxAttempts
    BY DEF LockedForCause
  <2> DEFINE C == {n \in DOMAIN attempts :
                     /\ attempts[n].ip = ip
                     /\ Greater(SqlLocal(attempts[n].at), Isoformat(clock - Lockout))}
             R == {n \in DOMAIN attempts :
                     attempts[n].ip = ip /\ attempts[n].at > clock - Lockout}
  <2>1. attempts \in Seq([ip : Ips, at : 0..clock]) /\ clock \in Nat
    BY Typed DEF TypeOK
  <2>2. /\ DOMAIN attempts = 1..Len(attempts)
        /\ Len(attempts) \in Nat
        /\ \A n \in DOMAIN attempts : attempts[n].at \in Nat
    <3> DEFINE Attempt == [ip : Ips, at : 0..clock]
    <3>1. attempts \in Seq(Attempt)
      BY <2>1
    <3>2. /\ DOMAIN attempts = 1..Len(attempts)
          /\ Len(attempts) \in Nat
          /\ \A n \in 1..Len(attempts) : attempts[n] \in Attempt
      <4> HIDE DEF Attempt
      <4> QED
        BY <3>1, LenProperties, ElementOfSeq
    <3>3. \A n \in 1..Len(attempts) : attempts[n].at \in Nat
      BY <3>2, <2>1
    <3> QED
      BY <3>2, <3>3
  <2>3. C \subseteq R
    <3> SUFFICES ASSUME NEW n \in C
                 PROVE  attempts[n].at > clock - Lockout
      OBVIOUS
    <3>1. attempts[n].at \in Nat /\ clock - Lockout \in Int
      BY <2>1, <2>2, AttemptsAssumption
    <3> QED
      BY <3>1, CountedIsRecent
  <2>4. IsFiniteSet(R)
    <3>1. IsFiniteSet(1..Len(attempts))
      BY <2>2, FS_Interval
    <3> QED
      BY <2>2, <3>1, FS_Subset
  <2>5. Cardinality(C) <= Cardinality(R) /\ Cardinality(C) \in Nat /\ Cardinality(R) \in Nat
    BY <2>3, <2>4, FS_Subset, FS_CardinalityType
  <2>6. Cardinality(C) >= MaxAttempts
    BY DEF Locked, Counted
  <2> HIDE DEF C, R
  <2>7. Cardinality(R) >= MaxAttempts
    BY <2>5, <2>6, AttemptsAssumption
  <2> QED
    BY <2>7 DEF Recent, R
<1> QED
  BY <1>1, TypeCorrect, PTL
===============================================================================
