-------------------------------- MODULE Sessions --------------------------------
(***************************************************************************)
(* Logins and sessions of HexBlock: the tables login_attempts and          *)
(* sessions, the login handler with the lockout it asks for, logout, the   *)
(* session_timeout setting, the hourly purge, and the browser's cookie.    *)
(*                                                                         *)
(* A login is several transactions; other requests come between them, and  *)
(* time passes.  clock is the time in UTC.                                 *)
(***************************************************************************)
EXTENDS Timestamps, Sequences, FiniteSets

CONSTANTS
  Ips,         \* addresses that log in
  Tokens,      \* session tokens: each login makes one of its own
  Tasks,       \* slots for logins under way
  MaxAttempts, \* max_login_attempts
  Lockout,     \* lockout_seconds
  Timeouts,    \* values of session_timeout, any integer
  CookieAge,   \* max_age of the cookie hb_session
  MaxFailures, \* bound: failed attempts recorded
  MaxClock     \* bound: the end of time

ASSUME IpsAssumption == Ips # {}
ASSUME AttemptsAssumption == MaxAttempts \in Nat \ {0} /\ Lockout \in Nat
ASSUME TimeoutsAssumption == Timeouts \subseteq Int /\ Timeouts # {} /\ CookieAge \in Nat
ASSUME MaxClockAssumption == MaxFailures \in Nat /\ MaxClock \in Nat /\ MaxClock >= Day

VARIABLES
  clock,     \* the time, in UTC
  timeout,   \* the session_timeout setting
  attempts,  \* the failed rows of login_attempts
  sessions,  \* the sessions table
  task       \* the logins under way

vars == <<clock, timeout, attempts, sessions, task>>

\* A deleted session was ended by a logout or by the purge; expires is in UTC.
\* cookie is when the browser that logged in stops sending the token.
Session == [state : {"unused", "present", "loggedOut", "purged"},
            expires : Int, cookie : Nat]

Task == [pc : {"idle", "check", "verify", "record", "create"}, ip : Ips,
         right : BOOLEAN]   \* the password is right

TypeOK ==
  /\ clock \in 0..MaxClock
  /\ timeout \in Timeouts
  /\ attempts \in Seq([ip : Ips, at : 0..clock]) /\ Len(attempts) <= MaxFailures
  /\ sessions \in [Tokens -> Session]
  /\ task \in [Tasks -> Task]

At(t, pc) == task[t].pc = pc

IdleTask == [pc |-> "idle", ip |-> CHOOSE ip \in Ips : TRUE, right |-> FALSE]

Goto(t, pc) ==
  task' = [task EXCEPT ![t] = IF pc = "idle" THEN IdleTask ELSE [@ EXCEPT !.pc = pc]]

-------------------------------------------------------------------------------
(* Mutants: errors the checks must notice *)

\* The lockout counts the attempts of every address.
CountedOfAll(ip) ==
  Cardinality({n \in DOMAIN attempts :
    Greater(SqlLocal(attempts[n].at), Isoformat(clock - Lockout))})

\* The hourly purge is trusted to have deleted what has expired.
ValidIfPresent(k) == sessions[k].state = "present"

-------------------------------------------------------------------------------
(* Reading the tables *)

\* The COUNT of check_lockout.
Counted(ip) ==
  Cardinality({n \in DOMAIN attempts :
    /\ attempts[n].ip = ip
    /\ Greater(SqlLocal(attempts[n].at), Isoformat(clock - Lockout))})

Locked(ip) == Counted(ip) >= MaxAttempts

\* validate_session.
Valid(k) ==
  /\ sessions[k].state = "present"
  /\ Greater(Isoformat(sessions[k].expires), SqlLocal(clock))

\* The browser still sends the token.
Sent(k) == sessions[k].state # "unused" /\ clock < sessions[k].cookie

\* require_auth: the requests that come with the token are let through.
SignedIn(k) == Sent(k) /\ Valid(k)

-------------------------------------------------------------------------------
(* Logging in and out *)

Login(t, ip, right) ==
  /\ At(t, "idle")
  /\ task' = [task EXCEPT ![t] = [pc |-> "check", ip |-> ip, right |-> right]]
  /\ UNCHANGED <<clock, timeout, attempts, sessions>>

CheckLockout(t) ==
  /\ At(t, "check")
  /\ Goto(t, IF Locked(task[t].ip) THEN "idle" ELSE "verify")
  /\ UNCHANGED <<clock, timeout, attempts, sessions>>

VerifyCredentials(t) ==
  /\ At(t, "verify")
  /\ Goto(t, IF task[t].right THEN "create" ELSE "record")
  /\ UNCHANGED <<clock, timeout, attempts, sessions>>

\* Successful attempts are recorded too, and never read.
RecordAttempt(t) ==
  /\ At(t, "record")
  /\ Len(attempts) < MaxFailures
  /\ attempts' = Append(attempts, [ip |-> task[t].ip, at |-> clock])
  /\ Goto(t, "idle")
  /\ UNCHANGED <<clock, timeout, sessions>>

CreateSession(t) ==
  /\ At(t, "create")
  /\ \E k \in Tokens :
       /\ sessions[k].state = "unused"
       /\ sessions' = [sessions EXCEPT ![k] = [state |-> "present",
            expires |-> clock + timeout, cookie |-> clock + CookieAge]]
  /\ Goto(t, "idle")
  /\ UNCHANGED <<clock, timeout, attempts>>

\* The logout of a session that is not good any more deletes its row as well.
DestroySession(k) ==
  /\ Sent(k)
  /\ sessions[k].state = "present"
  /\ sessions' = [sessions EXCEPT ![k].state = "loggedOut"]
  /\ UNCHANGED <<clock, timeout, attempts, task>>

-------------------------------------------------------------------------------
(* The purge, the setting and the time *)

\* purge_expired_sessions.
Purge ==
  /\ sessions' = [k \in Tokens |->
       IF /\ sessions[k].state = "present"
          /\ ~Greater(Isoformat(sessions[k].expires), SqlLocal(clock))
       THEN [sessions[k] EXCEPT !.state = "purged"] ELSE sessions[k]]
  /\ UNCHANGED <<clock, timeout, attempts, task>>

UpdateTimeout(value) ==
  /\ \E k \in Tokens : SignedIn(k)
  /\ timeout' = value
  /\ UNCHANGED <<clock, attempts, sessions, task>>

Tick ==
  /\ clock < MaxClock
  /\ clock' = clock + 1
  /\ UNCHANGED <<timeout, attempts, sessions, task>>

-------------------------------------------------------------------------------
\* The clock starts somewhere on the second day.
Init ==
  /\ clock = Day
  /\ timeout \in Timeouts
  /\ attempts = <<>>
  /\ sessions = [k \in Tokens |-> [state |-> "unused", expires |-> 0, cookie |-> 0]]
  /\ task = [t \in Tasks |-> IdleTask]

Next ==
  \/ \E t \in Tasks :
       \/ \E ip \in Ips, right \in BOOLEAN : Login(t, ip, right)
       \/ CheckLockout(t)
       \/ VerifyCredentials(t)
       \/ RecordAttempt(t)
       \/ CreateSession(t)
  \/ \E k \in Tokens : DestroySession(k)
  \/ Purge
  \/ \E value \in Timeouts : UpdateTimeout(value)
  \/ Tick

Spec == Init /\ [][Next]_vars

-------------------------------------------------------------------------------
(* Properties *)

\* The attempts of ip that failed within the last Lockout ticks.
Recent(ip) ==
  Cardinality({n \in DOMAIN attempts :
    attempts[n].ip = ip /\ attempts[n].at > clock - Lockout})

\* An address is locked out after its last failures, and not for longer than
\* Lockout.  (login_submit says "Please wait 5 minutes.")
LockedForCause == \A ip \in Ips : Locked(ip) => Recent(ip) >= MaxAttempts

\* Of a session whose user has not logged out the server takes the token until
\* it expires: neither the comparison of stamps in two formats nor the purge
\* makes validate_session refuse it before.  (The browser may stop sending it
\* earlier: that is Sent.)
NotCutShort ==
  \A k \in Tokens :
    /\ sessions[k].state \in {"present", "purged"}
    /\ clock < sessions[k].expires
    => Valid(k)

\* validate_session takes no token for longer after its expiry than a day and
\* the time local time is behind UTC, whether the purge runs or not.
EndsByDayAndOffset ==
  \A k \in Tokens : Valid(k) => clock < sessions[k].expires + Day - Offset
===============================================================================
