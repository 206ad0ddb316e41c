------------------------------- MODULE Dashboard -------------------------------
(***************************************************************************)
(* The dashboard of HexBlock in the browser (static/js/dashboard.js).      *)
(*                                                                         *)
(* goPage replaces the content by the skeleton of a page and starts the    *)
(* calls that fill it.  The calls are served one by one, in any order, and *)
(* each may fail; what an answer changes is looked up by element id in     *)
(* whatever content is there when it comes.  Meanwhile a timer polls the   *)
(* statistics and a stream brings every query that is logged.  A callback  *)
(* runs alone: JavaScript has one thread.                                  *)
(***************************************************************************)
EXTENDS Naturals, Sequences, FiniteSets, SequencesExt

CONSTANTS
  Lists,       \* the pages that show one table: blocklists, rules, DNS records
  Filters,     \* of the query log
  All,         \* the filter there is at first
  Asked,       \* a request that has not been answered
  Done,        \* the answer to a change
  Failed,      \* the request failed
  None,        \* an element that is not filled in
  LogRows,     \* 50: rows kept in the live log
  MaxEvents,   \* bound: queries logged
  MaxClicks,   \* bound: what the user does
  MaxCalls,    \* bound: calls under way at once
  MaxFailures  \* bound: calls that fail

ASSUME ListsAssumption == Lists \cap {"dashboard", "querylog", "devices"} = {}
ASSUME FiltersAssumption == All \in Filters
ASSUME AnswersAssumption ==
  /\ Asked \notin {Done, Failed} \cup Nat \cup Filters
  /\ Failed \notin {Done} \cup Nat \cup Filters
ASSUME LogRowsAssumption == LogRows \in Nat \ {0}
ASSUME BoundsAssumption ==
  /\ MaxEvents \in Nat /\ MaxClicks \in Nat
  /\ MaxCalls \in Nat \ {0} /\ MaxFailures \in Nat

VARIABLES
  page,     \* HB.page
  filter,   \* HB.qlFilter
  content,  \* what the elements in #content show
  calls,    \* the calls under way, in the order they were made
  live,     \* HB.liveLog, newest first
  qCount,   \* HB._qCount
  logged,   \* the queries in query_log, numbered 1, 2, ...
  feed,     \* messages of /stream that are still to come
  version,  \* how often each table has been changed from this dashboard
  clicks, failures,
  excused   \* history: pages a call failed for, or answers came to out of order

vars == <<page, filter, content, calls, live, qCount, logged, feed, version,
          clicks, failures, excused>>

Tables == Lists \cup {"devices"}
Pages == Tables \cup {"dashboard", "querylog"}
\* The skeleton of a page: nothing is filled in, no filter is highlighted.
Blank(p) == [page |-> p, rows |-> None, button |-> None, queries |-> None,
             log |-> <<>>]

\* A call with its answers, one for every request it waits for.
Parts(kind) == CASE kind = "render" -> {"stats", "log"}
                 [] kind = "poll"   -> {"stats"}
                 [] OTHER           -> {"rows"}
Call(kind, of) == [kind |-> kind, of |-> of,
                   got |-> [part \in Parts(kind) |-> Asked]]

\* What rendering a page asks for.
Load(p) == CASE p = "dashboard" -> Call("render", p)
             [] p = "querylog"  -> Call("log", filter)
             [] OTHER           -> Call("load", p)

\* The newest n rows of query_log, as /log?limit=50 returns them.
Newest(n) == [i \in 1..(IF n < LogRows THEN n ELSE LogRows) |-> n + 1 - i]

\* A query comes in front of a log, whose last row makes room for it.
Unshift(q, log) ==
  LET longer == <<q>> \o log
  IN  IF Len(longer) > LogRows THEN SubSeq(longer, 1, Len(longer) - 1) ELSE longer

Answers == Nat \cup Filters \cup {Asked, Done, Failed}

TypeOK ==
  /\ page \in Pages
  /\ filter \in Filters
  /\ content.page \in Pages
  /\ content.rows \in {None} \cup Nat \cup Filters
  /\ content.button \in {None} \cup Filters
  /\ content.queries \in {None} \cup Nat
  /\ \A s \in {live, content.log} : s \in Seq(1..MaxEvents) /\ Len(s) <= LogRows
  /\ Len(calls) <= MaxCalls
  /\ \A i \in DOMAIN calls :
       /\ calls[i].kind \in {"render", "poll", "log", "load", "form", "row"}
       /\ calls[i].of \in Pages \cup Filters
       /\ calls[i].got \in [Parts(calls[i].kind) -> Answers]
  /\ qCount \in Nat
  /\ logged \in 0..MaxEvents
  /\ feed \in Seq(1..MaxEvents)
  /\ version \in [Tables -> 0..MaxClicks]
  /\ clicks \in 0..MaxClicks
  /\ failures \in 0..MaxFailures
  /\ excused \in SUBSET (Tables \cup {"querylog"})

-------------------------------------------------------------------------------
(* Mutants: errors the checks must notice *)

Answered(i) == \A part \in DOMAIN calls[i].got : calls[i].got[part] # Asked

\* The live log is not trimmed.
ReceiveUntrimmed ==
  /\ feed # <<>>
  /\ feed' = Tail(feed)
  /\ live' = <<Head(feed)>> \o live
  /\ qCount' = qCount + 1
  /\ content' = IF content.page = "dashboard"
                THEN [content EXCEPT !.log = Unshift(Head(feed), @),
                                     !.queries = qCount + 1]
                ELSE content
  /\ UNCHANGED <<page, filter, calls, logged, version, clicks, failures, excused>>

\* The filter is set after the log has been asked for.
QlFilterLate(f) ==
  /\ content.page = "querylog"
  /\ clicks < MaxClicks /\ clicks' = clicks + 1
  /\ Len(calls) < MaxCalls
  /\ filter' = f
  /\ calls' = Append(calls, Call("log", filter))
  /\ UNCHANGED <<page, content, live, qCount, logged, feed, version, failures, excused>>

\* A change is not followed by a reload.
ChangedNotReloaded(i) ==
  /\ calls[i].kind \in {"form", "row"} /\ Answered(i)
  /\ calls' = RemoveAt(calls, i)
  /\ UNCHANGED <<page, filter, content, live, qCount, logged, feed, version,
                 clicks, failures, excused>>

\* The dashboard is rendered from the log the server sent.
RenderedFromServer(i) ==
  /\ calls[i].kind = "render" /\ Answered(i)
  /\ calls' = RemoveAt(calls, i)
  /\ LET got == calls[i].got
     IN /\ qCount' = IF got.stats = Failed THEN qCount ELSE got.stats
        /\ content' =
             IF content.page # "dashboard" THEN content
             ELSE [content EXCEPT
                     !.queries = IF got.stats = Failed THEN @ ELSE got.stats,
                     !.log = IF got.log = Failed THEN @ ELSE Newest(got.log)]
  /\ UNCHANGED <<page, filter, live, logged, feed, version, clicks, failures, excused>>

\* The poll shows the count the stream keeps.
PolledCount(i) ==
  /\ calls[i].kind = "poll" /\ Answered(i)
  /\ calls' = RemoveAt(calls, i)
  /\ content' = IF content.page = "dashboard"
                THEN [content EXCEPT !.queries = qCount] ELSE content
  /\ UNCHANGED <<page, filter, live, qCount, logged, feed, version, clicks,
                 failures, excused>>

-------------------------------------------------------------------------------
(* What the user does *)

GoPage(p) ==
  /\ clicks < MaxClicks /\ clicks' = clicks + 1
  /\ Len(calls) < MaxCalls
  /\ page' = p
  /\ content' = Blank(p)
  /\ calls' = Append(calls, Load(p))
  /\ UNCHANGED <<filter, live, qCount, logged, feed, version, failures, excused>>

QlFilter(f) ==
  /\ content.page = "querylog"
  /\ clicks < MaxClicks /\ clicks' = clicks + 1
  /\ Len(calls) < MaxCalls
  /\ filter' = f
  /\ calls' = Append(calls, Call("log", f))
  /\ UNCHANGED <<page, content, live, qCount, logged, feed, version, failures, excused>>

\* A form is sent, or a row is deleted, toggled or edited. The form that adds
\* a device is on another page, which shows no table.
Change(kind, t) ==
  /\ content.page = t
  /\ kind = "row" => content.rows # None
  /\ kind = "form" => t # "devices"
  /\ clicks < MaxClicks /\ clicks' = clicks + 1
  /\ Len(calls) < MaxCalls
  /\ calls' = Append(calls, Call(kind, t))
  /\ UNCHANGED <<page, filter, content, live, qCount, logged, feed, version,
                 failures, excused>>

-------------------------------------------------------------------------------
(* The timer and the stream *)

Poll ==
  /\ page = "dashboard"
  /\ Len(calls) < MaxCalls
  /\ calls' = Append(calls, Call("poll", page))
  /\ UNCHANGED <<page, filter, content, live, qCount, logged, feed, version,
                 clicks, failures, excused>>

\* A query is logged. Its message is lost if the queue of the stream is full
\* or the connection is being made again.
Log ==
  /\ logged < MaxEvents
  /\ logged' = logged + 1
  /\ feed' \in {Append(feed, logged + 1), feed}
  /\ UNCHANGED <<page, filter, content, calls, live, qCount, version, clicks,
                 failures, excused>>

\* HB.sse.onmessage.
Receive ==
  /\ feed # <<>>
  /\ feed' = Tail(feed)
  /\ live' = Unshift(Head(feed), live)
  /\ qCount' = qCount + 1
  /\ content' = IF content.page = "dashboard"
                THEN [content EXCEPT !.log = Unshift(Head(feed), @),
                                     !.queries = qCount + 1]
                ELSE content
  /\ UNCHANGED <<page, filter, calls, logged, version, clicks, failures, excused>>

-------------------------------------------------------------------------------
(* The server *)

\* What the server answers to a part of call c, if it does.
AnswerTo(c) == CASE c.kind \in {"render", "poll"} -> logged
                 [] c.kind = "log"  -> c.of
                 [] c.kind = "load" -> version[c.of]
                 [] OTHER -> Done

Serve(i, part) ==
  /\ part \in DOMAIN calls[i].got /\ calls[i].got[part] = Asked
  /\ calls' = [calls EXCEPT ![i].got[part] = AnswerTo(calls[i])]
  /\ version' = IF calls[i].kind \in {"form", "row"}
                THEN [version EXCEPT ![calls[i].of] = @ + 1] ELSE version
  /\ UNCHANGED <<page, filter, content, live, qCount, logged, feed, clicks,
                 failures, excused>>

\* The call throws, whether or not the server did what it was asked.
Fail(i, part) ==
  /\ part \in DOMAIN calls[i].got /\ calls[i].got[part] = Asked
  /\ failures < MaxFailures /\ failures' = failures + 1
  /\ calls' = [calls EXCEPT ![i].got[part] = Failed]
  /\ version' \in {version} \cup
       (IF calls[i].kind \in {"form", "row"}
        THEN {[version EXCEPT ![calls[i].of] = @ + 1]} ELSE {})
  /\ excused' = excused \cup
       (CASE calls[i].kind = "log" -> {"querylog"}
          [] calls[i].kind \in {"render", "poll"} -> {}
          [] OTHER -> {calls[i].of})
  /\ UNCHANGED <<page, filter, content, live, qCount, logged, feed, clicks>>

-------------------------------------------------------------------------------
(* What is done with the answers *)

\* Call i is over, and an earlier call of its kind to the page is not.
Overtakes(i, p) ==
  IF content.page = p
       /\ \E j \in 1..(i - 1) : calls[j].kind = calls[i].kind
                                 /\ (calls[i].kind = "load" => calls[j].of = p)
  THEN {p} ELSE {}

\* renderDashboard: the log is taken from memory if there is any.
Rendered(i) ==
  /\ calls[i].kind = "render" /\ Answered(i)
  /\ calls' = RemoveAt(calls, i)
  /\ LET got == calls[i].got
     IN /\ qCount' = IF got.stats = Failed THEN qCount ELSE got.stats
        /\ content' =
             IF content.page # "dashboard" THEN content
             ELSE [content EXCEPT
                     !.queries = IF got.stats = Failed THEN @ ELSE got.stats,
                     !.log = IF live # <<>> THEN live
                             ELSE IF got.log = Failed THEN @ ELSE Newest(got.log)]
  /\ UNCHANGED <<page, filter, live, logged, feed, version, clicks, failures, excused>>

\* The poll writes the text and leaves HB._qCount.
Polled(i) ==
  /\ calls[i].kind = "poll" /\ Answered(i)
  /\ calls' = RemoveAt(calls, i)
  /\ content' = IF content.page = "dashboard" /\ calls[i].got.stats # Failed
                THEN [content EXCEPT !.queries = calls[i].got.stats] ELSE content
  /\ UNCHANGED <<page, filter, live, qCount, logged, feed, version, clicks,
                 failures, excused>>

\* loadLog: the rows are those it asked for, the button that of HB.qlFilter.
LogLoaded(i) ==
  /\ calls[i].kind = "log" /\ Answered(i)
  /\ calls' = RemoveAt(calls, i)
  /\ content' = IF content.page = "querylog" /\ calls[i].got.rows # Failed
                THEN [content EXCEPT !.rows = calls[i].got.rows, !.button = filter]
                ELSE content
  /\ excused' = excused \cup Overtakes(i, "querylog")
  /\ UNCHANGED <<page, filter, live, qCount, logged, feed, version, clicks, failures>>

\* loadBl, loadRules, loadDNSRecords and the end of renderDevices.
Loaded(i) ==
  /\ calls[i].kind = "load" /\ Answered(i)
  /\ calls' = RemoveAt(calls, i)
  /\ content' = IF content.page = calls[i].of /\ calls[i].got.rows # Failed
                THEN [content EXCEPT !.rows = calls[i].got.rows] ELSE content
  /\ excused' = excused \cup Overtakes(i, calls[i].of)
  /\ UNCHANGED <<page, filter, live, qCount, logged, feed, version, clicks, failures>>

\* The table is loaded again. A form is cleared first, which throws if its
\* page was left; deleteDevice renders the whole page, whatever page is open.
Changed(i) ==
  /\ calls[i].kind \in {"form", "row"} /\ Answered(i)
  /\ LET t == calls[i].of
         reloads == /\ calls[i].got.rows # Failed
                    /\ calls[i].kind = "form" => content.page = t
     IN /\ calls' = RemoveAt(calls, i)
                    \o (IF reloads THEN <<Call("load", t)>> ELSE <<>>)
        /\ content' = IF reloads /\ t = "devices" THEN Blank(t) ELSE content
  /\ UNCHANGED <<page, filter, live, qCount, logged, feed, version, clicks,
                 failures, excused>>

-------------------------------------------------------------------------------
Init ==
  /\ page = "dashboard"
  /\ filter = All
  /\ content = Blank("dashboard")
  /\ calls = <<Call("render", "dashboard")>>
  /\ live = <<>>
  /\ qCount = 0
  /\ logged = 0
  /\ feed = <<>>
  /\ version = [t \in Tables |-> 0]
  /\ clicks = 0
  /\ failures = 0
  /\ excused = {}

Answer(i) ==
  /\ i \in DOMAIN calls
  /\ Rendered(i) \/ Polled(i) \/ LogLoaded(i) \/ Loaded(i) \/ Changed(i)

Next ==
  \/ \E p \in Pages : GoPage(p)
  \/ \E f \in Filters : QlFilter(f)
  \/ \E t \in Tables, kind \in {"form", "row"} : Change(kind, t)
  \/ Poll \/ Log \/ Receive
  \/ \E i \in DOMAIN calls, part \in {"stats", "log", "rows"} :
       Serve(i, part) \/ Fail(i, part)
  \/ \E i \in DOMAIN calls :
       Rendered(i) \/ Polled(i) \/ LogLoaded(i) \/ Loaded(i) \/ Changed(i)

Spec == Init /\ [][Next]_vars

\* Every call comes back, every message comes, and the timer runs on. The user
\* need not do anything.
Fairness ==
  /\ \A i \in 1..MaxCalls :
       /\ WF_vars(Answer(i))
       /\ \A part \in {"stats", "log", "rows"} :
            WF_vars(i \in DOMAIN calls /\ Serve(i, part))
  /\ WF_vars(Receive)
  /\ WF_vars(Poll)

FairSpec == Spec /\ Fairness

-------------------------------------------------------------------------------
(* Properties *)

Waits(kinds, of) ==
  \E i \in DOMAIN calls : calls[i].kind \in kinds /\ calls[i].of \in of

\* Whatever was changed, in whatever order, and however often the page was left
\* meanwhile: once all the answers of a table have come, its page shows the
\* table as it is, unless a call failed or an older answer came after a newer.
ListIsTable ==
  \A t \in Tables :
    (/\ content.page = t
     /\ ~ Waits({"load", "form", "row"}, {t})
     /\ t \notin excused)
      => content.rows = version[t]

\* Once the answers have come, the rows of the query log are those of the
\* filter that is chosen and highlighted, on the same conditions.
FilterIsShown ==
  (/\ content.page = "querylog"
   /\ ~ Waits({"log"}, Filters)
   /\ "querylog" \notin excused)
    => content.rows = filter /\ content.button = filter

\* What the stream has brought stays at the top of the dashboard's log,
\* although the page is rendered again and the answers it was waiting for are
\* older than the messages that came in between, or fail.
LiveLogIsShown ==
  content.page = "dashboard" /\ ~ Waits({"render"}, Pages)
    => IsPrefix(live, content.log)

\* The count on the dashboard may be wrong, for messages cross the answers and
\* may be lost; but while the page stays open the poll puts it right, once no
\* more queries come.
CountIsCorrected ==
  <>[](page = "dashboard" /\ content.page = "dashboard")
    => <>[](content.queries = logged)
===============================================================================
