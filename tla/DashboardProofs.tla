---------------------------- MODULE DashboardProofs ----------------------------
(***************************************************************************)
(* What the dashboard shows, proved for any tables, filters and calls, and *)
(* any number of queries; and the language it is shown in (Locale).        *)
(***************************************************************************)
EXTENDS Dashboard, Locale, SequenceTheorems, FiniteSetTheorems, TLAPS

(***************************************************************************)
(* The calls                                                               *)
(***************************************************************************)

Kinds == {"render", "poll", "log", "load", "form", "row"}
Changes == {"form", "row"}

CallSet == [kind : Kinds, of : Pages \cup Filters,
            got : UNION {[Parts(k) -> Answers] : k \in Kinds}]

\* What is known of a call: whom it is of, and what it may be answered when n
\* queries are logged. A call of a page that failed has excused the page.
CallOK(c, n, ex) ==
  /\ c.got \in [Parts(c.kind) -> Answers]
  /\ c.kind \in {"render", "poll"} =>
       /\ c.of = "dashboard"
       /\ \A part \in Parts(c.kind) : c.got[part] \in {Asked, Failed} \cup 0..n
  /\ c.kind = "log" =>
       /\ c.of \in Filters
       /\ c.got.rows \in {Asked, Failed, c.of}
       /\ c.got.rows = Failed => "querylog" \in ex
  /\ c.kind \in Changes \cup {"load"} =>
       /\ c.of \in Tables
       /\ c.kind = "load" => c.got.rows \in {Asked, Failed} \cup Nat
       /\ c.got.rows = Failed => c.of \in ex

\* What such a call may be answered.
AnswerOK(c, a, n, ex) ==
  /\ a \in Answers
  /\ c.kind \in {"render", "poll"} => a \in {Failed} \cup 0..n
  /\ c.kind = "log" => a \in {Failed, c.of} /\ (a = Failed => "querylog" \in ex)
  /\ c.kind = "load" => a \in {Failed} \cup Nat
  /\ c.kind \in Changes \cup {"load"} => (a = Failed => c.of \in ex)

CallsOK(cs, n, ex) ==
  /\ cs \in Seq(CallSet)
  /\ \A i \in DOMAIN cs : CallOK(cs[i], n, ex)

\* The calls ds are cs once a part of call i is answered a.
Replied(cs, ds, i, part, a, n, ex) ==
  /\ n \in Nat /\ CallsOK(cs, n, ex)
  /\ i \in DOMAIN cs /\ part \in DOMAIN cs[i].got
  /\ AnswerOK(cs[i], a, n, ex)
  /\ ds = [cs EXCEPT ![i].got[part] = a]

\* The changes of t the server has not made.
IsUnserved(c, t) == c.kind \in Changes /\ c.of = t /\ c.got.rows = Asked
Unserved(cs, t) == {i \in DOMAIN cs : IsUnserved(cs[i], t)}

IsChange(c, t) == c.kind \in Changes /\ c.of = t
IsLoad(c, t) == c.kind = "load" /\ c.of = t
IsLog(c) == c.kind = "log"

\* What its page shows of table t, changed v times, is v, or will be: a change
\* is under way, after which t is loaded; or the last load of t is, and it has
\* not been answered or was answered v.
TableDue(cs, rows, v, t) ==
  \/ \E i \in DOMAIN cs : IsChange(cs[i], t)
  \/ rows = v /\ \A i \in DOMAIN cs : ~IsLoad(cs[i], t)
  \/ \E i \in DOMAIN cs :
       /\ IsLoad(cs[i], t) /\ cs[i].got.rows \in {Asked, v}
       /\ \A j \in DOMAIN cs : j > i => ~IsLoad(cs[j], t)

\* The same of the query log and the filter f.
FilterDue(cs, rows, button, f) ==
  \/ rows = f /\ button = f /\ \A i \in DOMAIN cs : ~IsLog(cs[i])
  \/ \E i \in DOMAIN cs :
       /\ IsLog(cs[i]) /\ cs[i].of = f
       /\ \A j \in DOMAIN cs : j > i => ~IsLog(cs[j])

-------------------------------------------------------------------------------
LEMMA PartsOf ==
  /\ Parts("render") = {"stats", "log"}
  /\ Parts("poll") = {"stats"}
  /\ \A k \in {"log", "load", "form", "row"} : Parts(k) = {"rows"}
BY DEF Parts

LEMMA CallFields ==
  ASSUME NEW c \in CallSet
  PROVE  c.kind \in Kinds /\ c.of \in Pages \cup Filters
BY DEF CallSet

\* A call that is made.
LEMMA CallMade ==
  ASSUME NEW k \in Kinds, NEW o \in Pages \cup Filters, NEW n \in Nat, NEW ex,
         k \in {"render", "poll"} => o = "dashboard",
         k = "log" => o \in Filters,
         k \in Changes \cup {"load"} => o \in Tables
  PROVE  /\ Call(k, o) \in CallSet
         /\ CallOK(Call(k, o), n, ex)
         /\ Call(k, o).kind = k /\ Call(k, o).of = o
         /\ k \in {"log", "load", "form", "row"} => Call(k, o).got.rows = Asked
<1> DEFINE g == [part \in Parts(k) |-> Asked]
<1>1. g \in [Parts(k) -> Answers]
  BY DEF Answers
<1>2. Call(k, o) = [kind |-> k, of |-> o, got |-> g]
  BY DEF Call
<1>3. k \in {"log", "load", "form", "row"} => g.rows = Asked
  BY PartsOf
<1>4. \A part \in Parts(k) : g[part] = Asked
  OBVIOUS
<1> HIDE DEF g
<1>5. Call(k, o) \in CallSet
  BY <1>1, <1>2 DEF CallSet
<1>6. Asked # Failed
  BY AnswersAssumption
<1>7. CallOK(Call(k, o), n, ex)
  BY <1>1, <1>2, <1>3, <1>4, <1>6 DEF CallOK, Changes
<1> QED BY <1>2, <1>3, <1>5, <1>7

\* More queries and excuses change nothing about a call.
LEMMA CallsStayOK ==
  ASSUME NEW n \in Nat, NEW m \in Nat, n <= m, NEW ex, NEW ey, ex \subseteq ey,
         NEW cs, CallsOK(cs, n, ex)
  PROVE  CallsOK(cs, m, ey)
<1> SUFFICES ASSUME NEW i \in DOMAIN cs PROVE CallOK(cs[i], m, ey)
  BY DEF CallsOK
<1>1. CallOK(cs[i], n, ex)
  BY DEF CallsOK
<1> QED BY <1>1 DEF CallOK

LEMMA AppendedOK ==
  ASSUME NEW n \in Nat, NEW ex, NEW cs, CallsOK(cs, n, ex),
         NEW c \in CallSet, CallOK(c, n, ex)
  PROVE  /\ CallsOK(Append(cs, c), n, ex)
         /\ DOMAIN Append(cs, c) = 1..(Len(cs) + 1) /\ DOMAIN cs = 1..Len(cs)
         /\ Len(cs) \in Nat /\ Len(Append(cs, c)) = Len(cs) + 1
         /\ \A i \in 1..Len(cs) : Append(cs, c)[i] = cs[i]
         /\ Append(cs, c)[Len(cs) + 1] = c
<1>1. cs \in Seq(CallSet)
  BY DEF CallsOK
<1>2. /\ Append(cs, c) \in Seq(CallSet)
      /\ DOMAIN Append(cs, c) = 1..(Len(cs) + 1) /\ DOMAIN cs = 1..Len(cs)
      /\ Len(cs) \in Nat /\ Len(Append(cs, c)) = Len(cs) + 1
      /\ \A i \in 1..Len(cs) : Append(cs, c)[i] = cs[i]
      /\ Append(cs, c)[Len(cs) + 1] = c
  BY <1>1
<1>3. ASSUME NEW i \in 1..(Len(cs) + 1) PROVE CallOK(Append(cs, c)[i], n, ex)
  <2>1. CASE i \in 1..Len(cs)
    BY <1>2, <2>1 DEF CallsOK
  <2>2. CASE i = Len(cs) + 1
    BY <1>2, <2>2
  <2> QED BY <1>2, <2>1, <2>2
<1> QED BY <1>2, <1>3 DEF CallsOK

LEMMA RemovedOK ==
  ASSUME NEW n \in Nat, NEW ex, NEW cs, CallsOK(cs, n, ex), NEW i \in DOMAIN cs
  PROVE  /\ CallsOK(RemoveAt(cs, i), n, ex)
         /\ DOMAIN cs = 1..Len(cs) /\ Len(cs) \in Nat
         /\ Len(RemoveAt(cs, i)) = Len(cs) - 1
         /\ DOMAIN RemoveAt(cs, i) = 1..(Len(cs) - 1)
         /\ \A j \in 1..(Len(cs) - 1) :
              RemoveAt(cs, i)[j] = IF j < i THEN cs[j] ELSE cs[j + 1]
<1> DEFINE L == SubSeq(cs, 1, i - 1)
           R == SubSeq(cs, i + 1, Len(cs))
           r == RemoveAt(cs, i)
<1>1. cs \in Seq(CallSet) /\ Len(cs) \in Nat /\ DOMAIN cs = 1..Len(cs) /\ i \in 1..Len(cs)
  BY DEF CallsOK
<1>2. \A j \in 1..Len(cs) : cs[j] \in CallSet
  BY <1>1, ElementOfSeq
<1>3. /\ L \in Seq(CallSet) /\ Len(L) = i - 1
      /\ \A j \in 1..(i - 1) : L[j] = cs[j]
  <2>1. \A j \in 1..(i - 1) : cs[j] \in CallSet
    BY <1>1, <1>2
  <2> QED BY <1>1, <2>1, SubSeqProperties
<1>4. /\ R \in Seq(CallSet) /\ Len(R) = Len(cs) - i
      /\ \A j \in 1..(Len(cs) - i) : R[j] = cs[i + j]
  <2>1. \A j \in (i + 1)..Len(cs) : cs[j] \in CallSet
    BY <1>1, <1>2
  <2> QED BY <1>1, <2>1, SubSeqProperties
<1>5. r = L \o R
  BY DEF RemoveAt
<1> HIDE DEF L, R
<1>6. /\ L \o R \in Seq(CallSet)
      /\ Len(L \o R) = Len(cs) - 1
      /\ \A j \in 1..(Len(cs) - 1) : (L \o R)[j] = IF j <= i - 1 THEN L[j] ELSE R[j - (i - 1)]
  <2>1. /\ L \o R \in Seq(CallSet)
        /\ Len(L \o R) = Len(L) + Len(R)
        /\ \A j \in 1..(Len(L) + Len(R)) : (L \o R)[j] = IF j <= Len(L) THEN L[j] ELSE R[j - Len(L)]
    BY <1>3, <1>4, ConcatProperties
  <2>2. Len(L) = i - 1 /\ Len(L) + Len(R) = Len(cs) - 1
    BY <1>1, <1>3, <1>4
  <2> QED BY <2>1, <2>2
<1>7. \A j \in 1..(Len(cs) - 1) : (L \o R)[j] = IF j < i THEN cs[j] ELSE cs[j + 1]
  <2> SUFFICES ASSUME NEW j \in 1..(Len(cs) - 1)
               PROVE  (L \o R)[j] = IF j < i THEN cs[j] ELSE cs[j + 1]
    OBVIOUS
  <2>1. CASE j < i
    <3>1. j \in 1..(i - 1)
      BY <1>1, <2>1
    <3> QED BY <1>1, <1>3, <1>6, <2>1, <3>1
  <2>2. CASE ~(j < i)
    <3>1. j - (i - 1) \in 1..(Len(cs) - i) /\ i + (j - (i - 1)) = j + 1
      BY <1>1, <2>2
    <3>2. R[j - (i - 1)] = cs[j + 1]
      BY <1>4, <3>1
    <3>3. (L \o R)[j] = R[j - (i - 1)]
      BY <1>1, <1>6, <2>2
    <3> QED BY <2>2, <3>2, <3>3
  <2> QED BY <2>1, <2>2
<1>8. DOMAIN r = 1..(Len(cs) - 1)
  BY <1>5, <1>6, LenProperties
<1>9. ASSUME NEW j \in 1..(Len(cs) - 1) PROVE CallOK(r[j], n, ex)
  <2>1. CASE j < i
    <3>1. j \in DOMAIN cs
      BY <1>1
    <3> QED BY <1>5, <1>7, <2>1, <3>1 DEF CallsOK
  <2>2. CASE ~(j < i)
    <3>1. j + 1 \in DOMAIN cs
      BY <1>1
    <3> QED BY <1>5, <1>7, <2>2, <3>1 DEF CallsOK
  <2> QED BY <2>1, <2>2
<1> QED BY <1>1, <1>5, <1>6, <1>7, <1>8, <1>9 DEF CallsOK

\* A part of a call is answered.
LEMMA AnsweredOK ==
  ASSUME NEW cs, NEW ds, NEW i, NEW part, NEW a, NEW n, NEW ex,
         Replied(cs, ds, i, part, a, n, ex)
  PROVE  /\ CallsOK(ds, n, ex)
         /\ DOMAIN ds = DOMAIN cs /\ Len(ds) = Len(cs)
         /\ \A j \in DOMAIN cs : /\ ds[j].kind = cs[j].kind /\ ds[j].of = cs[j].of
                                 /\ j # i => ds[j] = cs[j]
         /\ cs[i].kind \in {"log", "load", "form", "row"} =>
              part = "rows" /\ ds[i].got.rows = a
<1> DEFINE c == cs[i]
           g == [c.got EXCEPT ![part] = a]
           d == [c EXCEPT !.got = g]
<1>0. /\ n \in Nat /\ CallsOK(cs, n, ex) /\ i \in DOMAIN cs /\ part \in DOMAIN c.got
      /\ AnswerOK(c, a, n, ex) /\ a \in Answers
  BY DEF Replied, AnswerOK
<1>1. cs \in Seq(CallSet) /\ c \in CallSet /\ CallOK(c, n, ex) /\ i \in 1..Len(cs)
  BY <1>0, ElementOfSeq DEF CallsOK
<1>2. ds = [cs EXCEPT ![i] = d]
  BY DEF Replied
<1>3. c.kind \in Kinds /\ c.got \in [Parts(c.kind) -> Answers] /\ part \in Parts(c.kind)
  BY <1>0, <1>1, CallFields DEF CallOK
<1>4. /\ g \in [Parts(c.kind) -> Answers]
      /\ \A p \in Parts(c.kind) : g[p] = IF p = part THEN a ELSE c.got[p]
  BY <1>0, <1>3
<1>5. d.kind = c.kind /\ d.of = c.of /\ d.got = g /\ d \in CallSet
  BY <1>1, <1>3, <1>4 DEF CallSet
<1> HIDE DEF d, g
<1>6. c.kind \in {"log", "load", "form", "row"} => part = "rows" /\ g.rows = a
  BY <1>3, <1>4, PartsOf
<1>7. CallOK(d, n, ex)
  <2>1. c.kind \in {"render", "poll"} =>
          /\ d.of = "dashboard"
          /\ \A p \in Parts(d.kind) : d.got[p] \in {Asked, Failed} \cup 0..n
    BY <1>0, <1>1, <1>4, <1>5 DEF CallOK, AnswerOK
  <2>2. c.kind = "log" =>
          /\ d.of \in Filters
          /\ d.got.rows \in {Asked, Failed, d.of}
          /\ d.got.rows = Failed => "querylog" \in ex
    BY <1>0, <1>1, <1>5, <1>6 DEF CallOK, AnswerOK
  <2>3. c.kind \in Changes \cup {"load"} =>
          /\ d.of \in Tables
          /\ d.kind = "load" => d.got.rows \in {Asked, Failed} \cup Nat
          /\ d.got.rows = Failed => d.of \in ex
    BY <1>0, <1>1, <1>5, <1>6 DEF CallOK, AnswerOK, Changes
  <2> QED BY <1>4, <1>5, <2>1, <2>2, <2>3 DEF CallOK
<1>8. /\ ds \in Seq(CallSet) /\ Len(ds) = Len(cs)
      /\ \A j \in 1..Len(cs) : ds[j] = IF j = i THEN d ELSE cs[j]
  BY <1>1, <1>2, <1>5, ExceptSeq
<1>9. DOMAIN ds = 1..Len(cs) /\ DOMAIN cs = 1..Len(cs)
  BY <1>1, <1>8, LenProperties
<1>10. CallsOK(ds, n, ex)
  BY <1>0, <1>7, <1>8, <1>9 DEF CallsOK
<1> QED BY <1>1, <1>5, <1>6, <1>8, <1>9, <1>10

(***************************************************************************)
(* What a page is due to show                                              *)
(***************************************************************************)

LEMMA DueAppended ==
  ASSUME NEW n \in Nat, NEW ex, NEW cs, CallsOK(cs, n, ex),
         NEW c \in CallSet, CallOK(c, n, ex), NEW t, NEW rows, NEW v,
         \/ TableDue(cs, rows, v, t) /\ ~IsLoad(c, t)
         \/ IsLoad(c, t) /\ c.got.rows = Asked
  PROVE  TableDue(Append(cs, c), rows, v, t)
<1> DEFINE ds == Append(cs, c)
<1>1. /\ DOMAIN ds = 1..(Len(cs) + 1) /\ DOMAIN cs = 1..Len(cs) /\ Len(cs) \in Nat
      /\ \A i \in 1..Len(cs) : ds[i] = cs[i]
      /\ ds[Len(cs) + 1] = c
  BY AppendedOK
<1> HIDE DEF ds
<1>2. CASE IsLoad(c, t) /\ c.got.rows = Asked
  <2>1. Len(cs) + 1 \in DOMAIN ds /\ \A j \in DOMAIN ds : ~(j > Len(cs) + 1)
    BY <1>1
  <2>2. IsLoad(ds[Len(cs) + 1], t) /\ ds[Len(cs) + 1].got.rows \in {Asked, v}
    BY <1>1, <1>2
  <2>3. TableDue(ds, rows, v, t)
    BY <2>1, <2>2 DEF TableDue
  <2> QED BY <2>3 DEF ds
<1>3. CASE TableDue(cs, rows, v, t) /\ ~IsLoad(c, t)
  <2>1. CASE \E i \in DOMAIN cs : IsChange(cs[i], t)
    <3>1. \E i \in DOMAIN ds : IsChange(ds[i], t)
      BY <1>1, <2>1
    <3> QED BY <3>1 DEF TableDue, ds
  <2>2. CASE rows = v /\ \A i \in DOMAIN cs : ~IsLoad(cs[i], t)
    <3>1. ASSUME NEW i \in DOMAIN ds PROVE ~IsLoad(ds[i], t)
      <4>1. i \in 1..Len(cs) \/ i = Len(cs) + 1
        BY <1>1
      <4> QED BY <1>1, <1>3, <2>2, <4>1
    <3> QED BY <2>2, <3>1 DEF TableDue, ds
  <2>3. CASE \E i \in DOMAIN cs :
               /\ IsLoad(cs[i], t) /\ cs[i].got.rows \in {Asked, v}
               /\ \A j \in DOMAIN cs : j > i => ~IsLoad(cs[j], t)
    <3>1. PICK i \in DOMAIN cs :
               /\ IsLoad(cs[i], t) /\ cs[i].got.rows \in {Asked, v}
               /\ \A j \in DOMAIN cs : j > i => ~IsLoad(cs[j], t)
      BY <2>3
    <3>2. i \in DOMAIN ds /\ IsLoad(ds[i], t) /\ ds[i].got.rows \in {Asked, v}
      BY <1>1, <3>1
    <3>3. ASSUME NEW j \in DOMAIN ds, j > i PROVE ~IsLoad(ds[j], t)
      <4>1. j \in 1..Len(cs) \/ j = Len(cs) + 1
        BY <1>1
      <4> QED BY <1>1, <1>3, <3>1, <3>3, <4>1
    <3> QED BY <3>2, <3>3 DEF TableDue, ds
  <2> QED BY <1>3, <2>1, <2>2, <2>3 DEF TableDue
<1> QED BY <1>2, <1>3

\* Where a call is once call i is gone.
LEMMA Moved ==
  ASSUME NEW n \in Nat, NEW ex, NEW cs, CallsOK(cs, n, ex), NEW i \in DOMAIN cs,
         NEW j \in DOMAIN cs, j # i
  PROVE  LET k == IF j < i THEN j ELSE j - 1
         IN  k \in DOMAIN RemoveAt(cs, i) /\ RemoveAt(cs, i)[k] = cs[j]
<1>1. /\ DOMAIN cs = 1..Len(cs) /\ Len(cs) \in Nat
      /\ DOMAIN RemoveAt(cs, i) = 1..(Len(cs) - 1)
      /\ \A k \in 1..(Len(cs) - 1) :
           RemoveAt(cs, i)[k] = IF k < i THEN cs[k] ELSE cs[k + 1]
  BY RemovedOK
<1>2. i \in 1..Len(cs) /\ j \in 1..Len(cs)
  BY <1>1
<1>3. CASE j < i
  <2>1. j \in 1..(Len(cs) - 1)
    BY <1>1, <1>2, <1>3
  <2> QED BY <1>1, <1>3, <2>1
<1>4. CASE ~(j < i)
  <2>1. j - 1 \in 1..(Len(cs) - 1) /\ ~(j - 1 < i) /\ (j - 1) + 1 = j
    BY <1>1, <1>2, <1>4
  <2> QED BY <1>1, <1>4, <2>1
<1> QED BY <1>3, <1>4

\* Where call k was before call i went.
LEMMA WasAt ==
  ASSUME NEW n \in Nat, NEW ex, NEW cs, CallsOK(cs, n, ex), NEW i \in DOMAIN cs,
         NEW k \in DOMAIN RemoveAt(cs, i)
  PROVE  LET j == IF k < i THEN k ELSE k + 1
         IN  j \in DOMAIN cs /\ j # i /\ RemoveAt(cs, i)[k] = cs[j]
<1>1. /\ DOMAIN cs = 1..Len(cs) /\ Len(cs) \in Nat
      /\ DOMAIN RemoveAt(cs, i) = 1..(Len(cs) - 1)
      /\ \A m \in 1..(Len(cs) - 1) :
           RemoveAt(cs, i)[m] = IF m < i THEN cs[m] ELSE cs[m + 1]
  BY RemovedOK
<1>2. i \in 1..Len(cs) /\ k \in 1..(Len(cs) - 1)
  BY <1>1
<1>3. CASE k < i
  <2>1. k \in 1..Len(cs) /\ k # i
    BY <1>1, <1>2, <1>3
  <2> QED BY <1>1, <1>2, <1>3, <2>1
<1>4. CASE ~(k < i)
  <2>1. k + 1 \in 1..Len(cs) /\ k + 1 # i
    BY <1>1, <1>2, <1>4
  <2> QED BY <1>1, <1>2, <1>4, <2>1
<1> QED BY <1>3, <1>4

\* What comes after call j once call i is gone came after it before.
LEMMA AfterMoved ==
  ASSUME NEW n \in Nat, NEW ex, NEW cs, CallsOK(cs, n, ex), NEW i \in DOMAIN cs,
         NEW j \in DOMAIN cs, j # i
  PROVE  \E m \in DOMAIN RemoveAt(cs, i) :
           /\ RemoveAt(cs, i)[m] = cs[j]
           /\ \A k \in DOMAIN RemoveAt(cs, i) : k > m =>
                \E l \in DOMAIN cs : l > j /\ l # i /\ RemoveAt(cs, i)[k] = cs[l]
<1> DEFINE ds == RemoveAt(cs, i)
           m == IF j < i THEN j ELSE j - 1
<1>0. DOMAIN cs = 1..Len(cs) /\ Len(cs) \in Nat /\ DOMAIN ds = 1..(Len(cs) - 1)
  BY RemovedOK
<1>1. m \in DOMAIN ds /\ ds[m] = cs[j]
  BY Moved
<1>2. ASSUME NEW k \in DOMAIN ds, k > m
      PROVE  \E l \in DOMAIN cs : l > j /\ l # i /\ ds[k] = cs[l]
  <2> DEFINE l == IF k < i THEN k ELSE k + 1
  <2>1. l \in DOMAIN cs /\ l # i /\ ds[k] = cs[l]
    BY WasAt
  <2>2. l > j
    <3>1. i \in Nat /\ j \in Nat /\ k \in Nat
      BY <1>0
    <3> QED BY <1>2, <2>1, <3>1
  <2> QED BY <2>1, <2>2
<1> QED BY <1>1, <1>2

LEMMA DueRemoved ==
  ASSUME NEW n \in Nat, NEW ex, NEW cs, CallsOK(cs, n, ex), NEW i \in DOMAIN cs,
         NEW t, NEW rows, NEW v, TableDue(cs, rows, v, t),
         ~IsChange(cs[i], t), ~IsLoad(cs[i], t)
  PROVE  TableDue(RemoveAt(cs, i), rows, v, t)
<1> DEFINE ds == RemoveAt(cs, i)
<1>1. CASE \E j \in DOMAIN cs : IsChange(cs[j], t)
  <2>1. PICK j \in DOMAIN cs : IsChange(cs[j], t)
    BY <1>1
  <2>2. j # i
    BY <2>1
  <2>3. \E m \in DOMAIN ds : ds[m] = cs[j]
    BY <2>2, AfterMoved
  <2> QED BY <2>1, <2>3 DEF TableDue
<1>2. CASE rows = v /\ \A j \in DOMAIN cs : ~IsLoad(cs[j], t)
  <2>1. ASSUME NEW k \in DOMAIN ds PROVE ~IsLoad(ds[k], t)
    <3>1. \E j \in DOMAIN cs : ds[k] = cs[j]
      BY WasAt
    <3> QED BY <1>2, <3>1
  <2> QED BY <1>2, <2>1 DEF TableDue
<1>3. CASE \E j \in DOMAIN cs :
             /\ IsLoad(cs[j], t) /\ cs[j].got.rows \in {Asked, v}
             /\ \A k \in DOMAIN cs : k > j => ~IsLoad(cs[k], t)
  <2>1. PICK j \in DOMAIN cs :
             /\ IsLoad(cs[j], t) /\ cs[j].got.rows \in {Asked, v}
             /\ \A k \in DOMAIN cs : k > j => ~IsLoad(cs[k], t)
    BY <1>3
  <2>2. j # i
    BY <2>1
  <2>3. PICK m \in DOMAIN ds :
           /\ ds[m] = cs[j]
           /\ \A k \in DOMAIN ds : k > m =>
                \E l \in DOMAIN cs : l > j /\ l # i /\ ds[k] = cs[l]
    BY <2>2, AfterMoved
  <2>4. \A k \in DOMAIN ds : k > m => ~IsLoad(ds[k], t)
    BY <2>1, <2>3
  <2>5. IsLoad(ds[m], t) /\ ds[m].got.rows \in {Asked, v}
    BY <2>1, <2>3
  <2> QED BY <2>4, <2>5 DEF TableDue
<1> QED BY <1>1, <1>2, <1>3 DEF TableDue

\* The answer to the oldest load is shown: it was the last, or another follows.
LEMMA DueLoaded ==
  ASSUME NEW n \in Nat, NEW ex, NEW cs, CallsOK(cs, n, ex), NEW i \in DOMAIN cs,
         NEW t, NEW rows, NEW v, TableDue(cs, rows, v, t),
         IsLoad(cs[i], t), cs[i].got.rows # Asked,
         \A j \in DOMAIN cs : j < i => ~IsLoad(cs[j], t)
  PROVE  TableDue(RemoveAt(cs, i), cs[i].got.rows, v, t)
<1> DEFINE ds == RemoveAt(cs, i)
<1>0. DOMAIN cs = 1..Len(cs) /\ Len(cs) \in Nat
  BY RemovedOK
<1>1. CASE \E j \in DOMAIN cs : IsChange(cs[j], t)
  <2>1. PICK j \in DOMAIN cs : IsChange(cs[j], t)
    BY <1>1
  <2>2. j # i
    BY <2>1 DEF IsChange, IsLoad, Changes
  <2>3. \E m \in DOMAIN ds : ds[m] = cs[j]
    BY <2>2, AfterMoved
  <2> QED BY <2>1, <2>3 DEF TableDue
<1>2. CASE \E j \in DOMAIN cs :
             /\ IsLoad(cs[j], t) /\ cs[j].got.rows \in {Asked, v}
             /\ \A k \in DOMAIN cs : k > j => ~IsLoad(cs[k], t)
  <2>1. PICK j \in DOMAIN cs :
             /\ IsLoad(cs[j], t) /\ cs[j].got.rows \in {Asked, v}
             /\ \A k \in DOMAIN cs : k > j => ~IsLoad(cs[k], t)
    BY <1>2
  <2>2. CASE j = i
    <3>1. cs[i].got.rows = v
      BY <2>1, <2>2
    <3>2. ASSUME NEW k \in DOMAIN ds PROVE ~IsLoad(ds[k], t)
      <4>1. PICK l \in DOMAIN cs : l # i /\ ds[k] = cs[l]
        BY WasAt
      <4>2. l < i \/ l > i
        BY <1>0, <4>1
      <4> QED BY <2>1, <2>2, <4>1, <4>2
    <3> QED BY <3>1, <3>2 DEF TableDue
  <2>3. CASE j # i
    <3>1. PICK m \in DOMAIN ds :
             /\ ds[m] = cs[j]
             /\ \A k \in DOMAIN ds : k > m =>
                  \E l \in DOMAIN cs : l > j /\ l # i /\ ds[k] = cs[l]
      BY <2>3, AfterMoved
    <3>2. \A k \in DOMAIN ds : k > m => ~IsLoad(ds[k], t)
      BY <2>1, <3>1
    <3>3. IsLoad(ds[m], t) /\ ds[m].got.rows \in {Asked, v}
      BY <2>1, <3>1
    <3> QED BY <3>2, <3>3 DEF TableDue
  <2> QED BY <2>2, <2>3
<1> QED BY <1>1, <1>2 DEF TableDue

\* The calls ds are the calls cs but for what call i was answered.
LEMMA DueAnswered ==
  ASSUME NEW cs, NEW ds, NEW i \in DOMAIN cs, DOMAIN ds = DOMAIN cs,
         \A j \in DOMAIN cs : /\ ds[j].kind = cs[j].kind /\ ds[j].of = cs[j].of
                              /\ j # i => ds[j] = cs[j],
         NEW t, NEW rows, NEW v, NEW w, TableDue(cs, rows, v, t),
         IsLoad(cs[i], t) => ds[i].got.rows = v,
         v = w \/ IsChange(cs[i], t)
  PROVE  TableDue(ds, rows, w, t)
<1>0. \A j \in DOMAIN cs : /\ IsChange(ds[j], t) <=> IsChange(cs[j], t)
                           /\ IsLoad(ds[j], t) <=> IsLoad(cs[j], t)
  BY DEF IsChange, IsLoad
<1>1. CASE \E j \in DOMAIN cs : IsChange(cs[j], t)
  BY <1>0, <1>1 DEF TableDue
<1>2. CASE v = w /\ rows = v /\ \A j \in DOMAIN cs : ~IsLoad(cs[j], t)
  BY <1>0, <1>2 DEF TableDue
<1>3. CASE /\ v = w
           /\ \E j \in DOMAIN cs :
                /\ IsLoad(cs[j], t) /\ cs[j].got.rows \in {Asked, v}
                /\ \A k \in DOMAIN cs : k > j => ~IsLoad(cs[k], t)
  <2>1. PICK j \in DOMAIN cs :
             /\ IsLoad(cs[j], t) /\ cs[j].got.rows \in {Asked, v}
             /\ \A k \in DOMAIN cs : k > j => ~IsLoad(cs[k], t)
    BY <1>3
  <2>2. IsLoad(ds[j], t) /\ \A k \in DOMAIN ds : k > j => ~IsLoad(ds[k], t)
    BY <1>0, <2>1
  <2>3. ds[j].got.rows \in {Asked, w}
    <3>1. CASE j = i
      BY <1>3, <2>1, <3>1
    <3>2. CASE j # i
      BY <1>3, <2>1, <3>2
    <3> QED BY <3>1, <3>2
  <2> QED BY <2>2, <2>3 DEF TableDue
<1> QED BY <1>1, <1>2, <1>3 DEF TableDue

-------------------------------------------------------------------------------
LEMMA FilterAppended ==
  ASSUME NEW n \in Nat, NEW ex, NEW cs, CallsOK(cs, n, ex),
         NEW c \in CallSet, CallOK(c, n, ex), NEW rows, NEW button, NEW f,
         \/ FilterDue(cs, rows, button, f) /\ ~IsLog(c)
         \/ IsLog(c) /\ c.of = f
  PROVE  FilterDue(Append(cs, c), rows, button, f)
<1> DEFINE ds == Append(cs, c)
<1>1. /\ DOMAIN ds = 1..(Len(cs) + 1) /\ DOMAIN cs = 1..Len(cs) /\ Len(cs) \in Nat
      /\ \A i \in 1..Len(cs) : ds[i] = cs[i]
      /\ ds[Len(cs) + 1] = c
  BY AppendedOK
<1> HIDE DEF ds
<1>0. \A i \in DOMAIN ds : i \in DOMAIN cs \/ i = Len(cs) + 1
  BY <1>1
<1>2. CASE IsLog(c) /\ c.of = f
  <2>1. Len(cs) + 1 \in DOMAIN ds /\ \A j \in DOMAIN ds : ~(j > Len(cs) + 1)
    BY <1>1
  <2>2. FilterDue(ds, rows, button, f)
    BY <1>1, <1>2, <2>1 DEF FilterDue
  <2> QED BY <2>2 DEF ds
<1>3. CASE FilterDue(cs, rows, button, f) /\ ~IsLog(c)
  <2>1. CASE rows = f /\ button = f /\ \A i \in DOMAIN cs : ~IsLog(cs[i])
    <3>1. \A i \in DOMAIN ds : ~IsLog(ds[i])
      BY <1>0, <1>1, <1>3, <2>1
    <3> QED BY <2>1, <3>1 DEF FilterDue, ds
  <2>2. CASE \E i \in DOMAIN cs :
               /\ IsLog(cs[i]) /\ cs[i].of = f
               /\ \A j \in DOMAIN cs : j > i => ~IsLog(cs[j])
    <3>1. PICK i \in DOMAIN cs :
               /\ IsLog(cs[i]) /\ cs[i].of = f
               /\ \A j \in DOMAIN cs : j > i => ~IsLog(cs[j])
      BY <2>2
    <3>2. i \in DOMAIN ds /\ IsLog(ds[i]) /\ ds[i].of = f
      BY <1>1, <3>1
    <3>3. \A j \in DOMAIN ds : j > i => ~IsLog(ds[j])
      BY <1>0, <1>1, <1>3, <3>1
    <3> QED BY <3>2, <3>3 DEF FilterDue, ds
  <2> QED BY <1>3, <2>1, <2>2 DEF FilterDue
<1> QED BY <1>2, <1>3

LEMMA FilterRemoved ==
  ASSUME NEW n \in Nat, NEW ex, NEW cs, CallsOK(cs, n, ex), NEW i \in DOMAIN cs,
         NEW rows, NEW button, NEW f, FilterDue(cs, rows, button, f), ~IsLog(cs[i])
  PROVE  FilterDue(RemoveAt(cs, i), rows, button, f)
<1> DEFINE ds == RemoveAt(cs, i)
<1>1. CASE rows = f /\ button = f /\ \A j \in DOMAIN cs : ~IsLog(cs[j])
  <2>1. ASSUME NEW k \in DOMAIN ds PROVE ~IsLog(ds[k])
    <3>1. \E j \in DOMAIN cs : ds[k] = cs[j]
      BY WasAt
    <3> QED BY <1>1, <3>1
  <2> QED BY <1>1, <2>1 DEF FilterDue
<1>2. CASE \E j \in DOMAIN cs :
             /\ IsLog(cs[j]) /\ cs[j].of = f
             /\ \A k \in DOMAIN cs : k > j => ~IsLog(cs[k])
  <2>1. PICK j \in DOMAIN cs :
             /\ IsLog(cs[j]) /\ cs[j].of = f
             /\ \A k \in DOMAIN cs : k > j => ~IsLog(cs[k])
    BY <1>2
  <2>2. j # i
    BY <2>1
  <2>3. PICK m \in DOMAIN ds :
           /\ ds[m] = cs[j]
           /\ \A k \in DOMAIN ds : k > m =>
                \E l \in DOMAIN cs : l > j /\ l # i /\ ds[k] = cs[l]
    BY <2>2, AfterMoved
  <2>4. \A k \in DOMAIN ds : k > m => ~IsLog(ds[k])
    BY <2>1, <2>3
  <2>5. IsLog(ds[m]) /\ ds[m].of = f
    BY <2>1, <2>3
  <2> QED BY <2>4, <2>5 DEF FilterDue
<1> QED BY <1>1, <1>2 DEF FilterDue

\* The answer to the oldest call for the log is shown, and the filter highlighted.
LEMMA FilterLoaded ==
  ASSUME NEW n \in Nat, NEW ex, NEW cs, CallsOK(cs, n, ex), NEW i \in DOMAIN cs,
         NEW rows, NEW button, NEW f, FilterDue(cs, rows, button, f),
         IsLog(cs[i]), cs[i].got.rows = cs[i].of,
         \A j \in DOMAIN cs : j < i => ~IsLog(cs[j])
  PROVE  FilterDue(RemoveAt(cs, i), cs[i].got.rows, f, f)
<1> DEFINE ds == RemoveAt(cs, i)
<1>0. DOMAIN cs = 1..Len(cs) /\ Len(cs) \in Nat
  BY RemovedOK
<1>1. PICK j \in DOMAIN cs :
           /\ IsLog(cs[j]) /\ cs[j].of = f
           /\ \A k \in DOMAIN cs : k > j => ~IsLog(cs[k])
  BY DEF FilterDue
<1>2. CASE j = i
  <2>1. cs[i].got.rows = f
    BY <1>1, <1>2
  <2>2. ASSUME NEW k \in DOMAIN ds PROVE ~IsLog(ds[k])
    <3>1. PICK l \in DOMAIN cs : l # i /\ ds[k] = cs[l]
      BY WasAt
    <3>2. l < i \/ l > i
      BY <1>0, <3>1
    <3> QED BY <1>1, <1>2, <3>1, <3>2
  <2> QED BY <2>1, <2>2 DEF FilterDue
<1>3. CASE j # i
  <2>1. PICK m \in DOMAIN ds :
           /\ ds[m] = cs[j]
           /\ \A k \in DOMAIN ds : k > m =>
                \E l \in DOMAIN cs : l > j /\ l # i /\ ds[k] = cs[l]
    BY <1>3, AfterMoved
  <2>2. \A k \in DOMAIN ds : k > m => ~IsLog(ds[k])
    BY <1>1, <2>1
  <2>3. IsLog(ds[m]) /\ ds[m].of = f
    BY <1>1, <2>1
  <2> QED BY <2>2, <2>3 DEF FilterDue
<1> QED BY <1>2, <1>3

LEMMA FilterAnswered ==
  ASSUME NEW cs, NEW ds, DOMAIN ds = DOMAIN cs,
         \A j \in DOMAIN cs : ds[j].kind = cs[j].kind /\ ds[j].of = cs[j].of,
         NEW rows, NEW button, NEW f, FilterDue(cs, rows, button, f)
  PROVE  FilterDue(ds, rows, button, f)
<1>1. \A j \in DOMAIN cs : IsLog(ds[j]) <=> IsLog(cs[j])
  BY DEF IsLog
<1> QED BY <1>1 DEF FilterDue

(***************************************************************************)
(* The changes that are still to be made                                   *)
(***************************************************************************)

LEMMA UnservedFinite ==
  ASSUME NEW n \in Nat, NEW ex, NEW cs, CallsOK(cs, n, ex), NEW t
  PROVE  IsFiniteSet(Unserved(cs, t)) /\ Cardinality(Unserved(cs, t)) \in Nat
<1>1. DOMAIN cs = 1..Len(cs) /\ Len(cs) \in Nat
  BY DEF CallsOK
<1>2. IsFiniteSet(DOMAIN cs)
  BY <1>1, FS_Interval
<1>3. Unserved(cs, t) \in SUBSET DOMAIN cs
  BY DEF Unserved
<1>4. IsFiniteSet(Unserved(cs, t))
  BY <1>2, <1>3, FS_Subset
<1> QED BY <1>4, FS_CardinalityType

LEMMA UnservedAppended ==
  ASSUME NEW n \in Nat, NEW ex, NEW cs, CallsOK(cs, n, ex),
         NEW c \in CallSet, CallOK(c, n, ex), NEW t
  PROVE  /\ Cardinality(Unserved(Append(cs, c), t)) <= Cardinality(Unserved(cs, t)) + 1
         /\ c.kind \notin Changes =>
              Cardinality(Unserved(Append(cs, c), t)) = Cardinality(Unserved(cs, t))
<1> DEFINE ds == Append(cs, c)
           U == Unserved(cs, t)
<1>1. /\ DOMAIN ds = 1..(Len(cs) + 1) /\ DOMAIN cs = 1..Len(cs) /\ Len(cs) \in Nat
      /\ \A i \in 1..Len(cs) : ds[i] = cs[i]
      /\ ds[Len(cs) + 1] = c
  BY AppendedOK
<1>2. IsFiniteSet(U) /\ Cardinality(U) \in Nat
  BY UnservedFinite
<1> HIDE DEF ds
<1>0. \A i : i \in DOMAIN ds <=> (i \in DOMAIN cs \/ i = Len(cs) + 1)
  BY <1>1
<1>3. CASE IsUnserved(c, t)
  <2>1. Unserved(ds, t) = U \cup {Len(cs) + 1}
    BY <1>0, <1>1, <1>3 DEF Unserved
  <2> DEFINE e == Len(cs) + 1
  <2> HIDE DEF U, e
  <2>2. Cardinality(U \cup {e}) = IF e \in U THEN Cardinality(U) ELSE Cardinality(U) + 1
    BY <1>2, FS_AddElement
  <2>3. Cardinality(U \cup {e}) <= Cardinality(U) + 1
    BY <1>2, <2>2
  <2> QED BY <1>3, <2>1, <2>3 DEF ds, e, U, IsUnserved
<1>4. CASE ~IsUnserved(c, t)
  <2>1. Unserved(ds, t) = U
    BY <1>0, <1>1, <1>4 DEF Unserved
  <2> QED BY <1>2, <2>1 DEF ds
<1> QED BY <1>3, <1>4

LEMMA UnservedRemoved ==
  ASSUME NEW n \in Nat, NEW ex, NEW cs, CallsOK(cs, n, ex), NEW i \in DOMAIN cs, NEW t
  PROVE  Cardinality(Unserved(RemoveAt(cs, i), t)) <= Cardinality(Unserved(cs, t))
<1> DEFINE ds == RemoveAt(cs, i)
           U == Unserved(cs, t)
           W == Unserved(ds, t)
           f == [k \in W |-> IF k < i THEN k ELSE k + 1]
<1>1. \A k \in DOMAIN ds :
        LET j == IF k < i THEN k ELSE k + 1
        IN  j \in DOMAIN cs /\ ds[k] = cs[j]
  BY WasAt
<1>2. DOMAIN ds \subseteq Nat /\ i \in Nat
  BY RemovedOK
<1>3. IsFiniteSet(U)
  BY UnservedFinite
<1>4. f \in Injection(W, U)
  <2>1. \A k \in W : f[k] \in U
    BY <1>1 DEF Unserved
  <2>2. \A k, l \in W : f[k] = f[l] => k = l
    BY <1>2 DEF Unserved
  <2> QED BY <2>1, <2>2 DEF Injection, IsInjective
<1> QED BY <1>3, <1>4, FS_Injection

\* A change of t is made or has failed.
LEMMA UnservedAnswered ==
  ASSUME NEW n \in Nat, NEW ex, NEW cs, CallsOK(cs, n, ex), NEW ds, NEW i \in DOMAIN cs,
         DOMAIN ds = DOMAIN cs,
         \A j \in DOMAIN cs : /\ ds[j].kind = cs[j].kind /\ ds[j].of = cs[j].of
                              /\ j # i => ds[j] = cs[j],
         cs[i].kind \in Changes => cs[i].got.rows = Asked /\ ds[i].got.rows # Asked,
         NEW t
  PROVE  Cardinality(Unserved(ds, t)) =
           IF IsChange(cs[i], t) THEN Cardinality(Unserved(cs, t)) - 1
           ELSE Cardinality(Unserved(cs, t))
<1> DEFINE U == Unserved(cs, t)
<1>1. IsFiniteSet(U)
  BY UnservedFinite
<1>2. CASE IsChange(cs[i], t)
  <2>1. Unserved(ds, t) = U \ {i} /\ i \in U
    BY <1>2 DEF Unserved, IsUnserved, IsChange
  <2> QED BY <1>1, <1>2, <2>1, FS_RemoveElement
<1>3. CASE ~IsChange(cs[i], t)
  <2>1. \A j \in DOMAIN cs : IsUnserved(ds[j], t) <=> IsUnserved(cs[j], t)
    BY <1>3 DEF IsUnserved, IsChange
  <2>2. Unserved(ds, t) = U
    BY <2>1 DEF Unserved
  <2> QED BY <1>3, <2>2
<1> QED BY <1>2, <1>3

(***************************************************************************)
(* The live log                                                            *)
(***************************************************************************)

LEMMA PrefixAt ==
  ASSUME NEW S, NEW s \in Seq(S), NEW u \in Seq(S)
  PROVE  IsPrefix(s, u) <=> /\ Len(s) <= Len(u)
                            /\ \A i \in 1..Len(s) : s[i] = u[i]
<1>1. Len(s) \in Nat /\ Len(u) \in Nat /\ DOMAIN s = 1..Len(s) /\ DOMAIN u = 1..Len(u)
  OBVIOUS
<1>2. SubSeq(s, 1, Len(s)) = s
  BY SubSeqFull
<1>3. CASE Len(s) <= Len(u)
  <2>1. \A i \in 1..Len(s) : s[i] \in S /\ u[i] \in S
    BY <1>1, <1>3, ElementOfSeq
  <2>2. /\ SubSeq(u, 1, Len(s)) \in Seq(S)
        /\ Len(SubSeq(u, 1, Len(s))) = Len(s)
        /\ \A i \in 1..Len(s) : SubSeq(u, 1, Len(s))[i] = u[i]
    <3>1. /\ SubSeq(u, 1, Len(s)) \in Seq(S)
          /\ Len(SubSeq(u, 1, Len(s))) = IF 1 <= Len(s) THEN Len(s) - 1 + 1 ELSE 0
          /\ \A i \in 1..(Len(s) - 1 + 1) : SubSeq(u, 1, Len(s))[i] = u[1 + i - 1]
      BY <1>1, <2>1, SubSeqProperties
    <3> QED BY <1>1, <3>1
  <2>3. (\A i \in 1..Len(s) : s[i] = u[i]) => s = SubSeq(u, 1, Len(s))
    BY <2>2, SeqEqual
  <2>4. s = SubSeq(u, 1, Len(s)) => \A i \in 1..Len(s) : s[i] = u[i]
    BY <2>2
  <2> QED BY <1>2, <1>3, <2>3, <2>4 DEF IsPrefix
<1> QED BY <1>1, <1>3 DEF IsPrefix

LEMMA Unshifted ==
  ASSUME NEW S, NEW q \in S, NEW log \in Seq(S), Len(log) <= LogRows
  PROVE  /\ Unshift(q, log) \in Seq(S)
         /\ Len(Unshift(q, log)) = IF Len(log) = LogRows THEN LogRows ELSE Len(log) + 1
         /\ Unshift(q, log)[1] = q
         /\ \A i \in 2..Len(Unshift(q, log)) : Unshift(q, log)[i] = log[i - 1]
<1> DEFINE longer == <<q>> \o log
<1>1. Len(log) \in Nat /\ LogRows \in Nat \ {0}
  BY LogRowsAssumption
<1>2. <<q>> \in Seq(S) /\ Len(<<q>>) = 1 /\ <<q>>[1] = q
  OBVIOUS
<1>3. /\ longer \in Seq(S) /\ Len(longer) = 1 + Len(log)
      /\ longer[1] = q
      /\ \A i \in 2..(1 + Len(log)) : longer[i] = log[i - 1]
  <2>1. /\ longer \in Seq(S) /\ Len(longer) = 1 + Len(log)
        /\ \A i \in 1..(1 + Len(log)) : longer[i] = IF i <= 1 THEN <<q>>[i] ELSE log[i - 1]
    BY <1>2, ConcatProperties
  <2> QED BY <1>1, <1>2, <2>1
<1> HIDE DEF longer
<1>4. CASE Len(longer) > LogRows
  <2>1. Unshift(q, log) = SubSeq(longer, 1, Len(longer) - 1) /\ Len(log) = LogRows
    BY <1>1, <1>3, <1>4 DEF Unshift, longer
  <2>2. \A i \in 1..(Len(longer) - 1) : longer[i] \in S
    BY <1>1, <1>3, ElementOfSeq
  <2>3. /\ SubSeq(longer, 1, Len(longer) - 1) \in Seq(S)
        /\ Len(SubSeq(longer, 1, Len(longer) - 1)) = Len(log)
        /\ \A i \in 1..Len(log) : SubSeq(longer, 1, Len(longer) - 1)[i] = longer[i]
    <3> DEFINE n == Len(log)
    <3>1. Len(longer) - 1 = n /\ n \in Nat \ {0}
      BY <1>1, <1>3, <2>1
    <3> HIDE DEF n
    <3>2. /\ SubSeq(longer, 1, n) \in Seq(S)
          /\ Len(SubSeq(longer, 1, n)) = IF 1 <= n THEN n - 1 + 1 ELSE 0
          /\ \A i \in 1..(n - 1 + 1) : SubSeq(longer, 1, n)[i] = longer[1 + i - 1]
      BY <2>2, <3>1, SubSeqProperties
    <3>3. Len(SubSeq(longer, 1, n)) = n /\ \A i \in 1..n : SubSeq(longer, 1, n)[i] = longer[i]
      BY <3>1, <3>2
    <3> QED BY <3>1, <3>2, <3>3 DEF n
  <2> QED BY <1>1, <1>3, <2>1, <2>3
<1>5. CASE ~(Len(longer) > LogRows)
  <2>1. Unshift(q, log) = longer
    BY <1>5 DEF Unshift, longer
  <2> QED BY <1>1, <1>3, <1>5, <2>1
<1> QED BY <1>4, <1>5

\* A message put in front of both leaves one in front of the other.
LEMMA UnshiftedPrefix ==
  ASSUME NEW S, NEW q \in S, NEW s \in Seq(S), NEW u \in Seq(S),
         Len(s) <= LogRows, Len(u) <= LogRows, IsPrefix(s, u)
  PROVE  IsPrefix(Unshift(q, s), Unshift(q, u))
<1> DEFINE a == Unshift(q, s)
           b == Unshift(q, u)
<1>1. /\ a \in Seq(S) /\ Len(a) = IF Len(s) = LogRows THEN LogRows ELSE Len(s) + 1
      /\ a[1] = q /\ \A i \in 2..Len(a) : a[i] = s[i - 1]
  BY Unshifted
<1>2. /\ b \in Seq(S) /\ Len(b) = IF Len(u) = LogRows THEN LogRows ELSE Len(u) + 1
      /\ b[1] = q /\ \A i \in 2..Len(b) : b[i] = u[i - 1]
  BY Unshifted
<1>3. Len(s) \in Nat /\ Len(u) \in Nat /\ LogRows \in Nat \ {0}
  BY LogRowsAssumption
<1>4. Len(s) <= Len(u) /\ \A i \in 1..Len(s) : s[i] = u[i]
  BY PrefixAt
<1> HIDE DEF a, b
<1>5. Len(a) <= Len(b) /\ Len(a) <= Len(s) + 1
  BY <1>1, <1>2, <1>3, <1>4
<1>6. ASSUME NEW i \in 1..Len(a) PROVE a[i] = b[i]
  <2>1. CASE i = 1
    BY <1>1, <1>2, <2>1
  <2>2. CASE i # 1
    <3>1. i \in 2..Len(a) /\ i \in 2..Len(b) /\ i - 1 \in 1..Len(s)
      BY <1>1, <1>2, <1>3, <1>5, <2>2
    <3> QED BY <1>1, <1>2, <1>4, <3>1
  <2> QED BY <2>1, <2>2
<1>7. IsPrefix(a, b)
  BY <1>1, <1>2, <1>5, <1>6, PrefixAt
<1> QED BY <1>7 DEF a, b

LEMMA NewestTyped ==
  ASSUME NEW n \in 0..MaxEvents
  PROVE  Newest(n) \in Seq(1..MaxEvents) /\ Len(Newest(n)) <= LogRows
<1> DEFINE k == IF n < LogRows THEN n ELSE LogRows
           s == [i \in 1..k |-> n + 1 - i]
<1>1. k \in Nat /\ k <= LogRows /\ k <= n /\ n \in Nat /\ MaxEvents \in Nat /\ n <= MaxEvents
  BY LogRowsAssumption, BoundsAssumption
<1>2. Newest(n) = s
  BY DEF Newest
<1> HIDE DEF k
<1>3. \A i \in 1..k : n + 1 - i \in 1..MaxEvents
  BY <1>1
<1>4. s \in Seq(1..MaxEvents) /\ Len(s) = k
  BY <1>1, <1>3
<1> QED BY <1>1, <1>2, <1>4

(***************************************************************************)
(* The inductive invariant                                                 *)
(***************************************************************************)

Content == [page : Pages, rows : {None} \cup Nat \cup Filters,
            button : {None} \cup Filters, queries : {None} \cup Nat,
            log : Seq(1..MaxEvents)]

Typed ==
  /\ page \in Pages /\ filter \in Filters
  /\ content \in Content /\ Len(content.log) <= LogRows
  /\ live \in Seq(1..MaxEvents) /\ Len(live) <= LogRows
  /\ Len(calls) <= MaxCalls
  /\ qCount \in Nat
  /\ logged \in 0..MaxEvents
  /\ feed \in Seq(1..MaxEvents)
  /\ version \in [Tables -> Nat]
  /\ clicks \in 0..MaxClicks /\ failures \in 0..MaxFailures
  /\ excused \in SUBSET (Tables \cup {"querylog"})

\* A table has changed no more often than the user has clicked, and will not.
Counted == \A t \in Tables : version[t] + Cardinality(Unserved(calls, t)) <= clicks

TablesDue ==
  \A t \in Tables : content.page = t /\ t \notin excused =>
    TableDue(calls, content.rows, version[t], t)

LogDue ==
  content.page = "querylog" /\ "querylog" \notin excused =>
    FilterDue(calls, content.rows, content.button, filter)

LiveDue ==
  content.page = "dashboard" =>
    \/ \E i \in DOMAIN calls : calls[i].kind = "render"
    \/ IsPrefix(live, content.log)

Inv == /\ Typed /\ CallsOK(calls, logged, excused)
       /\ Counted /\ TablesDue /\ LogDue /\ LiveDue

-------------------------------------------------------------------------------
LEMMA PagesApart ==
  /\ Tables \subseteq Pages /\ {"dashboard", "querylog"} \subseteq Pages
  /\ "dashboard" \notin Tables /\ "querylog" \notin Tables
  /\ "devices" \in Tables
  /\ \A p \in Pages : p \in Tables \/ p = "dashboard" \/ p = "querylog"
BY ListsAssumption DEF Pages, Tables

LEMMA BlankTyped ==
  ASSUME NEW p \in Pages
  PROVE  /\ Blank(p) \in Content /\ Blank(p).page = p
         /\ Blank(p).rows = None /\ Blank(p).log = <<>>
BY DEF Blank, Content

\* What a page asks for is a call of its kind.
LEMMA LoadMade ==
  ASSUME NEW p \in Pages, filter \in Filters, NEW n \in Nat, NEW ex
  PROVE  /\ Load(p) \in CallSet /\ CallOK(Load(p), n, ex)
         /\ Load(p).kind \notin Changes
         /\ p \in Tables => IsLoad(Load(p), p) /\ Load(p).got.rows = Asked
         /\ p = "querylog" => IsLog(Load(p)) /\ Load(p).of = filter
         /\ p = "dashboard" => Load(p).kind = "render"
<1> USE DEF Kinds, Changes, IsLoad, IsLog
<1>1. CASE p = "dashboard"
  <2>1. Load(p) = Call("render", p)
    BY <1>1 DEF Load
  <2> QED BY <1>1, <2>1, CallMade, PagesApart
<1>2. CASE p = "querylog"
  <2>1. Load(p) = Call("log", filter)
    BY <1>2 DEF Load
  <2>2. "log" \in Kinds /\ filter \in Pages \cup Filters /\ "log" \notin Changes \cup {"load"}
    OBVIOUS
  <2>3. /\ Call("log", filter) \in CallSet /\ CallOK(Call("log", filter), n, ex)
        /\ Call("log", filter).kind = "log" /\ Call("log", filter).of = filter
    BY <2>2, CallMade
  <2> QED BY <1>2, <2>1, <2>2, <2>3, PagesApart
<1>3. CASE p \in Tables
  <2>1. Load(p) = Call("load", p)
    BY <1>3, PagesApart DEF Load
  <2> QED BY <1>3, <2>1, CallMade, PagesApart
<1> QED BY <1>1, <1>2, <1>3, PagesApart

\* The parts of the invariant when a call is made that is no change, or a click.
LEMMA CallAdded ==
  ASSUME Inv, NEW c \in CallSet, CallOK(c, logged, excused),
         calls' = Append(calls, c),
         UNCHANGED <<logged, excused, version>>,
         clicks' \in Nat, clicks' >= clicks,
         c.kind \in Changes => clicks' = clicks + 1
  PROVE  CallsOK(calls, logged, excused)' /\ Counted' /\ Len(calls') = Len(calls) + 1
<1>0. logged \in Nat
  BY DEF Inv, Typed
<1>1. CallsOK(Append(calls, c), logged, excused) /\ Len(Append(calls, c)) = Len(calls) + 1
  BY <1>0, AppendedOK DEF Inv
<1>2. CallsOK(calls', logged', excused')
  BY <1>1
<1>3. ASSUME NEW t \in Tables
      PROVE  version'[t] + Cardinality(Unserved(calls', t)) <= clicks'
  <2> DEFINE u == Cardinality(Unserved(calls, t))
             w == Cardinality(Unserved(Append(calls, c), t))
  <2>1. w <= u + 1 /\ (c.kind \notin Changes => w = u)
    BY <1>0, UnservedAppended DEF Inv
  <2>2. u \in Nat /\ w \in Nat
    <3>1. u \in Nat
      BY <1>0, UnservedFinite DEF Inv
    <3>2. w \in Nat
      BY <1>0, <1>1, UnservedFinite
    <3> QED BY <3>1, <3>2
  <2>3. version[t] + u <= clicks /\ version[t] \in Nat /\ clicks \in Nat
    BY DEF Inv, Counted, Typed
  <2> HIDE DEF u, w
  <2>4. version[t] + w <= clicks'
    BY <2>1, <2>2, <2>3
  <2> QED BY <2>4 DEF w
<1> QED BY <1>1, <1>2, <1>3 DEF Counted

\* ... and when one goes.
LEMMA CallGone ==
  ASSUME Inv, NEW i \in DOMAIN calls, calls' = RemoveAt(calls, i),
         UNCHANGED <<logged, version, clicks>>, excused \subseteq excused'
  PROVE  CallsOK(calls, logged, excused)' /\ Counted' /\ Len(calls') = Len(calls) - 1
<1>0. logged \in Nat
  BY DEF Inv, Typed
<1>1. CallsOK(RemoveAt(calls, i), logged, excused) /\ Len(RemoveAt(calls, i)) = Len(calls) - 1
  BY <1>0, RemovedOK DEF Inv
<1>2. CallsOK(calls', logged', excused')
  BY <1>0, <1>1, CallsStayOK
<1>3. ASSUME NEW t \in Tables
      PROVE  version'[t] + Cardinality(Unserved(calls', t)) <= clicks'
  <2> DEFINE u == Cardinality(Unserved(calls, t))
             w == Cardinality(Unserved(RemoveAt(calls, i), t))
  <2>1. w <= u
    BY <1>0, UnservedRemoved DEF Inv
  <2>2. u \in Nat /\ w \in Nat
    <3>1. u \in Nat
      BY <1>0, UnservedFinite DEF Inv
    <3>2. w \in Nat
      BY <1>0, <1>1, UnservedFinite
    <3> QED BY <3>1, <3>2
  <2>3. version[t] + u <= clicks /\ version[t] \in Nat /\ clicks \in Nat
    BY DEF Inv, Counted, Typed
  <2> HIDE DEF u, w
  <2>4. version[t] + w <= clicks
    BY <2>1, <2>2, <2>3
  <2> QED BY <2>4 DEF w
<1> QED BY <1>1, <1>2, <1>3 DEF Counted

LEMMA Initially == Init => Inv
<1> SUFFICES ASSUME Init PROVE Inv
  OBVIOUS
<1> DEFINE c == Call("render", "dashboard")
<1>1. c \in CallSet /\ CallOK(c, logged, excused) /\ c.kind = "render"
  BY CallMade, PagesApart DEF Init, Kinds, Changes
<1>2. content \in Content /\ content.page = "dashboard" /\ content.log = <<>>
  BY BlankTyped, PagesApart DEF Init
<1>3. calls = <<c>>
  BY DEF Init
<1> HIDE DEF c
<1>4. CallsOK(calls, logged, excused) /\ DOMAIN calls = {1} /\ Len(calls) = 1
  BY <1>1, <1>3 DEF CallsOK
<1>5. Typed
  BY <1>2, <1>4, PagesApart, FiltersAssumption, BoundsAssumption, LogRowsAssumption DEF Init, Typed
<1>6. Counted
  <2> SUFFICES ASSUME NEW t \in Tables
               PROVE  version[t] + Cardinality(Unserved(calls, t)) <= clicks
    BY DEF Counted
  <2>1. Unserved(calls, t) = {}
    BY <1>1, <1>3, <1>4 DEF Unserved, IsUnserved, Changes
  <2>2. Cardinality(Unserved(calls, t)) = 0
    BY <2>1, FS_EmptySet
  <2>3. version[t] = 0 /\ clicks = 0
    BY DEF Init
  <2> QED BY <2>2, <2>3
<1>7. LiveDue
  BY <1>1, <1>3, <1>4 DEF LiveDue
<1> QED BY <1>2, <1>4, <1>5, <1>6, <1>7, PagesApart DEF Inv, TablesDue, LogDue

(***************************************************************************)
(* What the user does, the timer and the stream                            *)
(***************************************************************************)

LEMMA GoPageKeeps ==
  ASSUME Inv, NEW p \in Pages, GoPage(p)
  PROVE  Inv'
<1> DEFINE c == Load(p)
<1>0. logged \in Nat /\ filter \in Filters
  BY DEF Inv, Typed
<1>1. /\ c \in CallSet /\ CallOK(c, logged, excused) /\ c.kind \notin Changes
      /\ p \in Tables => IsLoad(c, p) /\ c.got.rows = Asked
      /\ p = "querylog" => IsLog(c) /\ c.of = filter
      /\ p = "dashboard" => c.kind = "render"
  BY <1>0, LoadMade
<1>2. /\ calls' = Append(calls, c) /\ content' = Blank(p) /\ page' = p
      /\ clicks < MaxClicks /\ clicks' = clicks + 1 /\ Len(calls) < MaxCalls
      /\ UNCHANGED <<filter, live, qCount, logged, feed, version, failures, excused>>
  BY DEF GoPage
<1> HIDE DEF c
<1>3. content' \in Content /\ content'.page = p /\ content'.log = <<>>
  BY <1>2, BlankTyped
<1>4. clicks' \in 0..MaxClicks /\ clicks' >= clicks /\ clicks' \in Nat
  BY <1>2, BoundsAssumption DEF Inv, Typed
<1>5. CallsOK(calls, logged, excused)' /\ Counted' /\ Len(calls') = Len(calls) + 1
  BY <1>1, <1>2, <1>4, CallAdded
<1>6. Typed'
  <2>1. Len(calls') <= MaxCalls
    <3>1. Len(calls) \in Nat
      BY DEF Inv, CallsOK
    <3> QED BY <1>2, <1>5, <3>1, BoundsAssumption
  <2>2. Len(content'.log) <= LogRows
    BY <1>3, LogRowsAssumption
  <2> QED BY <1>2, <1>3, <1>4, <2>1, <2>2 DEF Inv, Typed
<1>7. TablesDue'
  <2> SUFFICES ASSUME NEW t \in Tables, content'.page = t
               PROVE  TableDue(calls', content'.rows, version'[t], t)
    BY DEF TablesDue
  <2>1. IsLoad(c, t) /\ c.got.rows = Asked
    BY <1>1, <1>3
  <2> QED BY <1>0, <1>1, <1>2, <2>1, DueAppended DEF Inv
<1>8. LogDue'
  <2> SUFFICES ASSUME content'.page = "querylog"
               PROVE  FilterDue(calls', content'.rows, content'.button, filter')
    BY DEF LogDue
  <2> QED BY <1>0, <1>1, <1>2, <1>3, FilterAppended DEF Inv
<1>9. LiveDue'
  <2> SUFFICES ASSUME content'.page = "dashboard"
               PROVE  \E i \in DOMAIN calls' : calls'[i].kind = "render"
    BY DEF LiveDue
  <2>1. /\ DOMAIN calls' = 1..(Len(calls) + 1) /\ Len(calls) \in Nat
        /\ calls'[Len(calls) + 1] = c
    BY <1>0, <1>1, <1>2, AppendedOK DEF Inv
  <2> QED BY <1>1, <1>3, <2>1
<1> QED BY <1>5, <1>6, <1>7, <1>8, <1>9 DEF Inv

LEMMA QlFilterKeeps ==
  ASSUME Inv, NEW f \in Filters, QlFilter(f)
  PROVE  Inv'
<1> DEFINE c == Call("log", f)
<1>0. logged \in Nat
  BY DEF Inv, Typed
<1>1. /\ c \in CallSet /\ CallOK(c, logged, excused) /\ c.kind \notin Changes
      /\ IsLog(c) /\ c.of = f
  <2>1. "log" \in Kinds /\ f \in Pages \cup Filters /\ "log" \notin Changes \cup {"load"}
    BY DEF Kinds, Changes
  <2>2. c \in CallSet /\ CallOK(c, logged, excused) /\ c.kind = "log" /\ c.of = f
    BY <1>0, <2>1, CallMade
  <2> QED BY <2>1, <2>2 DEF IsLog
<1>2. /\ calls' = Append(calls, c) /\ filter' = f /\ content.page = "querylog"
      /\ clicks < MaxClicks /\ clicks' = clicks + 1 /\ Len(calls) < MaxCalls
      /\ UNCHANGED <<page, content, live, qCount, logged, feed, version, failures, excused>>
  BY DEF QlFilter
<1> HIDE DEF c
<1>4. clicks' \in 0..MaxClicks /\ clicks' >= clicks /\ clicks' \in Nat
  BY <1>2, BoundsAssumption DEF Inv, Typed
<1>5. CallsOK(calls, logged, excused)' /\ Counted' /\ Len(calls') = Len(calls) + 1
  BY <1>1, <1>2, <1>4, CallAdded
<1>6. Typed'
  <2>1. Len(calls') <= MaxCalls
    <3>1. Len(calls) \in Nat
      BY DEF Inv, CallsOK
    <3> QED BY <1>2, <1>5, <3>1, BoundsAssumption
  <2> QED BY <1>2, <1>4, <2>1 DEF Inv, Typed
<1>7. TablesDue' /\ LiveDue'
  BY <1>2, PagesApart DEF TablesDue, LiveDue
<1>8. LogDue'
  <2>1. FilterDue(Append(calls, c), content.rows, content.button, f)
    BY <1>0, <1>1, FilterAppended DEF Inv
  <2> QED BY <1>2, <2>1 DEF LogDue
<1> QED BY <1>5, <1>6, <1>7, <1>8 DEF Inv

\* A call that is neither a load nor for the log leaves what is due.
LEMMA DueStays ==
  ASSUME Inv, NEW c \in CallSet, CallOK(c, logged, excused), c.kind \notin {"load", "log"},
         calls' = Append(calls, c),
         UNCHANGED <<filter, content, live, version, excused>>
  PROVE  TablesDue' /\ LogDue' /\ LiveDue'
<1>0. logged \in Nat
  BY DEF Inv, Typed
<1>1. \A t : ~IsLoad(c, t)
  BY DEF IsLoad
<1>2. TablesDue'
  <2> SUFFICES ASSUME NEW t \in Tables, content.page = t, t \notin excused
               PROVE  TableDue(calls', content.rows, version[t], t)
    BY DEF TablesDue
  <2>1. TableDue(calls, content.rows, version[t], t)
    BY DEF Inv, TablesDue
  <2> QED BY <1>0, <1>1, <2>1, DueAppended DEF Inv
<1>3. LogDue'
  <2> SUFFICES ASSUME content.page = "querylog", "querylog" \notin excused
               PROVE  FilterDue(calls', content.rows, content.button, filter)
    BY DEF LogDue
  <2>1. FilterDue(calls, content.rows, content.button, filter) /\ ~IsLog(c)
    BY DEF Inv, LogDue, IsLog
  <2> QED BY <1>0, <2>1, FilterAppended DEF Inv
<1>4. LiveDue'
  <2>1. /\ DOMAIN calls' = 1..(Len(calls) + 1) /\ DOMAIN calls = 1..Len(calls)
        /\ Len(calls) \in Nat /\ \A i \in 1..Len(calls) : calls'[i] = calls[i]
    BY <1>0, AppendedOK DEF Inv
  <2>2. \A i \in DOMAIN calls : i \in DOMAIN calls' /\ calls'[i] = calls[i]
    BY <2>1
  <2> QED BY <2>2 DEF Inv, LiveDue
<1> QED BY <1>2, <1>3, <1>4

LEMMA ChangeKeeps ==
  ASSUME Inv, NEW t \in Tables, NEW kind \in {"form", "row"}, Change(kind, t)
  PROVE  Inv'
<1> DEFINE c == Call(kind, t)
<1>0. logged \in Nat
  BY DEF Inv, Typed
<1>1. /\ c \in CallSet /\ CallOK(c, logged, excused)
      /\ c.kind \in Changes /\ c.kind \notin {"load", "log"}
  <2>1. kind \in Kinds /\ t \in Pages \cup Filters /\ kind \in Changes
        /\ kind \notin {"render", "poll", "log", "load"}
    BY PagesApart DEF Kinds, Changes
  <2>2. c \in CallSet /\ CallOK(c, logged, excused) /\ c.kind = kind
    BY <1>0, <2>1, CallMade
  <2> QED BY <2>1, <2>2
<1>2. /\ calls' = Append(calls, c)
      /\ clicks < MaxClicks /\ clicks' = clicks + 1 /\ Len(calls) < MaxCalls
      /\ UNCHANGED <<page, filter, content, live, qCount, logged, feed, version,
                     failures, excused>>
  BY DEF Change
<1> HIDE DEF c
<1>4. clicks' \in 0..MaxClicks /\ clicks' >= clicks /\ clicks' \in Nat
  BY <1>2, BoundsAssumption DEF Inv, Typed
<1>5. CallsOK(calls, logged, excused)' /\ Counted' /\ Len(calls') = Len(calls) + 1
  BY <1>1, <1>2, <1>4, CallAdded
<1>6. Typed'
  <2>1. Len(calls') <= MaxCalls
    <3>1. Len(calls) \in Nat
      BY DEF Inv, CallsOK
    <3> QED BY <1>2, <1>5, <3>1, BoundsAssumption
  <2> QED BY <1>2, <1>4, <2>1 DEF Inv, Typed
<1> QED BY <1>1, <1>2, <1>5, <1>6, DueStays DEF Inv

LEMMA PollKeeps ==
  ASSUME Inv, Poll
  PROVE  Inv'
<1> DEFINE c == Call("poll", page)
<1>0. logged \in Nat /\ clicks \in Nat
  BY BoundsAssumption DEF Inv, Typed
<1>1. /\ c \in CallSet /\ CallOK(c, logged, excused)
      /\ c.kind \notin Changes /\ c.kind \notin {"load", "log"}
  <2>1. "poll" \in Kinds /\ page \in Pages \cup Filters /\ page = "dashboard"
        /\ "poll" \notin Changes \cup {"load"}
    BY PagesApart DEF Poll, Kinds, Changes
  <2>2. c \in CallSet /\ CallOK(c, logged, excused) /\ c.kind = "poll"
    BY <1>0, <2>1, CallMade
  <2> QED BY <2>1, <2>2
<1>2. /\ calls' = Append(calls, c) /\ Len(calls) < MaxCalls
      /\ UNCHANGED <<page, filter, content, live, qCount, logged, feed, version,
                     clicks, failures, excused>>
  BY DEF Poll
<1> HIDE DEF c
<1>5. CallsOK(calls, logged, excused)' /\ Counted' /\ Len(calls') = Len(calls) + 1
  BY <1>0, <1>1, <1>2, CallAdded
<1>6. Typed'
  <2>1. Len(calls') <= MaxCalls
    <3>1. Len(calls) \in Nat
      BY DEF Inv, CallsOK
    <3> QED BY <1>2, <1>5, <3>1, BoundsAssumption
  <2> QED BY <1>2, <2>1 DEF Inv, Typed
<1> QED BY <1>1, <1>2, <1>5, <1>6, DueStays DEF Inv

LEMMA LogKeeps ==
  ASSUME Inv, Log
  PROVE  Inv'
<1>1. /\ logged < MaxEvents /\ logged' = logged + 1
      /\ feed' \in {Append(feed, logged + 1), feed}
      /\ UNCHANGED <<page, filter, content, calls, live, qCount, version, clicks,
                     failures, excused>>
  BY DEF Log
<1>2. logged' \in 0..MaxEvents /\ logged \in Nat /\ logged' \in Nat /\ logged + 1 \in 1..MaxEvents
  BY <1>1, BoundsAssumption DEF Inv, Typed
<1>3. Typed'
  <2>1. feed' \in Seq(1..MaxEvents)
    <3> DEFINE S == 1..MaxEvents
    <3> HIDE DEF S
    <3>1. feed \in Seq(S)
      BY DEF Inv, Typed, S
    <3>2. logged + 1 \in S
      BY <1>2 DEF S
    <3>3. Append(feed, logged + 1) \in Seq(S)
      BY <3>1, <3>2
    <3> QED BY <1>1, <3>1, <3>3 DEF S
  <2> QED BY <1>1, <1>2, <2>1 DEF Inv, Typed
<1>4. CallsOK(calls, logged, excused)'
  <2>1. CallsOK(calls, logged', excused)
    BY <1>1, <1>2, CallsStayOK DEF Inv
  <2> QED BY <1>1, <2>1
<1>5. Counted' /\ TablesDue' /\ LogDue' /\ LiveDue'
  BY <1>1 DEF Inv, Counted, TablesDue, LogDue, LiveDue
<1> QED BY <1>3, <1>4, <1>5 DEF Inv

LEMMA ReceiveKeeps ==
  ASSUME Inv, Receive
  PROVE  Inv'
<1> DEFINE S == 1..MaxEvents
           q == Head(feed)
<1>1. /\ feed # <<>> /\ feed' = Tail(feed)
      /\ live' = Unshift(q, live) /\ qCount' = qCount + 1
      /\ content' = IF content.page = "dashboard"
                    THEN [content EXCEPT !.log = Unshift(q, @), !.queries = qCount + 1]
                    ELSE content
      /\ UNCHANGED <<page, filter, calls, logged, version, clicks, failures, excused>>
  BY DEF Receive
<1>2. /\ live \in Seq(S) /\ feed \in Seq(S) /\ content.log \in Seq(S)
      /\ Len(live) <= LogRows /\ Len(content.log) <= LogRows
  BY DEF Inv, Typed, Content
<1> HIDE DEF S, q
<1>3. q \in S /\ feed' \in Seq(S)
  BY <1>1, <1>2, HeadTailProperties DEF q
<1>4. /\ Unshift(q, live) \in Seq(S) /\ Len(Unshift(q, live)) <= LogRows
      /\ Unshift(q, content.log) \in Seq(S) /\ Len(Unshift(q, content.log)) <= LogRows
  <2>1. Len(live) \in Nat /\ Len(content.log) \in Nat /\ LogRows \in Nat
    BY <1>2, LogRowsAssumption
  <2>2. /\ Unshift(q, live) \in Seq(S)
        /\ Len(Unshift(q, live)) = IF Len(live) = LogRows THEN LogRows ELSE Len(live) + 1
    BY <1>2, <1>3, Unshifted
  <2>3. /\ Unshift(q, content.log) \in Seq(S)
        /\ Len(Unshift(q, content.log)) =
             IF Len(content.log) = LogRows THEN LogRows ELSE Len(content.log) + 1
    BY <1>2, <1>3, Unshifted
  <2> QED BY <1>2, <2>1, <2>2, <2>3
<1>5. /\ content' \in Content /\ content'.page = content.page /\ content'.rows = content.rows
      /\ content'.button = content.button /\ Len(content'.log) <= LogRows
      /\ content.page = "dashboard" => content'.log = Unshift(q, content.log)
  <2>1. content \in Content /\ qCount + 1 \in Nat
    BY DEF Inv, Typed
  <2> QED BY <1>1, <1>2, <1>4, <2>1 DEF Content, S
<1>6. Typed'
  <2>1. qCount' \in Nat
    BY <1>1 DEF Inv, Typed
  <2>2. live' \in Seq(1..MaxEvents) /\ feed' \in Seq(1..MaxEvents) /\ Len(live') <= LogRows
    BY <1>1, <1>3, <1>4 DEF S
  <2> QED BY <1>1, <1>5, <2>1, <2>2 DEF Inv, Typed
<1>7. CallsOK(calls, logged, excused)' /\ Counted' /\ TablesDue' /\ LogDue'
  BY <1>1, <1>5 DEF Inv, Counted, TablesDue, LogDue
<1>8. LiveDue'
  <2>1. CASE content.page = "dashboard" /\ IsPrefix(live, content.log)
    <3>1. IsPrefix(Unshift(q, live), Unshift(q, content.log))
      BY <1>2, <1>3, <2>1, UnshiftedPrefix
    <3> QED BY <1>1, <1>5, <2>1, <3>1 DEF LiveDue
  <2>2. CASE \E i \in DOMAIN calls : calls[i].kind = "render"
    BY <1>1, <2>2 DEF LiveDue
  <2> QED BY <1>5, <2>1, <2>2 DEF Inv, LiveDue
<1> QED BY <1>6, <1>7, <1>8 DEF Inv

(***************************************************************************)
(* The server                                                              *)
(***************************************************************************)

LEMMA ServeKeeps ==
  ASSUME Inv, NEW i \in DOMAIN calls, NEW part, Serve(i, part)
  PROVE  Inv'
<1> DEFINE c == calls[i]
           a == AnswerTo(c)
           ds == [calls EXCEPT ![i].got[part] = a]
<1>0. logged \in Nat /\ c \in CallSet /\ CallOK(c, logged, excused)
  BY ElementOfSeq DEF Inv, CallsOK, Typed
<1>1. /\ part \in DOMAIN c.got /\ c.got[part] = Asked
      /\ calls' = ds
      /\ version' = IF c.kind \in Changes THEN [version EXCEPT ![c.of] = @ + 1] ELSE version
      /\ UNCHANGED <<page, filter, content, live, qCount, logged, feed, clicks,
                     failures, excused>>
  BY DEF Serve, Changes
<1>2. /\ c.kind \in {"render", "poll"} => a = logged
      /\ c.kind = "log" => a = c.of /\ c.of \in Filters
      /\ c.kind = "load" => a = version[c.of] /\ a \in Nat /\ c.of \in Tables
      /\ c.kind \in Changes => a = Done /\ c.of \in Tables
  <2>1. version \in [Tables -> Nat]
    BY DEF Inv, Typed
  <2> QED BY <1>0, <2>1 DEF AnswerTo, CallOK, Changes
<1>3. a \in Answers /\ a # Asked /\ (c.kind \in Changes \cup {"load", "log"} => a # Failed)
  <2>1. c.kind \in Kinds
    BY <1>0, CallFields
  <2> QED BY <1>0, <1>2, <2>1, AnswersAssumption DEF Answers, Kinds, Changes
<1> HIDE DEF a
<1>4. /\ CallsOK(ds, logged, excused)
      /\ DOMAIN ds = DOMAIN calls /\ Len(ds) = Len(calls)
      /\ \A j \in DOMAIN calls : /\ ds[j].kind = calls[j].kind /\ ds[j].of = calls[j].of
                                 /\ j # i => ds[j] = calls[j]
      /\ c.kind \in {"log", "load", "form", "row"} => part = "rows" /\ ds[i].got.rows = a
  <2>1. CallsOK(calls, logged, excused)
    BY DEF Inv
  <2>2. AnswerOK(calls[i], a, logged, excused)
    BY <1>0, <1>2, <1>3 DEF AnswerOK
  <2>3. i \in DOMAIN calls /\ part \in DOMAIN calls[i].got /\ logged \in Nat
    BY <1>0, <1>1
  <2>4. ds = [calls EXCEPT ![i].got[part] = a]
    OBVIOUS
  <2> DEFINE e == excused
  <2>5. Replied(calls, ds, i, part, a, logged, e)
    BY <2>1, <2>2, <2>3, <2>4 DEF Replied
  <2> HIDE DEF ds, e
  <2>6. /\ CallsOK(ds, logged, e)
        /\ DOMAIN ds = DOMAIN calls /\ Len(ds) = Len(calls)
        /\ \A j \in DOMAIN calls : /\ ds[j].kind = calls[j].kind /\ ds[j].of = calls[j].of
                                   /\ j # i => ds[j] = calls[j]
        /\ calls[i].kind \in {"log", "load", "form", "row"} =>
             part = "rows" /\ ds[i].got.rows = a
    BY ONLY <2>5, AnsweredOK
  <2> QED BY <2>6 DEF e
<1> HIDE DEF ds
<1>5. /\ version' \in [Tables -> Nat]
      /\ \A t \in Tables : version'[t] = IF IsChange(c, t) THEN version[t] + 1 ELSE version[t]
  BY <1>1, <1>2 DEF Inv, Typed, IsChange
<1> HIDE DEF c
<1>6. Typed' /\ CallsOK(calls, logged, excused)'
  BY <1>1, <1>4, <1>5 DEF Inv, Typed
<1>7. Counted'
  <2> SUFFICES ASSUME NEW t \in Tables
               PROVE  version'[t] + Cardinality(Unserved(calls', t)) <= clicks
    BY <1>1 DEF Counted
  <2> DEFINE u == Cardinality(Unserved(calls, t))
             w == Cardinality(Unserved(ds, t))
  <2>1. w = IF IsChange(c, t) THEN u - 1 ELSE u
    <3>1. c.kind \in Changes => c.got.rows = Asked /\ ds[i].got.rows # Asked
      BY <1>1, <1>3, <1>4 DEF Changes
    <3> QED BY <1>0, <1>4, <3>1, UnservedAnswered DEF Inv, c
  <2>2. version[t] + u <= clicks /\ version[t] \in Nat /\ clicks \in Nat
    BY DEF Inv, Counted, Typed
  <2>3. u \in Nat
    BY <1>0, UnservedFinite DEF Inv
  <2> HIDE DEF u, w
  <2>4. version'[t] + w <= clicks
    BY <1>5, <2>1, <2>2, <2>3
  <2> QED BY <1>1, <2>4 DEF w
<1>8. TablesDue'
  <2> SUFFICES ASSUME NEW t \in Tables, content.page = t, t \notin excused
               PROVE  TableDue(ds, content.rows, version'[t], t)
    BY <1>1 DEF TablesDue
  <2>1. TableDue(calls, content.rows, version[t], t)
    BY DEF Inv, TablesDue
  <2>2. IsLoad(c, t) => ds[i].got.rows = version[t]
    BY <1>2, <1>4 DEF IsLoad
  <2>3. version[t] = version'[t] \/ IsChange(c, t)
    BY <1>5
  <2> DEFINE w == version'[t]
             v == version[t]
             rows == content.rows
  <2>4. /\ i \in DOMAIN calls /\ DOMAIN ds = DOMAIN calls
        /\ \A j \in DOMAIN calls : /\ ds[j].kind = calls[j].kind /\ ds[j].of = calls[j].of
                                   /\ j # i => ds[j] = calls[j]
    BY <1>4
  <2>5. /\ TableDue(calls, rows, v, t)
        /\ IsLoad(calls[i], t) => ds[i].got.rows = v
        /\ v = w \/ IsChange(calls[i], t)
    BY <2>1, <2>2, <2>3 DEF c
  <2> HIDE DEF w, v, rows
  <2>6. TableDue(ds, rows, w, t)
    BY ONLY <2>4, <2>5, DueAnswered, ZenonT(40)
  <2> QED BY <2>6 DEF w, rows
<1>9. LogDue'
  <2>1. ASSUME content.page = "querylog", "querylog" \notin excused
        PROVE  FilterDue(ds, content.rows, content.button, filter)
    <3>1. FilterDue(calls, content.rows, content.button, filter)
      BY <2>1 DEF Inv, LogDue
    <3> QED BY <1>4, <3>1, FilterAnswered
  <2> QED BY <1>1, <2>1 DEF LogDue
<1>10. LiveDue'
  BY <1>1, <1>4 DEF Inv, LiveDue
<1> QED BY <1>6, <1>7, <1>8, <1>9, <1>10 DEF Inv

LEMMA FailKeeps ==
  ASSUME Inv, NEW i \in DOMAIN calls, NEW part, Fail(i, part)
  PROVE  Inv'
<1> DEFINE c == calls[i]
           ds == [calls EXCEPT ![i].got[part] = Failed]
<1>0. logged \in Nat /\ c \in CallSet /\ CallOK(c, logged, excused) /\ c.kind \in Kinds
  BY ElementOfSeq, CallFields DEF Inv, CallsOK, Typed
<1>1. /\ part \in DOMAIN c.got /\ c.got[part] = Asked
      /\ calls' = ds
      /\ failures < MaxFailures /\ failures' = failures + 1
      /\ UNCHANGED <<page, filter, content, live, qCount, logged, feed, clicks>>
  BY DEF Fail
<1>2. /\ c.kind = "log" => c.of \in Filters
      /\ c.kind \in Changes \cup {"load"} => c.of \in Tables
  BY <1>0 DEF CallOK
<1>3. /\ excused \subseteq excused' /\ excused' \in SUBSET (Tables \cup {"querylog"})
      /\ c.kind = "log" => "querylog" \in excused'
      /\ c.kind \in Changes \cup {"load"} => c.of \in excused'
  <2>1. excused' = excused \cup
          (CASE c.kind = "log" -> {"querylog"}
             [] c.kind \in {"render", "poll"} -> {}
             [] OTHER -> {c.of})
    BY DEF Fail
  <2>2. c.kind = "log" => excused' = excused \cup {"querylog"}
    BY <2>1
  <2>3. c.kind \in {"render", "poll"} => excused' = excused
    BY <2>1
  <2>4. c.kind \in Changes \cup {"load"} => excused' = excused \cup {c.of}
    BY <2>1 DEF Changes
  <2>5. excused \in SUBSET (Tables \cup {"querylog"})
    BY DEF Inv, Typed
  <2> QED BY <1>0, <1>2, <2>2, <2>3, <2>4, <2>5 DEF Kinds, Changes
<1>4. /\ CallsOK(ds, logged, excused')
      /\ DOMAIN ds = DOMAIN calls /\ Len(ds) = Len(calls)
      /\ \A j \in DOMAIN calls : /\ ds[j].kind = calls[j].kind /\ ds[j].of = calls[j].of
                                 /\ j # i => ds[j] = calls[j]
      /\ c.kind \in {"log", "load", "form", "row"} => part = "rows" /\ ds[i].got.rows = Failed
  <2>1. CallsOK(calls, logged, excused')
    BY <1>0, <1>3, CallsStayOK DEF Inv
  <2>2. AnswerOK(calls[i], Failed, logged, excused')
    BY <1>3 DEF AnswerOK, Answers
  <2>3. i \in DOMAIN calls /\ part \in DOMAIN calls[i].got /\ logged \in Nat
    BY <1>0, <1>1
  <2>4. ds = [calls EXCEPT ![i].got[part] = Failed]
    OBVIOUS
  <2> DEFINE e == excused'
  <2>5. Replied(calls, ds, i, part, Failed, logged, e)
    BY <2>1, <2>2, <2>3, <2>4 DEF Replied
  <2> HIDE DEF ds, e
  <2>6. /\ CallsOK(ds, logged, e)
        /\ DOMAIN ds = DOMAIN calls /\ Len(ds) = Len(calls)
        /\ \A j \in DOMAIN calls : /\ ds[j].kind = calls[j].kind /\ ds[j].of = calls[j].of
                                   /\ j # i => ds[j] = calls[j]
        /\ calls[i].kind \in {"log", "load", "form", "row"} =>
             part = "rows" /\ ds[i].got.rows = Failed
    BY ONLY <2>5, AnsweredOK
  <2> QED BY <2>6 DEF e
<1> HIDE DEF ds
<1>5. /\ version' \in [Tables -> Nat]
      /\ \A t \in Tables : \/ version'[t] = version[t]
                           \/ IsChange(c, t) /\ version'[t] = version[t] + 1
  <2>1. \/ version' = version
        \/ c.kind \in Changes /\ version' = [version EXCEPT ![c.of] = @ + 1]
    BY DEF Fail, Changes
  <2> QED BY <1>2, <2>1 DEF Inv, Typed, IsChange
<1> HIDE DEF c
<1>6. Typed' /\ CallsOK(calls, logged, excused)'
  <2>1. failures' \in 0..MaxFailures
    BY <1>1, BoundsAssumption DEF Inv, Typed
  <2> QED BY <1>1, <1>3, <1>4, <1>5, <2>1 DEF Inv, Typed
<1>7. Counted'
  <2> SUFFICES ASSUME NEW t \in Tables
               PROVE  version'[t] + Cardinality(Unserved(calls', t)) <= clicks
    BY <1>1 DEF Counted
  <2> DEFINE u == Cardinality(Unserved(calls, t))
             w == Cardinality(Unserved(ds, t))
  <2>1. w = IF IsChange(c, t) THEN u - 1 ELSE u
    <3>1. c.kind \in Changes => c.got.rows = Asked /\ ds[i].got.rows # Asked
      BY <1>1, <1>4, AnswersAssumption DEF Changes
    <3> QED BY <1>0, <1>4, <3>1, UnservedAnswered DEF Inv, c
  <2>2. version[t] + u <= clicks /\ version[t] \in Nat /\ clicks \in Nat
    BY DEF Inv, Counted, Typed
  <2>3. u \in Nat
    BY <1>0, UnservedFinite DEF Inv
  <2> HIDE DEF u, w
  <2>4. version'[t] + w <= clicks
    BY <1>5, <2>1, <2>2, <2>3
  <2> QED BY <1>1, <2>4 DEF w
<1>8. TablesDue'
  <2> SUFFICES ASSUME NEW t \in Tables, content.page = t, t \notin excused'
               PROVE  TableDue(ds, content.rows, version'[t], t)
    BY <1>1 DEF TablesDue
  <2>1. TableDue(calls, content.rows, version[t], t)
    BY <1>3 DEF Inv, TablesDue
  <2>2. ~IsLoad(c, t) /\ ~IsChange(c, t)
    BY <1>3 DEF IsLoad, IsChange
  <2>3. version[t] = version'[t]
    BY <1>5, <2>2
  <2> DEFINE w == version'[t]
             v == version[t]
             rows == content.rows
  <2>4. /\ i \in DOMAIN calls /\ DOMAIN ds = DOMAIN calls
        /\ \A j \in DOMAIN calls : /\ ds[j].kind = calls[j].kind /\ ds[j].of = calls[j].of
                                   /\ j # i => ds[j] = calls[j]
    BY <1>4
  <2>5. /\ TableDue(calls, rows, v, t)
        /\ IsLoad(calls[i], t) => ds[i].got.rows = v
        /\ v = w \/ IsChange(calls[i], t)
    BY <2>1, <2>2, <2>3 DEF c
  <2> HIDE DEF w, v, rows
  <2>6. TableDue(ds, rows, w, t)
    BY ONLY <2>4, <2>5, DueAnswered, ZenonT(40)
  <2> QED BY <2>6 DEF w, rows
<1>9. LogDue'
  <2>1. ASSUME content.page = "querylog", "querylog" \notin excused'
        PROVE  FilterDue(ds, content.rows, content.button, filter)
    <3>1. FilterDue(calls, content.rows, content.button, filter)
      BY <1>3, <2>1 DEF Inv, LogDue
    <3> QED BY <1>4, <3>1, FilterAnswered
  <2> QED BY <1>1, <2>1 DEF LogDue
<1>10. LiveDue'
  BY <1>1, <1>4 DEF Inv, LiveDue
<1> QED BY <1>6, <1>7, <1>8, <1>9, <1>10 DEF Inv

(***************************************************************************)
(* What is done with the answers                                           *)
(***************************************************************************)

\* What is due of tables a call does not concern, once it is gone.
LEMMA GoneDue ==
  ASSUME Inv, NEW i \in DOMAIN calls, NEW t, TableDue(calls, content.rows, version[t], t),
         ~IsChange(calls[i], t), ~IsLoad(calls[i], t)
  PROVE  TableDue(RemoveAt(calls, i), content.rows, version[t], t)
<1>1. logged \in Nat
  BY DEF Inv, Typed
<1> QED BY <1>1, DueRemoved DEF Inv

\* A call that does not render the dashboard goes and leaves the log.
LEMMA GoneLive ==
  ASSUME Inv, NEW i \in DOMAIN calls, calls[i].kind # "render",
         content.page = "dashboard"
  PROVE  \/ \E j \in DOMAIN RemoveAt(calls, i) : RemoveAt(calls, i)[j].kind = "render"
         \/ IsPrefix(live, content.log)
<1>1. logged \in Nat
  BY DEF Inv, Typed
<1>2. CASE \E j \in DOMAIN calls : calls[j].kind = "render"
  <2>1. PICK j \in DOMAIN calls : calls[j].kind = "render"
    BY <1>2
  <2>2. \E m \in DOMAIN RemoveAt(calls, i) : RemoveAt(calls, i)[m] = calls[j]
    BY <1>1, <2>1, AfterMoved DEF Inv
  <2> QED BY <2>1, <2>2
<1> QED BY <1>2 DEF Inv, LiveDue

LEMMA RenderedKeeps ==
  ASSUME Inv, NEW i \in DOMAIN calls, Rendered(i)
  PROVE  Inv'
<1> DEFINE c == calls[i]
           queries == IF c.got.stats = Failed THEN content.queries ELSE c.got.stats
           log == IF live # <<>> THEN live
                  ELSE IF c.got.log = Failed THEN content.log ELSE Newest(c.got.log)
<1>0. logged \in Nat /\ c \in CallSet /\ CallOK(c, logged, excused)
  BY ElementOfSeq DEF Inv, CallsOK, Typed
<1>1. /\ c.kind = "render" /\ Answered(i) /\ calls' = RemoveAt(calls, i)
      /\ qCount' = IF c.got.stats = Failed THEN qCount ELSE c.got.stats
      /\ content' = IF content.page # "dashboard" THEN content
                    ELSE [content EXCEPT !.queries = queries, !.log = log]
      /\ UNCHANGED <<page, filter, live, logged, feed, version, clicks, failures, excused>>
  BY DEF Rendered
<1>2. c.got.stats \in {Failed} \cup 0..logged /\ c.got.log \in {Failed} \cup 0..logged
  <2>1. /\ DOMAIN c.got = {"stats", "log"}
        /\ \A part \in {"stats", "log"} : c.got[part] \in {Asked, Failed} \cup 0..logged
    BY <1>0, <1>1, PartsOf DEF CallOK
  <2>2. \A part \in DOMAIN c.got : c.got[part] # Asked
    BY <1>1 DEF Answered
  <2> QED BY <2>1, <2>2
<1> HIDE DEF c
<1>3. /\ queries \in {None} \cup Nat /\ qCount' \in Nat
      /\ log \in Seq(1..MaxEvents) /\ Len(log) <= LogRows
      /\ IsPrefix(live, log)
  <2>1. /\ content.queries \in {None} \cup Nat /\ qCount \in Nat
        /\ content.log \in Seq(1..MaxEvents) /\ Len(content.log) <= LogRows
        /\ live \in Seq(1..MaxEvents) /\ Len(live) <= LogRows
    BY DEF Inv, Typed, Content
  <2>2. \A n \in 0..logged : Newest(n) \in Seq(1..MaxEvents) /\ Len(Newest(n)) <= LogRows
    <3>1. \A n \in 0..logged : n \in 0..MaxEvents
      BY BoundsAssumption DEF Inv, Typed
    <3> QED BY <3>1, NewestTyped
  <2>3. log \in Seq(1..MaxEvents) /\ Len(log) <= LogRows
    <3>1. CASE live # <<>>
      BY <2>1, <3>1
    <3>2. CASE live = <<>> /\ c.got.log = Failed
      BY <2>1, <3>2
    <3>3. CASE live = <<>> /\ c.got.log # Failed
      BY <1>2, <2>2, <3>3
    <3> QED BY <3>1, <3>2, <3>3
  <2>4. IsPrefix(live, log)
    <3>1. CASE live # <<>>
      BY <2>1, <3>1, PrefixAt, LenProperties
    <3>2. CASE live = <<>>
      <4>1. Len(live) = 0 /\ Len(log) \in Nat
        BY <2>3, <3>2
      <4> HIDE DEF log
      <4>2. \A j \in 1..Len(live) : live[j] = log[j]
        BY <4>1
      <4>3. Len(live) <= Len(log)
        BY <4>1
      <4> QED BY <2>1, <2>3, <4>2, <4>3, PrefixAt, Zenon
    <3> QED BY <3>1, <3>2
  <2> QED BY <1>1, <1>2, <2>1, <2>3, <2>4
<1> HIDE DEF queries, log
<1>4. /\ content' \in Content /\ content'.page = content.page /\ content'.rows = content.rows
      /\ content'.button = content.button /\ Len(content'.log) <= LogRows
      /\ content.page = "dashboard" => content'.log = log
  <2>1. content \in Content /\ Len(content.log) <= LogRows
    BY DEF Inv, Typed
  <2> QED BY <1>1, <1>3, <2>1 DEF Content
<1>5. CallsOK(calls, logged, excused)' /\ Counted' /\ Len(calls') = Len(calls) - 1
  BY <1>1, CallGone
<1>6. Typed'
  <2>1. Len(calls') <= MaxCalls
    <3>1. Len(calls) \in Nat /\ Len(calls) <= MaxCalls
      BY DEF Inv, CallsOK, Typed
    <3> QED BY <1>5, <3>1, BoundsAssumption
  <2> QED BY <1>1, <1>3, <1>4, <2>1 DEF Inv, Typed
<1>7. TablesDue'
  <2> SUFFICES ASSUME NEW t \in Tables, content.page = t, t \notin excused
               PROVE  TableDue(RemoveAt(calls, i), content.rows, version[t], t)
    BY <1>1, <1>4 DEF TablesDue
  <2>1. ~IsChange(calls[i], t) /\ ~IsLoad(calls[i], t)
    BY <1>1 DEF IsChange, IsLoad, Changes, c
  <2> QED BY <2>1, GoneDue DEF Inv, TablesDue
<1>8. LogDue'
  <2>1. ASSUME content.page = "querylog", "querylog" \notin excused
        PROVE  FilterDue(RemoveAt(calls, i), content.rows, content.button, filter)
    <3>1. ~IsLog(calls[i])
      BY <1>1 DEF IsLog, c
    <3> QED BY <1>0, <2>1, <3>1, FilterRemoved DEF Inv, LogDue
  <2> QED BY <1>1, <1>4, <2>1 DEF LogDue
<1>9. LiveDue'
  BY <1>1, <1>3, <1>4 DEF LiveDue
<1> QED BY <1>5, <1>6, <1>7, <1>8, <1>9 DEF Inv

\* A call goes, and its page may show what it brought.
LEMMA GoneTyped ==
  ASSUME Inv, NEW i \in DOMAIN calls, calls' = RemoveAt(calls, i),
         content' \in Content, content'.log = content.log,
         UNCHANGED <<page, filter, live, qCount, logged, feed, version, clicks, failures>>,
         excused \subseteq excused', excused' \in SUBSET (Tables \cup {"querylog"})
  PROVE  Typed' /\ CallsOK(calls, logged, excused)' /\ Counted'
<1>1. CallsOK(calls, logged, excused)' /\ Counted' /\ Len(calls') = Len(calls) - 1
  BY CallGone
<1>2. Len(calls') <= MaxCalls
  <2>1. Len(calls) \in Nat /\ Len(calls) <= MaxCalls
    BY DEF Inv, CallsOK, Typed
  <2> QED BY <1>1, <2>1, BoundsAssumption
<1> QED BY <1>1, <1>2 DEF Inv, Typed

LEMMA PolledKeeps ==
  ASSUME Inv, NEW i \in DOMAIN calls, Polled(i)
  PROVE  Inv'
<1> DEFINE c == calls[i]
<1>0. logged \in Nat /\ c \in CallSet /\ CallOK(c, logged, excused)
  BY ElementOfSeq DEF Inv, CallsOK, Typed
<1>1. /\ c.kind = "poll" /\ Answered(i) /\ calls' = RemoveAt(calls, i)
      /\ content' = IF content.page = "dashboard" /\ c.got.stats # Failed
                    THEN [content EXCEPT !.queries = c.got.stats] ELSE content
      /\ UNCHANGED <<page, filter, live, qCount, logged, feed, version, clicks,
                     failures, excused>>
  BY DEF Polled
<1>2. c.got.stats \in {Failed} \cup 0..logged
  <2>1. DOMAIN c.got = {"stats"} /\ c.got["stats"] \in {Asked, Failed} \cup 0..logged
    BY <1>0, <1>1, PartsOf DEF CallOK
  <2> QED BY <1>1, <2>1 DEF Answered
<1> HIDE DEF c
<1>3. /\ content' \in Content /\ content'.page = content.page /\ content'.rows = content.rows
      /\ content'.button = content.button /\ content'.log = content.log
  <2>1. content \in Content
    BY DEF Inv, Typed
  <2> QED BY <1>1, <1>2, <2>1 DEF Content
<1>4. Typed' /\ CallsOK(calls, logged, excused)' /\ Counted'
  <2>1. excused \in SUBSET (Tables \cup {"querylog"})
    BY DEF Inv, Typed
  <2> QED BY <1>1, <1>3, <2>1, GoneTyped
<1>5. TablesDue'
  <2> SUFFICES ASSUME NEW t \in Tables, content.page = t, t \notin excused
               PROVE  TableDue(RemoveAt(calls, i), content.rows, version[t], t)
    BY <1>1, <1>3 DEF TablesDue
  <2>1. ~IsChange(calls[i], t) /\ ~IsLoad(calls[i], t)
    BY <1>1 DEF IsChange, IsLoad, Changes, c
  <2> QED BY <2>1, GoneDue DEF Inv, TablesDue
<1>6. LogDue'
  <2>1. ASSUME content.page = "querylog", "querylog" \notin excused
        PROVE  FilterDue(RemoveAt(calls, i), content.rows, content.button, filter)
    <3>1. ~IsLog(calls[i])
      BY <1>1 DEF IsLog, c
    <3> QED BY <1>0, <2>1, <3>1, FilterRemoved DEF Inv, LogDue
  <2> QED BY <1>1, <1>3, <2>1 DEF LogDue
<1>7. LiveDue'
  <2>1. calls[i].kind # "render"
    BY <1>1 DEF c
  <2> QED BY <1>1, <1>3, <2>1, GoneLive DEF LiveDue
<1> QED BY <1>4, <1>5, <1>6, <1>7 DEF Inv

\* Unless the page is excused, no earlier call of its kind is left.
LEMMA OldestOfKind ==
  ASSUME Inv, NEW i \in DOMAIN calls, NEW p, content.page = p,
         p \notin Overtakes(i, p)
  PROVE  \A j \in DOMAIN calls : j < i =>
           ~ /\ calls[j].kind = calls[i].kind
             /\ calls[i].kind = "load" => calls[j].of = p
<1>1. DOMAIN calls = 1..Len(calls) /\ Len(calls) \in Nat
  BY DEF Inv, CallsOK
<1>2. \A j \in 1..(i - 1) : ~ /\ calls[j].kind = calls[i].kind
                              /\ calls[i].kind = "load" => calls[j].of = p
  <2>1. ~ \E j \in 1..(i - 1) : /\ calls[j].kind = calls[i].kind
                                /\ calls[i].kind = "load" => calls[j].of = p
    BY DEF Overtakes
  <2> QED BY <2>1, Zenon
<1>3. \A j \in DOMAIN calls : j < i => j \in 1..(i - 1)
  BY <1>1
<1> QED BY <1>2, <1>3

LEMMA LogLoadedKeeps ==
  ASSUME Inv, NEW i \in DOMAIN calls, LogLoaded(i)
  PROVE  Inv'
<1> DEFINE c == calls[i]
<1>0. logged \in Nat /\ c \in CallSet /\ CallOK(c, logged, excused)
  BY ElementOfSeq DEF Inv, CallsOK, Typed
<1>1. /\ c.kind = "log" /\ Answered(i) /\ calls' = RemoveAt(calls, i)
      /\ content' = IF content.page = "querylog" /\ c.got.rows # Failed
                    THEN [content EXCEPT !.rows = c.got.rows, !.button = filter]
                    ELSE content
      /\ excused' = excused \cup Overtakes(i, "querylog")
      /\ UNCHANGED <<page, filter, live, qCount, logged, feed, version, clicks, failures>>
  BY DEF LogLoaded
<1>2. /\ c.of \in Filters /\ c.got.rows \in {Failed, c.of}
      /\ c.got.rows = Failed => "querylog" \in excused
  <2>1. DOMAIN c.got = {"rows"} /\ c.got["rows"] \in {Asked, Failed, c.of}
    BY <1>0, <1>1, PartsOf DEF CallOK
  <2> QED BY <1>0, <1>1, <2>1 DEF Answered, CallOK
<1> HIDE DEF c
<1>3. /\ content' \in Content /\ content'.page = content.page /\ content'.log = content.log
      /\ content.page # "querylog" => content' = content
      /\ content.page = "querylog" /\ c.got.rows # Failed =>
           content'.rows = c.got.rows /\ content'.button = filter
  <2>1. content \in Content /\ filter \in Filters
    BY DEF Inv, Typed
  <2> QED BY <1>1, <1>2, <2>1 DEF Content
<1>4. excused \subseteq excused' /\ excused' \in SUBSET (Tables \cup {"querylog"})
  BY <1>1 DEF Overtakes, Inv, Typed
<1>5. Typed' /\ CallsOK(calls, logged, excused)' /\ Counted'
  BY <1>1, <1>3, <1>4, GoneTyped
<1>6. TablesDue'
  <2> SUFFICES ASSUME NEW t \in Tables, content.page = t, t \notin excused
               PROVE  TableDue(RemoveAt(calls, i), content.rows, version[t], t)
    BY <1>1, <1>3, <1>4, PagesApart DEF TablesDue
  <2>1. ~IsChange(calls[i], t) /\ ~IsLoad(calls[i], t)
    BY <1>1 DEF IsChange, IsLoad, Changes, c
  <2> QED BY <2>1, GoneDue DEF Inv, TablesDue
<1>7. LogDue'
  <2> SUFFICES ASSUME content.page = "querylog", "querylog" \notin excused'
               PROVE  FilterDue(RemoveAt(calls, i), c.got.rows, filter, filter)
    <3>1. ASSUME content.page = "querylog", "querylog" \notin excused'
          PROVE  content'.rows = c.got.rows /\ content'.button = filter
      BY <1>2, <1>3, <1>4, <3>1
    <3> QED BY <1>1, <1>3, <3>1 DEF LogDue
  <2>1. FilterDue(calls, content.rows, content.button, filter)
    BY <1>4 DEF Inv, LogDue
  <2>2. IsLog(calls[i]) /\ calls[i].got.rows = calls[i].of
    BY <1>1, <1>2, <1>4 DEF IsLog, c
  <2>3. \A j \in DOMAIN calls : j < i => ~IsLog(calls[j])
    BY <1>1, OldestOfKind DEF IsLog, c
  <2>4. FilterDue(RemoveAt(calls, i), calls[i].got.rows, filter, filter)
    BY <1>0, <2>1, <2>2, <2>3, FilterLoaded DEF Inv
  <2> QED BY <2>4 DEF c
<1>8. LiveDue'
  <2>1. calls[i].kind # "render"
    BY <1>1 DEF c
  <2> QED BY <1>1, <1>3, <2>1, GoneLive DEF LiveDue
<1> QED BY <1>5, <1>6, <1>7, <1>8 DEF Inv

LEMMA LoadedKeeps ==
  ASSUME Inv, NEW i \in DOMAIN calls, Loaded(i)
  PROVE  Inv'
<1> DEFINE c == calls[i]
<1>0. logged \in Nat /\ c \in CallSet /\ CallOK(c, logged, excused)
  BY ElementOfSeq DEF Inv, CallsOK, Typed
<1>1. /\ c.kind = "load" /\ Answered(i) /\ calls' = RemoveAt(calls, i)
      /\ content' = IF content.page = c.of /\ c.got.rows # Failed
                    THEN [content EXCEPT !.rows = c.got.rows] ELSE content
      /\ excused' = excused \cup Overtakes(i, c.of)
      /\ UNCHANGED <<page, filter, live, qCount, logged, feed, version, clicks, failures>>
  BY DEF Loaded
<1>2. /\ c.of \in Tables /\ c.got.rows \in {Failed} \cup Nat
      /\ c.got.rows = Failed => c.of \in excused
  <2>1. DOMAIN c.got = {"rows"} /\ c.got["rows"] \in {Asked, Failed} \cup Nat
    BY <1>0, <1>1, PartsOf DEF CallOK
  <2> QED BY <1>0, <1>1, <2>1 DEF Answered, CallOK
<1> HIDE DEF c
<1>3. /\ content' \in Content /\ content'.page = content.page /\ content'.log = content.log
      /\ content'.button = content.button
      /\ content.page # c.of => content'.rows = content.rows
      /\ content.page = c.of /\ c.got.rows # Failed => content'.rows = c.got.rows
  <2>1. content \in Content
    BY DEF Inv, Typed
  <2> QED BY <1>1, <1>2, <2>1 DEF Content
<1>4. excused \subseteq excused' /\ excused' \in SUBSET (Tables \cup {"querylog"})
  BY <1>1, <1>2 DEF Overtakes, Inv, Typed
<1>5. Typed' /\ CallsOK(calls, logged, excused)' /\ Counted'
  BY <1>1, <1>3, <1>4, GoneTyped
<1>6. TablesDue'
  <2> SUFFICES ASSUME NEW t \in Tables, content.page = t, t \notin excused'
               PROVE  TableDue(RemoveAt(calls, i), content'.rows, version[t], t)
    BY <1>1, <1>3 DEF TablesDue
  <2>1. TableDue(calls, content.rows, version[t], t)
    BY <1>4 DEF Inv, TablesDue
  <2>2. CASE t = c.of
    <3>1. content'.rows = calls[i].got.rows
      BY <1>2, <1>3, <1>4, <2>2 DEF c
    <3>2. IsLoad(calls[i], t) /\ calls[i].got.rows # Asked
      BY <1>1, <1>2, <2>2, AnswersAssumption DEF IsLoad, c
    <3>3. \A j \in DOMAIN calls : j < i => ~IsLoad(calls[j], t)
      BY <1>1, <2>2, OldestOfKind DEF IsLoad, c
    <3>4. TableDue(RemoveAt(calls, i), calls[i].got.rows, version[t], t)
      BY <1>0, <2>1, <3>2, <3>3, DueLoaded DEF Inv
    <3> QED BY <3>1, <3>4
  <2>3. CASE t # c.of
    <3>1. ~IsChange(calls[i], t) /\ ~IsLoad(calls[i], t)
      BY <1>1, <2>3 DEF IsChange, IsLoad, Changes, c
    <3> QED BY <1>3, <2>1, <2>3, <3>1, GoneDue
  <2> QED BY <2>2, <2>3
<1>7. LogDue'
  <2>1. ASSUME content.page = "querylog", "querylog" \notin excused
        PROVE  FilterDue(RemoveAt(calls, i), content.rows, content.button, filter)
    <3>1. ~IsLog(calls[i])
      BY <1>1 DEF IsLog, c
    <3> QED BY <1>0, <2>1, <3>1, FilterRemoved DEF Inv, LogDue
  <2>2. content.page = "querylog" => content'.rows = content.rows
    BY <1>2, <1>3, PagesApart
  <2> QED BY <1>1, <1>3, <1>4, <2>1, <2>2 DEF LogDue
<1>8. LiveDue'
  <2>1. calls[i].kind # "render"
    BY <1>1 DEF c
  <2> QED BY <1>1, <1>3, <2>1, GoneLive DEF LiveDue
<1> QED BY <1>5, <1>6, <1>7, <1>8 DEF Inv

\* A change is over and its table is not loaded: it failed, or its page was left.
LEMMA NotReloaded ==
  ASSUME Inv, NEW i \in DOMAIN calls, NEW t0 \in Tables,
         calls[i].kind \in Changes, calls[i].of = t0,
         t0 \in excused \/ content.page # t0,
         calls' = RemoveAt(calls, i),
         UNCHANGED <<page, filter, content, live, qCount, logged, feed, version, clicks,
                     failures, excused>>
  PROVE  Inv'
<1>1. logged \in Nat /\ content \in Content /\ excused \in SUBSET (Tables \cup {"querylog"})
  BY DEF Inv, Typed
<1>2. Typed' /\ CallsOK(calls, logged, excused)' /\ Counted'
  BY <1>1, GoneTyped
<1>3. TablesDue'
  <2> SUFFICES ASSUME NEW t \in Tables, content.page = t, t \notin excused
               PROVE  TableDue(RemoveAt(calls, i), content.rows, version[t], t)
    BY DEF TablesDue
  <2>1. ~IsChange(calls[i], t) /\ ~IsLoad(calls[i], t)
    BY DEF IsChange, IsLoad, Changes
  <2> QED BY <2>1, GoneDue DEF Inv, TablesDue
<1>4. LogDue'
  <2>1. ASSUME content.page = "querylog", "querylog" \notin excused
        PROVE  FilterDue(RemoveAt(calls, i), content.rows, content.button, filter)
    <3>1. ~IsLog(calls[i])
      BY DEF IsLog, Changes
    <3> QED BY <1>1, <2>1, <3>1, FilterRemoved DEF Inv, LogDue
  <2> QED BY <2>1 DEF LogDue
<1>5. LiveDue'
  <2>1. calls[i].kind # "render"
    BY DEF Changes
  <2> QED BY <2>1, GoneLive DEF LiveDue
<1> QED BY <1>2, <1>3, <1>4, <1>5 DEF Inv

\* A change is over and its table is loaded again.
LEMMA Reloaded ==
  ASSUME Inv, NEW i \in DOMAIN calls, NEW t0 \in Tables,
         calls[i].kind \in Changes, calls[i].of = t0,
         calls' = Append(RemoveAt(calls, i), Call("load", t0)),
         content' = IF t0 = "devices" THEN Blank(t0) ELSE content,
         UNCHANGED <<page, filter, live, qCount, logged, feed, version, clicks,
                     failures, excused>>
  PROVE  Inv'
<1> DEFINE cs == RemoveAt(calls, i)
           c == Call("load", t0)
           ds == Append(cs, c)
<1>1. /\ logged \in Nat /\ content \in Content /\ Len(content.log) <= LogRows
      /\ CallsOK(calls, logged, excused)
  BY DEF Inv, Typed
<1>2. CallsOK(cs, logged, excused) /\ Len(cs) = Len(calls) - 1 /\ Len(calls) \in Nat
  BY <1>1, RemovedOK
<1>3. /\ c \in CallSet /\ CallOK(c, logged, excused)
      /\ c.kind = "load" /\ c.of = t0 /\ c.got.rows = Asked
  <2>1. "load" \in Kinds /\ t0 \in Pages \cup Filters /\ "load" \notin {"render", "poll", "log"}
    BY PagesApart DEF Kinds
  <2> QED BY <1>1, <2>1, CallMade
<1> HIDE DEF cs, c
<1>4. /\ CallsOK(ds, logged, excused) /\ Len(ds) = Len(calls)
      /\ DOMAIN cs = 1..Len(cs) /\ DOMAIN ds = 1..(Len(cs) + 1)
      /\ \A j \in 1..Len(cs) : ds[j] = cs[j]
  <2>1. /\ CallsOK(ds, logged, excused) /\ Len(ds) = Len(cs) + 1
        /\ DOMAIN cs = 1..Len(cs) /\ DOMAIN ds = 1..(Len(cs) + 1)
        /\ \A j \in 1..Len(cs) : ds[j] = cs[j]
    BY <1>1, <1>2, <1>3, AppendedOK
  <2> QED BY <1>2, <2>1
<1>5. calls' = ds
  BY DEF cs, c
<1>6. /\ content' \in Content /\ Len(content'.log) <= LogRows
      /\ t0 # "devices" => content' = content
      /\ t0 = "devices" => content'.page = t0
  BY <1>1, BlankTyped, PagesApart, LogRowsAssumption
<1>7. Typed' /\ CallsOK(calls, logged, excused)'
  BY <1>4, <1>5, <1>6 DEF Inv, Typed
<1>8. Counted'
  <2> SUFFICES ASSUME NEW t \in Tables
               PROVE  version[t] + Cardinality(Unserved(ds, t)) <= clicks
    BY <1>5 DEF Counted
  <2> DEFINE u == Cardinality(Unserved(calls, t))
             w == Cardinality(Unserved(cs, t))
             x == Cardinality(Unserved(ds, t))
  <2>1. w <= u
    BY <1>1, UnservedRemoved DEF cs
  <2>2. x = w
    BY <1>1, <1>2, <1>3, UnservedAppended DEF Changes
  <2>3. u \in Nat /\ w \in Nat
    <3>1. u \in Nat
      BY <1>1, UnservedFinite
    <3>2. w \in Nat
      BY <1>1, <1>2, UnservedFinite
    <3> QED BY <3>1, <3>2
  <2>4. version[t] + u <= clicks /\ version[t] \in Nat /\ clicks \in Nat
    BY DEF Inv, Counted, Typed
  <2> HIDE DEF u, w, x
  <2>5. version[t] + x <= clicks
    BY <2>1, <2>2, <2>3, <2>4
  <2> QED BY <2>5 DEF x
<1> HIDE DEF ds
<1>9. TablesDue'
  <2> SUFFICES ASSUME NEW t \in Tables, content'.page = t, t \notin excused
               PROVE  TableDue(ds, content'.rows, version[t], t)
    BY <1>5 DEF TablesDue
  <2>1. CASE t = t0
    <3>1. IsLoad(c, t)
      BY <1>3, <2>1 DEF IsLoad
    <3> QED BY <1>1, <1>2, <1>3, <3>1, DueAppended DEF ds
  <2>2. CASE t # t0
    <3>1. content' = content /\ ~IsLoad(c, t)
      BY <1>3, <1>6, <2>2 DEF IsLoad
    <3>2. ~IsChange(calls[i], t) /\ ~IsLoad(calls[i], t)
      BY <2>2 DEF IsChange, IsLoad, Changes
    <3>3. TableDue(cs, content.rows, version[t], t)
      BY <3>1, <3>2, GoneDue DEF Inv, TablesDue, cs
    <3> QED BY <1>1, <1>2, <1>3, <3>1, <3>3, DueAppended DEF ds
  <2> QED BY <2>1, <2>2
<1>10. LogDue'
  <2>1. ASSUME content'.page = "querylog", "querylog" \notin excused
        PROVE  FilterDue(ds, content'.rows, content'.button, filter)
    <3>1. content' = content
      BY <1>6, <2>1
    <3>2. ~IsLog(calls[i]) /\ ~IsLog(c)
      BY <1>3 DEF IsLog, Changes
    <3>3. FilterDue(cs, content.rows, content.button, filter)
      BY <1>1, <2>1, <3>1, <3>2, FilterRemoved DEF Inv, LogDue, cs
    <3> QED BY <1>1, <1>2, <1>3, <3>1, <3>2, <3>3, FilterAppended DEF ds
  <2> QED BY <1>5, <2>1 DEF LogDue
<1>11. LiveDue'
  <2> SUFFICES ASSUME content'.page = "dashboard"
               PROVE  \/ \E j \in DOMAIN ds : ds[j].kind = "render"
                      \/ IsPrefix(live, content'.log)
    BY <1>5 DEF LiveDue
  <2>1. content' = content
    BY <1>6
  <2>2. calls[i].kind # "render"
    BY DEF Changes
  <2>3. \/ \E j \in DOMAIN cs : cs[j].kind = "render"
        \/ IsPrefix(live, content.log)
    BY <2>1, <2>2, GoneLive DEF cs
  <2>4. \A j \in DOMAIN cs : j \in DOMAIN ds /\ ds[j] = cs[j]
    BY <1>2, <1>4
  <2> QED BY <2>1, <2>3, <2>4
<1> QED BY <1>7, <1>8, <1>9, <1>10, <1>11 DEF Inv

LEMMA ChangedKeeps ==
  ASSUME Inv, NEW i \in DOMAIN calls, Changed(i)
  PROVE  Inv'
<1> DEFINE c == calls[i]
           t == c.of
           reloads == /\ c.got.rows # Failed
                      /\ c.kind = "form" => content.page = t
           cs == RemoveAt(calls, i)
<1>0. logged \in Nat /\ c \in CallSet /\ CallOK(c, logged, excused)
  BY ElementOfSeq DEF Inv, CallsOK, Typed
<1>1. /\ c.kind \in Changes
      /\ calls' = cs \o (IF reloads THEN <<Call("load", t)>> ELSE <<>>)
      /\ content' = IF reloads /\ t = "devices" THEN Blank(t) ELSE content
      /\ UNCHANGED <<page, filter, live, qCount, logged, feed, version, clicks,
                     failures, excused>>
  BY DEF Changed, Changes
<1>2. t \in Tables /\ (c.got.rows = Failed => t \in excused)
  BY <1>0, <1>1 DEF CallOK
<1>3. cs \in Seq(CallSet)
  BY <1>0, RemovedOK DEF Inv, CallsOK
<1>4. Call("load", t) \in CallSet
  BY <1>0, <1>2, CallMade, PagesApart DEF Kinds, Changes
<1> HIDE DEF c, t, cs
<1>5. CASE reloads
  <2>1. calls' = Append(cs, Call("load", t))
    BY <1>1, <1>3, <1>4, <1>5, AppendIsConcat
  <2>2. content' = IF t = "devices" THEN Blank(t) ELSE content
    BY <1>1, <1>5
  <2> QED BY <1>1, <1>2, <2>1, <2>2, Reloaded DEF c, t, cs
<1>6. CASE ~reloads
  <2>1. calls' = cs /\ content' = content
    BY <1>1, <1>3, <1>6, ConcatEmptySeq
  <2>2. t \in excused \/ content.page # t
    BY <1>2, <1>6
  <2> QED BY <1>1, <1>2, <2>1, <2>2, NotReloaded DEF c, t, cs
<1> QED BY <1>5, <1>6

(***************************************************************************)
(* The theorems                                                            *)
(***************************************************************************)

LEMMA InvKept ==
  ASSUME Inv, [Next]_vars
  PROVE  Inv'
<1>1. CASE \E p \in Pages : GoPage(p)
  BY <1>1, GoPageKeeps
<1>2. CASE \E f \in Filters : QlFilter(f)
  BY <1>2, QlFilterKeeps
<1>3. CASE \E t \in Tables, kind \in {"form", "row"} : Change(kind, t)
  BY <1>3, ChangeKeeps
<1>4. CASE Poll
  BY <1>4, PollKeeps
<1>5. CASE Log
  BY <1>5, LogKeeps
<1>6. CASE Receive
  BY <1>6, ReceiveKeeps
<1>7. CASE \E i \in DOMAIN calls, part \in {"stats", "log", "rows"} :
             Serve(i, part) \/ Fail(i, part)
  BY <1>7, ServeKeeps, FailKeeps
<1>8. CASE \E i \in DOMAIN calls :
             Rendered(i) \/ Polled(i) \/ LogLoaded(i) \/ Loaded(i) \/ Changed(i)
  BY <1>8, RenderedKeeps, PolledKeeps, LogLoadedKeeps, LoadedKeeps, ChangedKeeps
<1>9. CASE UNCHANGED vars
  BY <1>9 DEF vars, Inv, Typed, CallsOK, Counted, TablesDue, LogDue, LiveDue
<1> QED BY <1>1, <1>2, <1>3, <1>4, <1>5, <1>6, <1>7, <1>8, <1>9 DEF Next

LEMMA InvInductive == Spec => []Inv
BY Initially, InvKept, PTL DEF Spec

LEMMA InvTyped == Inv => TypeOK
<1> SUFFICES ASSUME Inv PROVE TypeOK
  OBVIOUS
<1>1. logged \in Nat /\ CallsOK(calls, logged, excused) /\ Typed
  BY DEF Inv, Typed
<1>2. ASSUME NEW i \in DOMAIN calls
      PROVE  /\ calls[i].kind \in Kinds
             /\ calls[i].of \in Pages \cup Filters
             /\ calls[i].got \in [Parts(calls[i].kind) -> Answers]
  <2>1. calls[i] \in CallSet
    BY <1>1, ElementOfSeq DEF CallsOK
  <2>2. CallOK(calls[i], logged, excused)
    BY <1>1 DEF CallsOK
  <2> QED BY <2>1, <2>2, CallFields DEF CallOK
<1>3. ASSUME NEW t \in Tables PROVE version[t] \in 0..MaxClicks
  <2>1. Cardinality(Unserved(calls, t)) \in Nat
    BY <1>1, UnservedFinite
  <2>2. /\ version[t] + Cardinality(Unserved(calls, t)) <= clicks
        /\ version[t] \in Nat /\ clicks \in 0..MaxClicks
    BY <1>1 DEF Inv, Counted, Typed
  <2> QED BY <2>1, <2>2, BoundsAssumption
<1>4. version \in [Tables -> 0..MaxClicks]
  BY <1>1, <1>3 DEF Typed
<1> QED BY <1>1, <1>2, <1>4 DEF TypeOK, Typed, Content, Kinds

\* The state of the dashboard stays well formed; in particular the live log
\* and the one on the page keep at most LogRows rows, and no table counts more
\* changes than the user made.
THEOREM TypeCorrect == Spec => []TypeOK
BY InvInductive, InvTyped, PTL

\* Once the calls of a table are answered, the page that is open shows the
\* table as it is, whatever pages were visited meanwhile; unless a call of it
\* failed, or an answer came after that of a later call.
THEOREM ListsShowTables == Spec => []ListIsTable
<1>1. Inv => ListIsTable
  <2> SUFFICES ASSUME Inv, NEW t \in Tables, content.page = t,
                      ~ Waits({"load", "form", "row"}, {t}), t \notin excused
               PROVE  content.rows = version[t]
    BY DEF ListIsTable
  <2>1. TableDue(calls, content.rows, version[t], t)
    BY DEF Inv, TablesDue
  <2>2. \A i \in DOMAIN calls : ~IsChange(calls[i], t) /\ ~IsLoad(calls[i], t)
    BY DEF Waits, IsChange, IsLoad, Changes
  <2> QED BY <2>1, <2>2 DEF TableDue
<1> QED BY <1>1, InvInductive, PTL

\* Once the log has been loaded for every filter that was chosen, the query log
\* shows the rows of the last one and highlights its button, on the same terms.
THEOREM LogShowsFilter == Spec => []FilterIsShown
<1>1. Inv => FilterIsShown
  <2> SUFFICES ASSUME Inv, content.page = "querylog", ~ Waits({"log"}, Filters),
                      "querylog" \notin excused
               PROVE  content.rows = filter /\ content.button = filter
    BY DEF FilterIsShown
  <2>1. FilterDue(calls, content.rows, content.button, filter)
    BY DEF Inv, LogDue
  <2>2. filter \in Filters
    BY DEF Inv, Typed
  <2>3. \A i \in DOMAIN calls : ~(IsLog(calls[i]) /\ calls[i].of = filter)
    BY <2>2 DEF Waits, IsLog
  <2> QED BY <2>1, <2>3 DEF FilterDue
<1> QED BY <1>1, InvInductive, PTL

\* What the stream brought is at the top of the dashboard's log, in order, when
\* no rendering is under way, although its answers are older than what came
\* meanwhile.
THEOREM LiveLogStays == Spec => []LiveLogIsShown
<1>1. Inv => LiveLogIsShown
  <2> SUFFICES ASSUME Inv, content.page = "dashboard", ~ Waits({"render"}, Pages)
               PROVE  IsPrefix(live, content.log)
    BY DEF LiveLogIsShown
  <2>1. ASSUME NEW i \in DOMAIN calls PROVE calls[i].kind # "render"
    <3>1. CallOK(calls[i], logged, excused)
      BY DEF Inv, CallsOK
    <3> QED BY <3>1, PagesApart DEF CallOK, Waits
  <2> QED BY <2>1 DEF Inv, LiveDue
<1> QED BY <1>1, InvInductive, PTL

(***************************************************************************)
(* The language: a choice stays chosen, for any tabs, browsers and         *)
(* languages                                                               *)
(***************************************************************************)

\* What is known of a choice that was made in calm: every request under way
\* carries it, no setting is read before the server has it, and what is read
\* then is the choice.
OnlyChoice ==
  /\ \A c \in Supported : patches[c] > 0 => c = choice
  /\ \A t \in Tabs : request[t] \in Settings => stored /\ request[t] = choice
  /\ stored => language = choice
  /\ \A t \in told : saved[Browser[t]] = choice /\ (t \in open => locale[t] = choice)

ChoiceIsAlone == calm /\ choice # NoLanguage => OnlyChoice

LocaleInv == LocaleTypeOK /\ ChoiceIsAlone

-------------------------------------------------------------------------------
\* The language a page starts with is supported, and it is the saved one if
\* there is one.
LEMMA DetectedIsSupported ==
  ASSUME NEW b \in Browsers, saved \in [Browsers -> Supported \cup {NoLanguage}]
  PROVE  /\ DetectLocale(b) \in Supported
         /\ saved[b] \in Supported => DetectLocale(b) = saved[b]
<1>1. CASE saved[b] \in Supported
  BY <1>1 DEF DetectLocale
<1>2. CASE saved[b] \notin Supported
  <2> DEFINE langs == Languages[b]
             Wanted(i) == /\ langs[i] \in Supported
                          /\ \A j \in 1..(i - 1) : langs[j] \notin Supported
  <2>1. CASE \E i \in DOMAIN langs : Wanted(i)
    <3>1. Wanted(CHOOSE i \in DOMAIN langs : Wanted(i))
      BY <2>1
    <3> QED BY <1>2, <2>1, <3>1 DEF DetectLocale
  <2>2. CASE ~\E i \in DOMAIN langs : Wanted(i)
    BY <1>2, <2>2, SupportedAssumption DEF DetectLocale
  <2> QED BY <2>1, <2>2
<1> QED BY <1>1, <1>2

LEMMA LocaleInitially == LocaleInit => LocaleInv
<1> SUFFICES ASSUME LocaleInit PROVE LocaleInv
  OBVIOUS
<1>1. LocaleTypeOK
  BY SupportedAssumption, LocaleBoundsAssumption DEF LocaleInit, LocaleTypeOK
<1>2. ChoiceIsAlone
  BY DEF LocaleInit, ChoiceIsAlone, OnlyChoice
<1> QED BY <1>1, <1>2 DEF LocaleInv

\* A page that loads.
LEMMA OpenKeeps ==
  ASSUME LocaleInv, NEW t \in Tabs, Open(t)
  PROVE  LocaleInv'
<1> USE BrowserAssumption, SupportedAssumption, LocaleBoundsAssumption DEF LocaleInv, LocaleTypeOK, Settings
<1>0. /\ DetectLocale(Browser[t]) \in Supported
      /\ saved[Browser[t]] \in Supported => DetectLocale(Browser[t]) = saved[Browser[t]]
  BY DetectedIsSupported
<1>1. LocaleTypeOK'
  BY <1>0 DEF Open, server
<1>2. ChoiceIsAlone'
  <2> SUFFICES ASSUME calm, choice # NoLanguage
               PROVE  OnlyChoice'
    BY DEF ChoiceIsAlone, Open
  <2>1. choice \in Supported
    OBVIOUS
  <2>2. \A u \in told' : saved'[Browser[u]] = choice' /\ (u \in open' => locale'[u] = choice')
    BY <1>0, <2>1 DEF ChoiceIsAlone, OnlyChoice, Open
  <2>3. \A u \in Tabs : request'[u] \in Settings => stored' /\ request'[u] = choice'
    BY RequestAssumption DEF ChoiceIsAlone, OnlyChoice, Open
  <2> QED BY <2>2, <2>3 DEF ChoiceIsAlone, OnlyChoice, Open, server
<1> QED BY <1>1, <1>2

\* A language is chosen.
LEMMA PickKeeps ==
  ASSUME LocaleInv, NEW t \in Tabs, NEW code \in Supported, Pick(t, code)
  PROVE  LocaleInv'
<1> USE BrowserAssumption, SupportedAssumption, LocaleBoundsAssumption DEF LocaleInv, LocaleTypeOK, Settings
<1>1. calm' \in BOOLEAN
  BY DEF Pick
<1>2. /\ locale' = [locale EXCEPT ![t] = code]
      /\ saved' = [saved EXCEPT ![Browser[t]] = code]
      /\ patches' = [patches EXCEPT ![code] = @ + 1]
      /\ choice' = code /\ told' = {t} /\ stored' = FALSE
      /\ UNCHANGED <<language, request>>
  BY DEF Pick, SetLocale
<1>3. LocaleTypeOK'
  <2>1. open' = open /\ opens' = opens /\ picks' \in 0..MaxPicks
        /\ picker' = [picker EXCEPT ![t] = code]
    BY DEF Pick
  <2>2. /\ language' \in Settings /\ open' \in SUBSET Tabs
        /\ saved' \in [Browsers -> Supported \cup {NoLanguage}]
        /\ locale' \in [Tabs -> Supported] /\ picker' \in [Tabs -> Supported]
        /\ request' \in [Tabs -> Settings \cup {Idle, Sent}]
        /\ choice' \in Supported \cup {NoLanguage} /\ told' \in SUBSET Tabs
    BY <1>2, <2>1
  <2>3. patches' \in [Supported -> Nat] /\ opens' \in 0..MaxOpens
    BY <1>2, <2>1
  <2>4. stored' \in BOOLEAN
    BY <1>2
  <2> QED BY <1>1, <2>1, <2>2, <2>3, <2>4
<1>4. ChoiceIsAlone'
  <2> SUFFICES ASSUME calm' PROVE OnlyChoice'
    BY DEF ChoiceIsAlone
  <2>0. /\ \A c \in Supported : patches[c] = 0
        /\ \A u \in Tabs : request[u] \in {Idle, Sent}
    BY DEF Pick
  <2>1. \A c \in Supported : patches'[c] > 0 => c = choice'
    BY <1>2, <2>0
  <2>2. \A u \in Tabs : request'[u] \notin Settings
    BY <1>2, <2>0, RequestAssumption
  <2>3. saved'[Browser[t]] = choice' /\ locale'[t] = choice'
    BY <1>2
  <2> QED BY <1>2, <2>1, <2>2, <2>3 DEF OnlyChoice
<1> QED BY <1>3, <1>4

\* The settings arrive.
LEMMA LoadSettingsKeeps ==
  ASSUME LocaleInv, NEW t \in Tabs, LoadSettings(t)
  PROVE  LocaleInv'
<1> USE BrowserAssumption, SupportedAssumption, RequestAssumption DEF LocaleInv, LocaleTypeOK, Settings
<1>1. LocaleTypeOK'
  <2>1. CASE request[t] \in Supported
    BY <2>1 DEF LoadSettings, SetLocale
  <2>2. CASE request[t] \notin Supported
    BY <2>2 DEF LoadSettings
  <2> QED BY <2>1, <2>2
<1>2. ChoiceIsAlone'
  <2> SUFFICES ASSUME calm, choice # NoLanguage PROVE OnlyChoice'
    BY DEF ChoiceIsAlone, LoadSettings
  <2>1. stored /\ request[t] = choice /\ choice \in Supported
    BY DEF ChoiceIsAlone, OnlyChoice, LoadSettings
  <2>2. SetLocale(t, choice) /\ told' = told \cup {t}
    BY <2>1 DEF LoadSettings
  <2>3. \A c \in Supported : patches'[c] > 0 => c = choice'
    BY <2>2 DEF ChoiceIsAlone, OnlyChoice, LoadSettings, SetLocale
  <2>4. \A u \in Tabs : request'[u] \in Settings => stored' /\ request'[u] = choice'
    BY DEF ChoiceIsAlone, OnlyChoice, LoadSettings
  <2>5. \A u \in told' : saved'[Browser[u]] = choice' /\ (u \in open' => locale'[u] = choice')
    BY <2>2 DEF ChoiceIsAlone, OnlyChoice, LoadSettings, SetLocale
  <2> QED BY <2>1, <2>3, <2>4, <2>5 DEF ChoiceIsAlone, OnlyChoice, LoadSettings
<1> QED BY <1>1, <1>2

\* Everything else.
LEMMA OthersKeep ==
  ASSUME LocaleInv,
         \/ \E t \in Tabs : Close(t) \/ GetSettings(t) \/ LoadSettingsFails(t)
         \/ \E code \in Supported : UpdateSettings(code) \/ UpdateLost(code)
         \/ UNCHANGED localeVars
  PROVE  LocaleInv'
<1> USE RequestAssumption DEF LocaleInv, LocaleTypeOK, Settings, server, tabs, history
<1>1. ASSUME NEW t \in Tabs, Close(t) PROVE LocaleInv'
  <2>1. LocaleTypeOK' BY <1>1 DEF Close
  <2>2. ChoiceIsAlone' BY <1>1 DEF Close, ChoiceIsAlone, OnlyChoice
  <2> QED BY <2>1, <2>2
<1>2. ASSUME NEW t \in Tabs, GetSettings(t) PROVE LocaleInv'
  <2>1. LocaleTypeOK' BY <1>2 DEF GetSettings
  <2>2. ChoiceIsAlone' BY <1>2 DEF GetSettings, ChoiceIsAlone, OnlyChoice
  <2> QED BY <2>1, <2>2
<1>3. ASSUME NEW t \in Tabs, LoadSettingsFails(t) PROVE LocaleInv'
  <2>1. LocaleTypeOK' BY <1>3 DEF LoadSettingsFails
  <2>2. ChoiceIsAlone' BY <1>3 DEF LoadSettingsFails, ChoiceIsAlone, OnlyChoice
  <2> QED BY <2>1, <2>2
<1>4. ASSUME NEW code \in Supported, UpdateSettings(code) PROVE LocaleInv'
  <2>1. LocaleTypeOK' BY <1>4 DEF UpdateSettings
  <2>2. ChoiceIsAlone' BY <1>4 DEF UpdateSettings, ChoiceIsAlone, OnlyChoice
  <2> QED BY <2>1, <2>2
<1>5. ASSUME NEW code \in Supported, UpdateLost(code) PROVE LocaleInv'
  <2>1. LocaleTypeOK' BY <1>5 DEF UpdateLost
  <2>2. ChoiceIsAlone' BY <1>5 DEF UpdateLost, ChoiceIsAlone, OnlyChoice
  <2> QED BY <2>1, <2>2
<1>6. CASE UNCHANGED localeVars
  BY <1>6 DEF localeVars, ChoiceIsAlone, OnlyChoice
<1> QED BY <1>1, <1>2, <1>3, <1>4, <1>5, <1>6

LEMMA LocaleInductive == LocaleSpec => []LocaleInv
<1>1. LocaleInit => LocaleInv
  BY LocaleInitially
<1>2. LocaleInv /\ [LocaleNext]_localeVars => LocaleInv'
  BY OpenKeeps, PickKeeps, LoadSettingsKeeps, OthersKeep DEF LocaleNext
<1> QED BY <1>1, <1>2, PTL DEF LocaleSpec

-------------------------------------------------------------------------------
\* Tabs show supported languages, browsers save them and the server is sent
\* them, whatever the server answers (setLocale, detectLocale).
THEOREM LanguagesTypeCorrect == LocaleSpec => []LocaleTypeOK
<1>1. LocaleInv => LocaleTypeOK
  BY DEF LocaleInv
<1> QED BY <1>1, LocaleInductive, PTL

\* A choice made while nothing else is under way is kept, and shown by every
\* tab that knows of it, although the tabs send back what they are answered.
THEOREM ChoicesAreKept == LocaleSpec => []ChoiceIsKept
<1>1. LocaleInv => ChoiceIsKept
  BY DEF LocaleInv, ChoiceIsAlone, OnlyChoice, ChoiceIsKept
<1> QED BY <1>1, LocaleInductive, PTL
===============================================================================
