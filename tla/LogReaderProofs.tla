----------------------------- MODULE LogReaderProofs ----------------------------
(***************************************************************************)
(* For any domains, clients and queries, and any limit of the dict: what   *)
(* the log reader publishes names the query that was answered, once, and   *)
(* no query is missed while the log is not rotated.                        *)
(*                                                                         *)
(* The proofs rest on the order of the lines.  The answer follows its      *)
(* query, so the dict holds a client's query when its first answer is      *)
(* read, and no longer when a second one is.                               *)
(*                                                                         *)
(* And for any streams, any size of their queues and any number of events: *)
(* the event bus gives an open stream every event published since it       *)
(* subscribed, in order and once, but for those its full queue refused.    *)
(***************************************************************************)
EXTENDS LogReader, EventBus, SequenceTheorems, TLAPS

(***************************************************************************)
(* The invariant                                                           *)
(***************************************************************************)

\* A file from some line on: queries in their order, each with its answers behind
\* it; only an answer "forward" comes twice.
Stream(lines, asked) ==
  /\ \A k \in DOMAIN lines :
       /\ lines[k].ask <= Len(asked)
       /\ lines[k].kind \in {"query", asked[lines[k].ask].answer}
       /\ lines[k].kind = "query" =>
            k + 1 \in DOMAIN lines /\ lines[k + 1].kind # "query"
       /\ lines[k].kind # "query" /\ k > 1 => lines[k - 1].ask = lines[k].ask
  /\ \A j, k \in DOMAIN lines : j < k =>
       /\ lines[j].ask <= lines[k].ask
       /\ lines[k].kind = "query" => lines[j].ask < lines[k].ask
       /\ lines[j].ask = lines[k].ask /\ lines[j].kind # "query" =>
            lines[k].kind = "forward"

AtQuery(lines) == lines # <<>> => lines[1].kind = "query"

\* The other file holds later queries, all of them whole.
Files ==
  /\ Stream(unread, asks) /\ Stream(next, asks)
  /\ AtQuery(next) /\ (reader = "end" => AtQuery(unread))
  /\ next # <<>> => writes = "next"
  /\ \A j \in DOMAIN unread, k \in DOMAIN next : unread[j].ask < next[k].ask

Holds(ask) == \E m \in DOMAIN pending : pending[m] = ask

\* The dict holds queries of clients, one of a domain.
Dict(p) ==
  /\ p \in Seq(1..MaxAsks)
  /\ \A m \in DOMAIN p : p[m] <= Len(asks) /\ FromClient(p[m])
  /\ \A m, n \in DOMAIN p : DomainOf(p[m]) = DomainOf(p[n]) => m = n

\* A row was made of an answer to the query.
In(seq, ask) == \E k \in DOMAIN seq : seq[k].at = ask
Taken(ask) == In(inserting, ask) \/ In(events, ask)

\* The rows on their way: of different queries, and of the right ones.
Right(seq) ==
  /\ \A k \in DOMAIN seq :
       /\ seq[k].at <= Len(asks)
       /\ FromClient(seq[k].at) => seq[k].from = seq[k].at
  /\ \A j, k \in DOMAIN seq : seq[j].at = seq[k].at => j = k

RowsRight ==
  /\ Right(inserting) /\ Right(events)
  /\ \A j \in DOMAIN inserting, k \in DOMAIN events : inserting[j].at # events[k].at

\* What is still to be read of a query that was taken: a second answer, at once,
\* while the dict holds nothing for the domain.
TakenBefore ==
  /\ \A k \in DOMAIN unread : Taken(unread[k].ask) =>
       /\ unread[k].kind = "forward"
       /\ unread[1].kind # "query" /\ unread[1].ask = unread[k].ask
       /\ ~Waiting(DomainOf(unread[k].ask))
  /\ \A k \in DOMAIN next : ~Taken(next[k].ask)

\* When an answer is read, the dict holds the query, whatever was evicted.
HeldAtAnswer ==
  unread # <<>> /\ unread[1].kind # "query" /\ FromClient(unread[1].ask)
    /\ ~Taken(unread[1].ask) => Holds(unread[1].ask)

\* The dict is beyond its limit only from a query to its answer.
Room ==
  Len(pending) > Limit =>
    unread # <<>> /\ unread[1].kind # "query" /\ Holds(unread[1].ask)

\* Before the first rotation nothing is lost.
Unrotated ==
  rotations = 0 =>
    /\ ~rotated /\ writes = "here" /\ next = <<>>
    /\ \A n \in DOMAIN asks : FromClient(n) /\ asks[n].answer # "cached" =>
         \/ Taken(n)
         \/ \E k \in DOMAIN unread : unread[k].ask = n /\ unread[k].kind # "query"

Inv ==
  /\ TypeOK
  /\ Files /\ Dict(pending) /\ RowsRight
  /\ TakenBefore /\ HeldAtAnswer /\ Room /\ Unrotated

(***************************************************************************)
(* Sequences                                                               *)
(***************************************************************************)

LEMMA Removed ==
  ASSUME NEW S, NEW seq \in Seq(S), NEW n \in DOMAIN seq
  PROVE  /\ RemoveAt(seq, n) \in Seq(S)
         /\ Len(RemoveAt(seq, n)) = Len(seq) - 1
         /\ \A k \in DOMAIN RemoveAt(seq, n) :
              \E j \in DOMAIN seq \ {n} :
                /\ RemoveAt(seq, n)[k] = seq[j]
                /\ j = IF k < n THEN k ELSE k + 1
         /\ \A j \in DOMAIN seq \ {n} :
              \E k \in DOMAIN RemoveAt(seq, n) : RemoveAt(seq, n)[k] = seq[j]
<1> DEFINE L == SubSeq(seq, 1, n - 1)
           R == SubSeq(seq, n + 1, Len(seq))
<1>1. /\ Len(seq) \in Nat /\ n \in 1..Len(seq) /\ DOMAIN seq = 1..Len(seq)
      /\ \A k \in 1..Len(seq) : seq[k] \in S
  BY LenProperties, ElementOfSeq
<1>2. /\ L \in Seq(S) /\ Len(L) = n - 1
      /\ \A k \in 1..(n - 1) : L[k] = seq[k]
  <2>1. 1 \in Int /\ n - 1 \in Int /\ \A k \in 1..(n - 1) : seq[k] \in S
    BY <1>1
  <2>2. /\ L \in Seq(S)
        /\ Len(L) = IF 1 <= n - 1 THEN (n - 1) - 1 + 1 ELSE 0
        /\ \A k \in 1..((n - 1) - 1 + 1) : L[k] = seq[1 + k - 1]
    BY <2>1, SubSeqProperties
  <2> HIDE DEF L
  <2> QED BY <1>1, <2>2
<1>3. /\ R \in Seq(S) /\ Len(R) = Len(seq) - n
      /\ \A k \in 1..(Len(seq) - n) : R[k] = seq[n + k]
  <2>1. n + 1 \in Int /\ Len(seq) \in Int /\ \A k \in (n + 1)..Len(seq) : seq[k] \in S
    BY <1>1
  <2>2. /\ R \in Seq(S)
        /\ Len(R) = IF n + 1 <= Len(seq) THEN Len(seq) - (n + 1) + 1 ELSE 0
        /\ \A k \in 1..(Len(seq) - (n + 1) + 1) : R[k] = seq[(n + 1) + k - 1]
    BY <2>1, SubSeqProperties
  <2> HIDE DEF R
  <2>3. Len(R) = Len(seq) - n
    BY <1>1, <2>2
  <2>4. \A k \in 1..(Len(seq) - n) :
          k \in 1..(Len(seq) - (n + 1) + 1) /\ (n + 1) + k - 1 = n + k
    BY <1>1
  <2> QED BY <2>2, <2>3, <2>4
<1>4. RemoveAt(seq, n) = L \o R
  BY DEF RemoveAt
<1> HIDE DEF L, R
<1> DEFINE J == L \o R
<1>5. /\ J \in Seq(S) /\ Len(J) = Len(seq) - 1 /\ DOMAIN J = 1..(Len(seq) - 1)
      /\ \A k \in 1..(Len(seq) - 1) : J[k] = IF k <= n - 1 THEN L[k] ELSE R[k - (n - 1)]
  <2>1. /\ J \in Seq(S) /\ Len(J) = Len(L) + Len(R)
        /\ \A k \in 1..(Len(L) + Len(R)) :
             J[k] = IF k <= Len(L) THEN L[k] ELSE R[k - Len(L)]
    BY <1>2, <1>3, ConcatProperties
  <2> HIDE DEF J
  <2>2. DOMAIN J = 1..Len(J)
    BY <2>1, LenProperties
  <2> QED BY <1>1, <1>2, <1>3, <2>1, <2>2
<1> HIDE DEF J
<1>6. \A k \in DOMAIN J : J[k] = seq[IF k < n THEN k ELSE k + 1]
  <2> TAKE k \in DOMAIN J
  <2>1. CASE k < n
    BY <1>1, <1>2, <1>5, <2>1
  <2>2. CASE ~(k < n)
    <3>1. /\ k - (n - 1) \in 1..(Len(seq) - n) /\ n + (k - (n - 1)) = k + 1
          /\ ~(k <= n - 1) /\ k \in 1..(Len(seq) - 1)
      BY <1>1, <1>5, <2>2
    <3> QED BY <1>3, <1>5, <2>2, <3>1
  <2> QED BY <2>1, <2>2
<1>7. \A k \in DOMAIN J : (IF k < n THEN k ELSE k + 1) \in DOMAIN seq \ {n}
  BY <1>1, <1>5
<1>8. \A j \in DOMAIN seq \ {n} : \E k \in DOMAIN J : J[k] = seq[j]
  <2> TAKE j \in DOMAIN seq \ {n}
  <2>1. CASE j < n
    BY <1>1, <1>5, <1>6, <2>1
  <2>2. CASE j > n
    <3>1. j - 1 \in DOMAIN J /\ ~(j - 1 < n) /\ (j - 1) + 1 = j
      BY <1>1, <1>5, <2>2
    <3> QED BY <1>6, <3>1
  <2> QED BY <1>1, <2>1, <2>2
<1> QED BY <1>4, <1>5, <1>6, <1>7, <1>8 DEF J

LEMMA Appended ==
  ASSUME NEW S, NEW seq \in Seq(S), NEW e \in S
  PROVE  /\ Append(seq, e) \in Seq(S) /\ Len(Append(seq, e)) = Len(seq) + 1
         /\ DOMAIN seq = 1..Len(seq) /\ DOMAIN Append(seq, e) = 1..(Len(seq) + 1)
         /\ \A k \in DOMAIN seq : Append(seq, e)[k] = seq[k]
         /\ Append(seq, e)[Len(seq) + 1] = e
         /\ Len(seq) \in Nat
BY LenProperties, AppendProperties

(***************************************************************************)
(* The lines                                                               *)
(***************************************************************************)

LEMMA LinesTyped ==
  ASSUME NEW lines \in Seq(Line)
  PROVE  /\ Len(lines) \in Nat /\ DOMAIN lines = 1..Len(lines)
         /\ \A k \in DOMAIN lines :
              /\ lines[k] \in Line
              /\ lines[k].ask \in 1..MaxAsks /\ lines[k].ask \in Nat \ {0}
              /\ lines[k].kind \in {"query", "block", "forward", "cached"}
<1>1. Len(lines) \in Nat /\ DOMAIN lines = 1..Len(lines)
  BY LenProperties
<1>2. \A k \in DOMAIN lines : lines[k] \in Line
  BY <1>1, ElementOfSeq
<1> QED BY <1>1, <1>2, BoundsAssumption DEF Line

\* What dnsmasq logs of a query.
LEMMA LinesOf ==
  ASSUME NEW n \in 1..MaxAsks, NEW answer \in {"block", "forward", "cached"},
         NEW lines \in Lines(n, answer)
  PROVE  /\ lines \in Seq(Line) /\ Len(lines) \in {2, 3} /\ DOMAIN lines = 1..Len(lines)
         /\ lines[1].kind = "query"
         /\ \A k \in DOMAIN lines : lines[k].ask = n
         /\ \A k \in DOMAIN lines : k > 1 => lines[k].kind = answer
         /\ Len(lines) = 3 => answer = "forward"
<1> DEFINE line(kind) == [kind |-> kind, ask |-> n]
<1>1. \/ lines = <<line("query"), line(answer)>>
      \/ answer = "forward" /\ lines = <<line("query"), line("forward"), line("forward")>>
  BY DEF Lines
<1>2. \A kind \in {"query", "block", "forward", "cached"} :
        line(kind) \in Line /\ line(kind).kind = kind /\ line(kind).ask = n
  BY DEF Line
<1> HIDE DEF line
<1>3. CASE lines = <<line("query"), line(answer)>>
  BY <1>2, <1>3
<1>4. CASE answer = "forward" /\ lines = <<line("query"), line("forward"), line("forward")>>
  BY <1>2, <1>4
<1> QED BY <1>1, <1>3, <1>4

\* A new query changes nothing for the lines that are there.
LEMMA StreamStays ==
  ASSUME NEW lines \in Seq(Line), NEW asked \in Seq(Ask), NEW ask \in Ask,
         Stream(lines, asked)
  PROVE  Stream(lines, Append(asked, ask))
<1>1. /\ Len(Append(asked, ask)) = Len(asked) + 1 /\ Len(asked) \in Nat
      /\ \A n \in 1..Len(asked) : Append(asked, ask)[n] = asked[n]
  BY Appended
<1>2. \A k \in DOMAIN lines : lines[k].ask \in 1..Len(asked) /\ lines[k].ask \in Nat
  <2>1. \A k \in DOMAIN lines : lines[k].ask \in Nat \ {0} /\ lines[k].ask <= Len(asked)
    BY LinesTyped DEF Stream
  <2> QED BY <1>1, <2>1
<1>3. \A k \in DOMAIN lines :
        /\ lines[k].ask <= Len(Append(asked, ask))
        /\ Append(asked, ask)[lines[k].ask] = asked[lines[k].ask]
  BY <1>1, <1>2
<1> QED BY <1>3 DEF Stream

\* The lines of a new query come behind.
LEMMA StreamGrows ==
  ASSUME NEW lines \in Seq(Line), NEW asked \in Seq(Ask), NEW ask \in Ask,
         Stream(lines, asked), Len(asked) < MaxAsks,
         NEW new \in Lines(Len(asked) + 1, ask.answer)
  PROVE  /\ lines \o new \in Seq(Line) /\ lines \o new # <<>>
         /\ Stream(lines \o new, Append(asked, ask))
         /\ (lines \o new)[1] = IF lines = <<>> THEN new[1] ELSE lines[1]
         /\ \A k \in DOMAIN lines : k \in DOMAIN (lines \o new) /\ (lines \o new)[k] = lines[k]
         /\ \A k \in DOMAIN (lines \o new) \ DOMAIN lines :
              (lines \o new)[k].ask = Len(asked) + 1
         /\ \E k \in DOMAIN (lines \o new) :
              /\ (lines \o new)[k].ask = Len(asked) + 1
              /\ (lines \o new)[k].kind = ask.answer
<1> DEFINE all == lines \o new
           L == Len(lines)
           n == Len(asked) + 1
<1>1. /\ ask.answer \in {"block", "forward", "cached"}
      /\ Len(asked) \in Nat /\ n \in 1..MaxAsks /\ Append(asked, ask)[n] = ask
      /\ Len(Append(asked, ask)) = n
  BY BoundsAssumption, Appended DEF Ask
<1>2. /\ new \in Seq(Line) /\ Len(new) \in {2, 3} /\ DOMAIN new = 1..Len(new)
      /\ new[1].kind = "query"
      /\ \A k \in DOMAIN new : new[k].ask = n
      /\ \A k \in DOMAIN new : k > 1 => new[k].kind = ask.answer
      /\ Len(new) = 3 => ask.answer = "forward"
  BY <1>1, LinesOf
<1>3. /\ all \in Seq(Line) /\ Len(all) = L + Len(new) /\ L \in Nat
      /\ DOMAIN all = 1..(L + Len(new)) /\ DOMAIN lines = 1..L
      /\ \A k \in 1..(L + Len(new)) : all[k] = IF k <= L THEN lines[k] ELSE new[k - L]
  <2>1. /\ all \in Seq(Line) /\ Len(all) = Len(lines) + Len(new)
        /\ \A k \in 1..(Len(lines) + Len(new)) :
             all[k] = IF k <= Len(lines) THEN lines[k] ELSE new[k - Len(lines)]
    BY <1>2, ConcatProperties
  <2> HIDE DEF all
  <2> QED BY <2>1, LenProperties
<1>4. Stream(lines, Append(asked, ask))
  BY StreamStays
<1> HIDE DEF all, n
<1>5. \A k \in DOMAIN lines : k \in DOMAIN all /\ all[k] = lines[k] /\ lines[k].ask < n
  <2>1. \A k \in DOMAIN lines : lines[k].ask \in Nat /\ lines[k].ask <= Len(asked)
    BY LinesTyped DEF Stream
  <2> QED BY <1>1, <1>2, <1>3, <2>1 DEF n
<1>6. \A k \in DOMAIN all \ DOMAIN lines :
        /\ k - L \in DOMAIN new /\ all[k] = new[k - L] /\ k > L
        /\ all[k].ask = n
        /\ all[k].kind = IF k = L + 1 THEN "query" ELSE ask.answer
  <2> TAKE k \in DOMAIN all \ DOMAIN lines
  <2>1. k - L \in DOMAIN new /\ all[k] = new[k - L] /\ k > L
    BY <1>2, <1>3
  <2>2. k = L + 1 <=> k - L = 1
    BY <1>3
  <2> QED BY <1>2, <1>3, <2>1, <2>2
<1>7. L + 1 \in DOMAIN all \ DOMAIN lines /\ L + 2 \in DOMAIN all \ DOMAIN lines
  BY <1>2, <1>3
<1>8. Stream(all, Append(asked, ask))
  <2>1. ASSUME NEW k \in DOMAIN all
        PROVE  /\ all[k].ask <= Len(Append(asked, ask))
               /\ all[k].kind \in {"query", Append(asked, ask)[all[k].ask].answer}
               /\ all[k].kind = "query" =>
                    k + 1 \in DOMAIN all /\ all[k + 1].kind # "query"
               /\ all[k].kind # "query" /\ k > 1 => all[k - 1].ask = all[k].ask
    <3>1. CASE k \in DOMAIN lines
      <4>1. k > 1 => k - 1 \in DOMAIN lines
        BY <1>3, <3>1
      <4> QED BY <1>4, <1>5, <3>1, <4>1 DEF Stream
    <3>2. CASE k \notin DOMAIN lines
      <4>1. /\ all[k].ask = n
            /\ all[k].kind = IF k = L + 1 THEN "query" ELSE ask.answer
        BY <1>6, <2>1, <3>2
      <4>2. all[k].kind # "query" => k - 1 \in DOMAIN all \ DOMAIN lines
        BY <1>3, <2>1, <3>2, <4>1
      <4>3. all[k].kind = "query" => k + 1 \in DOMAIN all /\ all[k + 1].kind # "query"
        <5>1. all[k].kind = "query" => k = L + 1
          BY <1>1, <4>1
        <5>2. all[L + 2].kind = ask.answer /\ (L + 1) + 1 = L + 2
          BY <1>3, <1>6, <1>7
        <5> QED BY <1>1, <1>7, <5>1, <5>2
      <4>4. n <= n
        BY <1>1 DEF n
      <4> QED BY <1>1, <1>6, <4>1, <4>2, <4>3, <4>4
    <3> QED BY <3>1, <3>2
  <2>2. ASSUME NEW j \in DOMAIN all, NEW k \in DOMAIN all, j < k
        PROVE  /\ all[j].ask <= all[k].ask
               /\ all[k].kind = "query" => all[j].ask < all[k].ask
               /\ all[j].ask = all[k].ask /\ all[j].kind # "query" => all[k].kind = "forward"
    <3>1. CASE j \in DOMAIN lines /\ k \in DOMAIN lines
      BY <1>4, <1>5, <2>2, <3>1 DEF Stream
    <3>2. CASE j \in DOMAIN lines /\ k \notin DOMAIN lines
      <4>1. all[j].ask < n /\ all[k].ask = n /\ all[j].ask \in Nat /\ n \in Nat
        <5>1. all[j] = lines[j] /\ lines[j].ask < n /\ lines[j].ask \in Nat
          BY <1>5, <3>2, LinesTyped
        <5>2. all[k].ask = n
          BY <1>6, <3>2
        <5>3. n \in Nat
          BY <1>1 DEF n
        <5> QED BY <5>1, <5>2, <5>3
      <4> QED BY <4>1
    <3>3. CASE j \notin DOMAIN lines /\ k \notin DOMAIN lines
      <4>1. all[j].ask = n /\ all[k].ask = n /\ n \in Nat
        BY <1>1, <1>6, <3>3 DEF n
      <4>2. k > L + 1
        BY <1>3, <2>2, <3>3
      <4>3. all[k].kind = ask.answer
        BY <1>6, <3>3, <4>2
      <4>4. all[j].kind # "query" => Len(new) = 3
        <5>1. all[j].kind # "query" => j # L + 1
          BY <1>6, <3>3
        <5> QED BY <1>2, <1>3, <2>2, <3>3, <5>1
      <4> QED BY <1>1, <1>2, <4>1, <4>3, <4>4
    <3>4. CASE j \notin DOMAIN lines /\ k \in DOMAIN lines
      BY <1>3, <2>2, <3>4
    <3> QED BY <3>1, <3>2, <3>3, <3>4
  <2> QED BY <2>1, <2>2 DEF Stream
<1>9. all # <<>> /\ all[1] = IF lines = <<>> THEN new[1] ELSE lines[1]
  <2>1. CASE lines = <<>>
    <3>1. L = 0
      BY <2>1
    <3> QED BY <1>2, <1>3, <2>1, <3>1
  <2>2. CASE lines # <<>>
    <3>1. L # 0
      BY <2>2, EmptySeq
    <3> QED BY <1>2, <1>3, <2>2, <3>1
  <2> QED BY <2>1, <2>2
<1>10. all[L + 2].ask = n /\ all[L + 2].kind = ask.answer
  BY <1>3, <1>6, <1>7
<1> QED BY <1>3, <1>5, <1>6, <1>7, <1>8, <1>9, <1>10 DEF all, n

\* The reader takes the first line.
LEMMA StreamRead ==
  ASSUME NEW lines \in Seq(Line), NEW asked, Stream(lines, asked), lines # <<>>
  PROVE  /\ Tail(lines) \in Seq(Line) /\ Stream(Tail(lines), asked)
         /\ Head(lines) = lines[1] /\ 1 \in DOMAIN lines
         /\ \A k \in DOMAIN Tail(lines) :
              k \in Nat \ {0} /\ k + 1 \in DOMAIN lines /\ Tail(lines)[k] = lines[k + 1]
         /\ \A k \in DOMAIN lines : k > 1 =>
              k - 1 \in DOMAIN Tail(lines) /\ Tail(lines)[k - 1] = lines[k]
<1> DEFINE T == Tail(lines)
<1>1. /\ T \in Seq(Line) /\ Len(T) = Len(lines) - 1
      /\ \A k \in 1..Len(T) : T[k] = lines[k + 1]
  BY HeadTailProperties
<1>2. Len(lines) \in Nat \ {0} /\ DOMAIN lines = 1..Len(lines) /\ DOMAIN T = 1..Len(T)
  BY <1>1, LenProperties, EmptySeq
<1>3. Head(lines) = lines[1]
  OBVIOUS
<1> HIDE DEF T
<1>4. \A k \in DOMAIN T : k \in Nat \ {0} /\ k + 1 \in DOMAIN lines /\ T[k] = lines[k + 1]
  BY <1>1, <1>2
<1>5. \A k \in DOMAIN lines : k > 1 => k - 1 \in DOMAIN T /\ T[k - 1] = lines[k]
  <2> TAKE k \in DOMAIN lines
  <2> HAVE k > 1
  <2>1. k - 1 \in DOMAIN T /\ (k - 1) + 1 = k
    BY <1>1, <1>2
  <2> QED BY <1>4, <2>1
<1>6. Stream(T, asked)
  <2>1. ASSUME NEW k \in DOMAIN T
        PROVE  /\ T[k].ask <= Len(asked)
               /\ T[k].kind \in {"query", asked[T[k].ask].answer}
               /\ T[k].kind = "query" => k + 1 \in DOMAIN T /\ T[k + 1].kind # "query"
               /\ T[k].kind # "query" /\ k > 1 => T[k - 1].ask = T[k].ask
    <3>1. k \in Nat \ {0} /\ k + 1 \in DOMAIN lines /\ T[k] = lines[k + 1]
      BY <1>4
    <3>2. /\ lines[k + 1].ask <= Len(asked)
          /\ lines[k + 1].kind \in {"query", asked[lines[k + 1].ask].answer}
      BY <3>1 DEF Stream
    <3>3. ASSUME T[k].kind = "query"
          PROVE  k + 1 \in DOMAIN T /\ T[k + 1].kind # "query"
      <4>1. (k + 1) + 1 \in DOMAIN lines /\ lines[(k + 1) + 1].kind # "query"
        BY <3>1, <3>3 DEF Stream
      <4>2. (k + 1) + 1 > 1 /\ ((k + 1) + 1) - 1 = k + 1
        BY <3>1
      <4> QED BY <1>5, <4>1, <4>2
    <3>4. ASSUME T[k].kind # "query", k > 1
          PROVE  T[k - 1].ask = T[k].ask
      <4>1. lines[(k + 1) - 1].ask = lines[k + 1].ask
        BY <3>1, <3>4 DEF Stream
      <4>2. (k + 1) - 1 = k /\ k \in DOMAIN lines
        BY <1>2, <3>1
      <4>3. T[k - 1] = lines[k]
        BY <1>5, <3>4, <4>2
      <4> QED BY <3>1, <4>1, <4>2, <4>3
    <3> QED BY <3>1, <3>2, <3>3, <3>4
  <2>2. ASSUME NEW j \in DOMAIN T, NEW k \in DOMAIN T, j < k
        PROVE  /\ T[j].ask <= T[k].ask
               /\ T[k].kind = "query" => T[j].ask < T[k].ask
               /\ T[j].ask = T[k].ask /\ T[j].kind # "query" => T[k].kind = "forward"
    <3>1. j + 1 < k + 1
      BY <1>4, <2>2
    <3> QED BY <1>4, <3>1 DEF Stream
  <2> QED BY <2>1, <2>2 DEF Stream
<1> QED BY <1>1, <1>2, <1>3, <1>4, <1>5, <1>6 DEF T

(***************************************************************************)
(* The dict                                                                *)
(***************************************************************************)

\* A dict of other queries, or of those of another one.
LEMMA PlaceIsThere ==
  ASSUME NEW domain, Waiting(domain)
  PROVE  Place(domain) \in DOMAIN pending /\ DomainOf(pending[Place(domain)]) = domain
BY DEF Waiting, Place

\* The dict gives the query that it holds.
LEMMA PlaceOfHeld ==
  ASSUME Dict(pending), NEW ask, Holds(ask)
  PROVE  Waiting(DomainOf(ask)) /\ pending[Place(DomainOf(ask))] = ask
<1>1. PICK m \in DOMAIN pending : pending[m] = ask
  BY DEF Holds
<1>2. Waiting(DomainOf(ask))
  BY <1>1 DEF Waiting
<1>3. Place(DomainOf(ask)) = m
  BY <1>1, <1>2, PlaceIsThere DEF Dict
<1> QED BY <1>1, <1>2, <1>3

LEMMA PendingTyped ==
  ASSUME Dict(pending), asks \in Seq(Ask), Len(asks) <= MaxAsks
  PROVE  /\ Len(pending) \in Nat /\ DOMAIN pending = 1..Len(pending)
         /\ \A m \in DOMAIN pending : pending[m] \in 1..MaxAsks /\ pending[m] \in DOMAIN asks
<1>1. Len(pending) \in Nat /\ DOMAIN pending = 1..Len(pending)
  BY LenProperties DEF Dict
<1>2. \A m \in DOMAIN pending : pending[m] \in 1..MaxAsks
  BY <1>1, ElementOfSeq DEF Dict
<1>3. DOMAIN asks = 1..Len(asks) /\ Len(asks) \in Nat
  BY LenProperties
<1> QED BY <1>1, <1>2, <1>3, BoundsAssumption DEF Dict

\* pending[domain] = ...
LEMMA PutKeeps ==
  ASSUME Dict(pending), NEW ask \in 1..MaxAsks, ask <= Len(asks), FromClient(ask)
  PROVE  /\ Dict(Put(ask)) /\ Len(Put(ask)) <= Len(pending) + 1
         /\ \E m \in DOMAIN Put(ask) : Put(ask)[m] = ask
<1>1. /\ pending \in Seq(1..MaxAsks) /\ Len(pending) \in Nat
      /\ DOMAIN pending = 1..Len(pending)
  BY LenProperties DEF Dict
<1>2. CASE Waiting(DomainOf(ask))
  <2> DEFINE n == Place(DomainOf(ask))
             q == [pending EXCEPT ![n] = ask]
  <2>1. n \in DOMAIN pending /\ DomainOf(pending[n]) = DomainOf(ask)
    BY <1>2, PlaceIsThere
  <2>2. /\ q \in Seq(1..MaxAsks) /\ Len(q) = Len(pending)
        /\ \A j \in 1..Len(pending) : q[j] = IF j = n THEN ask ELSE pending[j]
    BY <1>1, <2>1, ExceptSeq
  <2>3. DOMAIN q = DOMAIN pending
    OBVIOUS
  <2>4. Put(ask) = q
    BY <1>2 DEF Put
  <2> HIDE DEF n, q
  <2>5. \A m \in DOMAIN q : q[m] <= Len(asks) /\ FromClient(q[m])
    BY <1>1, <2>2, <2>3 DEF Dict
  <2>6. \A m, k \in DOMAIN q : DomainOf(q[m]) = DomainOf(q[k]) => m = k
    BY <1>1, <2>1, <2>2, <2>3 DEF Dict
  <2>7. q[n] = ask
    BY <1>1, <2>1, <2>2
  <2> QED BY <1>1, <2>1, <2>2, <2>3, <2>4, <2>5, <2>6, <2>7 DEF Dict
<1>3. CASE ~Waiting(DomainOf(ask))
  <2> DEFINE q == Append(pending, ask)
  <2>1. /\ q \in Seq(1..MaxAsks) /\ Len(q) = Len(pending) + 1
        /\ DOMAIN q = 1..(Len(pending) + 1)
        /\ \A j \in DOMAIN pending : q[j] = pending[j]
        /\ q[Len(pending) + 1] = ask
    BY <1>1, Appended
  <2>2. Put(ask) = q
    BY <1>3 DEF Put
  <2> HIDE DEF q
  <2>3. \A j \in DOMAIN q : j \in DOMAIN pending \/ j = Len(pending) + 1
    BY <1>1, <2>1
  <2>4. \A m \in DOMAIN q : q[m] <= Len(asks) /\ FromClient(q[m])
    BY <2>1, <2>3 DEF Dict
  <2>5. \A m \in DOMAIN pending : DomainOf(pending[m]) # DomainOf(ask)
    BY <1>3 DEF Waiting
  <2>6. \A m, k \in DOMAIN q : DomainOf(q[m]) = DomainOf(q[k]) => m = k
    BY <2>1, <2>3, <2>5 DEF Dict
  <2>7. Len(pending) + 1 \in DOMAIN q
    BY <1>1, <2>1
  <2> QED BY <1>1, <2>1, <2>2, <2>4, <2>6, <2>7 DEF Dict
<1> QED BY <1>2, <1>3

\* pending.pop(domain)
LEMMA PopKeeps ==
  ASSUME Dict(pending), NEW domain, Waiting(domain)
  PROVE  /\ Dict(Pop(domain)) /\ Len(Pop(domain)) = Len(pending) - 1
         /\ \A m \in DOMAIN Pop(domain) :
              Holds(Pop(domain)[m]) /\ DomainOf(Pop(domain)[m]) # domain
<1> DEFINE n == Place(domain)
           q == RemoveAt(pending, n)
<1>1. n \in DOMAIN pending /\ DomainOf(pending[n]) = domain
  BY PlaceIsThere
<1>2. /\ pending \in Seq(1..MaxAsks) /\ Len(pending) \in Nat
      /\ DOMAIN pending = 1..Len(pending)
  BY LenProperties DEF Dict
<1>3. /\ q \in Seq(1..MaxAsks) /\ Len(q) = Len(pending) - 1
      /\ \A k \in DOMAIN q : \E j \in DOMAIN pending \ {n} :
           q[k] = pending[j] /\ j = IF k < n THEN k ELSE k + 1
  <2> DEFINE S == 1..MaxAsks
  <2>1. pending \in Seq(S) /\ n \in DOMAIN pending
    BY <1>1, <1>2
  <2> HIDE DEF n, S
  <2>2. /\ q \in Seq(S) /\ Len(q) = Len(pending) - 1
        /\ \A k \in DOMAIN q : \E j \in DOMAIN pending \ {n} :
             q[k] = pending[j] /\ j = IF k < n THEN k ELSE k + 1
    BY ONLY <2>1, Removed
  <2> QED BY <2>2 DEF S
<1>4. Pop(domain) = q
  BY DEF Pop
<1>5. DOMAIN q = 1..Len(q)
  BY <1>3, LenProperties
<1> HIDE DEF n, q
<1>6. \A m \in DOMAIN q : /\ q[m] <= Len(asks) /\ FromClient(q[m])
                          /\ Holds(q[m]) /\ DomainOf(q[m]) # domain
  <2> TAKE m \in DOMAIN q
  <2>1. PICK j \in DOMAIN pending \ {n} : q[m] = pending[j]
    BY <1>3
  <2>2. DomainOf(pending[j]) # domain
    BY <1>1 DEF Dict
  <2> QED BY <2>1, <2>2 DEF Dict, Holds
<1>7. \A m, k \in DOMAIN q : DomainOf(q[m]) = DomainOf(q[k]) => m = k
  <2> SUFFICES ASSUME NEW m \in DOMAIN q, NEW k \in DOMAIN q,
                      DomainOf(q[m]) = DomainOf(q[k])
               PROVE  m = k
    OBVIOUS
  <2>1. PICK i \in DOMAIN pending \ {n} : q[m] = pending[i] /\ i = IF m < n THEN m ELSE m + 1
    BY <1>3
  <2>2. PICK j \in DOMAIN pending \ {n} : q[k] = pending[j] /\ j = IF k < n THEN k ELSE k + 1
    BY <1>3
  <2>3. i = j
    BY <2>1, <2>2 DEF Dict
  <2> QED BY <1>1, <1>2, <1>3, <1>5, <2>1, <2>2, <2>3
<1> QED BY <1>3, <1>4, <1>6, <1>7 DEF Dict

\* Beyond the limit the oldest are dropped.
LEMMA EvictKeeps ==
  ASSUME NEW p, Dict(p), Len(p) <= Limit + 1
  PROVE  /\ Dict(Evict(p)) /\ Len(Evict(p)) <= Limit
         /\ \A m \in DOMAIN Evict(p) : \E k \in DOMAIN p : Evict(p)[m] = p[k]
<1>1. p \in Seq(1..MaxAsks) /\ Len(p) \in Nat /\ DOMAIN p = 1..Len(p)
  BY LenProperties DEF Dict
<1>2. CASE Len(p) <= Limit
  <2>1. Evict(p) = p
    BY <1>1, <1>2, LimitAssumption DEF Evict
  <2> QED BY <1>2, <2>1
<1>3. CASE Len(p) > Limit
  <2> DEFINE q == SubSeq(p, Evicted + 1, Len(p))
  <2>1. Len(p) = Limit + 1 /\ Limit \in Nat /\ Evicted \in 1..Limit
    <3>1. Limit \in Nat /\ Evicted \in 1..Limit /\ Len(p) \in Nat
      BY <1>1, LimitAssumption
    <3> QED BY <1>3, <3>1
  <2>2. /\ Evicted + 1 \in Int /\ Len(p) \in Int /\ Evicted + 1 <= Len(p)
        /\ \A i \in (Evicted + 1)..Len(p) : p[i] \in 1..MaxAsks
    <3>1. \A i \in (Evicted + 1)..Len(p) : i \in 1..Len(p)
      BY <1>1, <2>1
    <3>2. \A i \in (Evicted + 1)..Len(p) : p[i] \in 1..MaxAsks
      BY <1>1, <3>1, ElementOfSeq
    <3> QED BY <1>1, <2>1, <3>2
  <2>3. /\ q \in Seq(1..MaxAsks)
        /\ Len(q) = IF Evicted + 1 <= Len(p) THEN Len(p) - (Evicted + 1) + 1 ELSE 0
        /\ \A i \in 1..(Len(p) - (Evicted + 1) + 1) : q[i] = p[(Evicted + 1) + i - 1]
    BY <2>2, SubSeqProperties
  <2>4. Evict(p) = q
    BY <1>3 DEF Evict
  <2>5. DOMAIN q = 1..Len(q)
    BY <2>3, LenProperties
  <2> HIDE DEF q
  <2>6. Len(q) = Len(p) - Evicted /\ Len(q) <= Limit
    BY <1>1, <2>1, <2>2, <2>3
  <2>7. \A m \in DOMAIN q : Evicted + m \in DOMAIN p /\ q[m] = p[Evicted + m] /\ m \in Nat
    <3> TAKE m \in DOMAIN q
    <3>1. /\ m \in 1..(Len(p) - (Evicted + 1) + 1) /\ (Evicted + 1) + m - 1 = Evicted + m
          /\ Evicted + m \in DOMAIN p /\ m \in Nat
      BY <1>1, <2>1, <2>5, <2>6
    <3> QED BY <2>3, <3>1
  <2>8. \A m, k \in DOMAIN q : DomainOf(q[m]) = DomainOf(q[k]) => m = k
    <3> SUFFICES ASSUME NEW m \in DOMAIN q, NEW k \in DOMAIN q,
                        DomainOf(q[m]) = DomainOf(q[k])
                 PROVE  m = k
      OBVIOUS
    <3>1. Evicted + m = Evicted + k
      BY <2>7 DEF Dict
    <3> QED BY <2>1, <2>7, <3>1
  <2>9. \A m \in DOMAIN q : q[m] <= Len(asks) /\ FromClient(q[m])
    BY <2>7 DEF Dict
  <2> QED BY <2>3, <2>4, <2>6, <2>7, <2>8, <2>9 DEF Dict
<1>4. Len(p) <= Limit \/ Len(p) > Limit
  BY <1>1, LimitAssumption
<1> QED BY <1>2, <1>3, <1>4

(***************************************************************************)
(* Reading a line                                                          *)
(***************************************************************************)

\* What every branch of the loop does to the dict and the rows.
Branch(line) ==
  /\ Dict(pending')
  /\ Len(pending') <= Limit + 1
  /\ Len(pending') > Limit =>
       line.kind = "query" /\ \E m \in DOMAIN pending' : pending'[m] = line.ask
  /\ line.kind = "query" => inserting' = inserting
  /\ line.kind = "query" /\ FromClient(line.ask) =>
       \E m \in DOMAIN pending' : pending'[m] = line.ask
  /\ line.kind # "query" => \A m \in DOMAIN pending' : Holds(pending'[m])
  /\ line.kind # "query" /\ line.kind # "cached" /\ FromClient(line.ask) =>
       Taken(line.ask) \/ In(inserting', line.ask)
  /\ \/ inserting' = inserting
     \/ \E from \in 0..MaxAsks :
          /\ inserting' = Append(inserting, [from |-> from, at |-> line.ask])
          /\ line.kind # "query" /\ ~Taken(line.ask)
          /\ FromClient(line.ask) => from = line.ask
          /\ \A m \in DOMAIN pending' : DomainOf(pending'[m]) # DomainOf(line.ask)

\* What is known of the line that is read.
LEMMA FirstLine ==
  ASSUME Inv, unread # <<>>
  PROVE  /\ 1 \in DOMAIN unread /\ Head(unread) = unread[1]
         /\ unread[1] \in Line /\ unread[1].ask \in 1..MaxAsks
         /\ unread[1].ask <= Len(asks) /\ unread[1].ask \in DOMAIN asks
         /\ unread[1].kind \in {"query", asks[unread[1].ask].answer}
         /\ Len(asks) \in Nat
<1>1. unread \in Seq(Line) /\ Stream(unread, asks) /\ asks \in Seq(Ask)
  BY DEF Inv, TypeOK, Files
<1>2. 1 \in DOMAIN unread /\ Head(unread) = unread[1]
  BY <1>1, StreamRead
<1>3. DOMAIN asks = 1..Len(asks) /\ Len(asks) \in Nat
  BY <1>1, LenProperties
<1>4. unread[1] \in Line /\ unread[1].ask \in 1..MaxAsks /\ unread[1].ask \in Nat \ {0}
  BY <1>1, <1>2, LinesTyped
<1>5. /\ unread[1].ask <= Len(asks)
      /\ unread[1].kind \in {"query", asks[unread[1].ask].answer}
  BY <1>1, <1>2 DEF Stream
<1>6. unread[1].ask \in DOMAIN asks
  BY <1>3, <1>4, <1>5
<1> QED BY <1>2, <1>3, <1>4, <1>5, <1>6

LEMMA QueryBranch ==
  ASSUME Inv, unread # <<>>, QueryLine(unread[1]), asks' = asks
  PROVE  Branch(unread[1])
<1> DEFINE ask == unread[1].ask
<1>1. /\ unread[1].kind = "query" /\ FromClient(ask)
      /\ pending' = Put(ask) /\ inserting' = inserting
  BY DEF QueryLine, LocalLine, FromClient
<1>2. /\ Dict(Put(ask)) /\ Len(Put(ask)) <= Len(pending) + 1
      /\ \E m \in DOMAIN Put(ask) : Put(ask)[m] = ask
  <2>1. Dict(pending) /\ ask \in 1..MaxAsks /\ ask <= Len(asks)
    BY FirstLine DEF Inv
  <2> QED BY <1>1, <2>1, PutKeeps
<1>3. Len(pending) <= Limit
  <2>1. Len(pending) \in Nat /\ Limit \in Nat
    BY LimitAssumption, LenProperties DEF Inv, Dict
  <2> QED BY <1>1, <2>1 DEF Inv, Room
<1>4. Len(pending') \in Nat /\ Len(pending) \in Nat /\ Limit \in Nat
  BY <1>1, <1>2, LimitAssumption, LenProperties DEF Inv, Dict
<1>5. Len(pending') <= Limit + 1
  BY <1>1, <1>2, <1>3, <1>4
<1>6. \E m \in DOMAIN pending' : pending'[m] = ask
  BY <1>1, <1>2
<1>7. Dict(pending')
  BY <1>1, <1>2
<1> QED BY <1>1, <1>5, <1>6, <1>7 DEF Branch

\* A pop gives the query that was asked, if a client asked it and it was not
\* taken yet.
LEMMA PoppedIsRight ==
  ASSUME Inv, unread # <<>>, unread[1].kind # "query",
         FromClient(unread[1].ask), ~Taken(unread[1].ask)
  PROVE  /\ Waiting(DomainOf(unread[1].ask))
         /\ Popped(unread[1]) = [from |-> unread[1].ask, at |-> unread[1].ask]
<1>1. Holds(unread[1].ask) /\ Dict(pending)
  BY DEF Inv, HeldAtAnswer
<1>2. /\ Waiting(DomainOf(unread[1].ask))
      /\ pending[Place(DomainOf(unread[1].ask))] = unread[1].ask
  BY <1>1, PlaceOfHeld
<1> QED BY <1>2 DEF Popped

LEMMA PoppedIsRow ==
  ASSUME Inv, NEW line
  PROVE  \E from \in 0..MaxAsks : Popped(line) = [from |-> from, at |-> line.ask]
<1>1. CASE Waiting(DomainOf(line.ask))
  <2>1. Place(DomainOf(line.ask)) \in DOMAIN pending /\ pending \in Seq(1..MaxAsks)
    BY <1>1, PlaceIsThere DEF Inv, Dict
  <2>2. pending[Place(DomainOf(line.ask))] \in 1..MaxAsks
    BY <2>1, LenProperties, ElementOfSeq
  <2>3. pending[Place(DomainOf(line.ask))] \in 0..MaxAsks
    BY <2>2, BoundsAssumption
  <2> QED BY <1>1, <2>3 DEF Popped
<1>2. CASE ~Waiting(DomainOf(line.ask))
  <2>1. 0 \in 0..MaxAsks
    BY BoundsAssumption
  <2> QED BY <1>2, <2>1 DEF Popped
<1> QED BY <1>1, <1>2

\* A line that is taken, of a domain that the dict has no more.
LEMMA TakingBranch ==
  ASSUME Inv, unread # <<>>, unread[1].kind # "query", ~Taken(unread[1].ask),
         asks' = asks, inserting' = Append(inserting, Popped(unread[1])),
         Dict(pending'), Len(pending') <= Limit,
         \A m \in DOMAIN pending' :
           Holds(pending'[m]) /\ DomainOf(pending'[m]) # DomainOf(unread[1].ask)
  PROVE  Branch(unread[1])
<1> DEFINE ask == unread[1].ask
<1>1. PICK from \in 0..MaxAsks : Popped(unread[1]) = [from |-> from, at |-> ask]
  BY PoppedIsRow
<1>2. FromClient(ask) => from = ask
  <2> SUFFICES ASSUME FromClient(ask) PROVE from = ask
    OBVIOUS
  <2>1. [from |-> from, at |-> ask] = [from |-> ask, at |-> ask]
    BY <1>1, PoppedIsRight
  <2> QED BY <2>1
<1>3. In(inserting', ask)
  <2>1. Popped(unread[1]) \in Row
    BY <1>1, FirstLine DEF Row
  <2>2. inserting \in Seq(Row)
    BY DEF Inv, TypeOK
  <2>3. /\ Len(inserting) + 1 \in DOMAIN inserting'
        /\ inserting'[Len(inserting) + 1] = Popped(unread[1])
    BY <2>1, <2>2, Appended
  <2> QED BY <1>1, <2>3 DEF In
<1>4. Len(pending') \in Nat /\ Limit \in Nat
  BY LenProperties, LimitAssumption DEF Dict
<1>5. Len(pending') <= Limit + 1 /\ ~(Len(pending') > Limit)
  BY <1>4
<1> QED BY <1>1, <1>2, <1>3, <1>5 DEF Branch

LEMMA PendingLen ==
  ASSUME Inv
  PROVE  /\ Len(pending) \in Nat /\ Limit \in Nat /\ Len(pending) <= Limit + 1
         /\ Dict(pending)
BY LenProperties, LimitAssumption DEF Inv, TypeOK, Dict

LEMMA BlockBranch ==
  ASSUME Inv, unread # <<>>, BlockLine(unread[1]), asks' = asks
  PROVE  Branch(unread[1])
<1> DEFINE domain == DomainOf(unread[1].ask)
<1>1. /\ unread[1].kind = "block"
      /\ inserting' = Append(inserting, Popped(unread[1]))
      /\ pending' = IF Waiting(domain) THEN Pop(domain) ELSE pending
  BY DEF BlockLine
<1>2. ~Taken(unread[1].ask)
  BY <1>1, FirstLine DEF Inv, TakenBefore
<1>3. /\ Dict(pending') /\ Len(pending') <= Limit
      /\ \A m \in DOMAIN pending' : Holds(pending'[m]) /\ DomainOf(pending'[m]) # domain
  <2>1. CASE Waiting(domain)
    <3>1. /\ Dict(Pop(domain)) /\ Len(Pop(domain)) = Len(pending) - 1
          /\ \A m \in DOMAIN Pop(domain) :
               Holds(Pop(domain)[m]) /\ DomainOf(Pop(domain)[m]) # domain
      <4> HIDE DEF domain
      <4> QED BY <2>1, PendingLen, PopKeeps
    <3>2. pending' = Pop(domain)
      BY <1>1, <2>1
    <3>3. Len(pending') = Len(pending) - 1
      BY <3>1, <3>2
    <3>4. Len(pending') <= Limit
      BY <3>3, PendingLen
    <3> QED BY <3>1, <3>2, <3>4
  <2>2. CASE ~Waiting(domain)
    <3>1. pending' = pending
      BY <1>1, <2>2
    <3>2. \A m \in DOMAIN pending : Holds(pending[m]) /\ DomainOf(pending[m]) # domain
      BY <2>2 DEF Waiting, Holds
    <3>3. ~(Len(pending) > Limit)
      BY <2>2, PlaceOfHeld DEF Inv, Room
    <3>4. Len(pending) <= Limit
      BY <3>3, PendingLen
    <3> QED BY <3>1, <3>2, <3>4, PendingLen
  <2> QED BY <2>1, <2>2
<1> QED BY <1>1, <1>2, <1>3, TakingBranch

LEMMA ForwardBranch ==
  ASSUME Inv, unread # <<>>, ForwardLine(unread[1]), asks' = asks
  PROVE  Branch(unread[1])
<1> DEFINE domain == DomainOf(unread[1].ask)
<1>1. /\ unread[1].kind = "forward" /\ Waiting(domain)
      /\ inserting' = Append(inserting, Popped(unread[1]))
      /\ pending' = Evict(Pop(domain))
  BY DEF ForwardLine
<1>2. ~Taken(unread[1].ask)
  BY <1>1, FirstLine DEF Inv, TakenBefore
<1>3. /\ Dict(Pop(domain)) /\ Len(Pop(domain)) = Len(pending) - 1
      /\ \A m \in DOMAIN Pop(domain) :
           Holds(Pop(domain)[m]) /\ DomainOf(Pop(domain)[m]) # domain
  <2>1. Waiting(domain)
    BY <1>1
  <2> HIDE DEF domain
  <2> QED BY <2>1, PendingLen, PopKeeps
<1> DEFINE q == Pop(domain)
<1>4. Len(q) <= Limit + 1
  BY <1>3, PendingLen
<1>5. /\ Dict(Evict(q)) /\ Len(Evict(q)) <= Limit
      /\ \A m \in DOMAIN Evict(q) : \E k \in DOMAIN q : Evict(q)[m] = q[k]
  <2>1. Dict(q)
    BY <1>3
  <2> HIDE DEF q
  <2> QED BY <1>4, <2>1, EvictKeeps
<1>6. \A m \in DOMAIN pending' : Holds(pending'[m]) /\ DomainOf(pending'[m]) # domain
  BY <1>1, <1>3, <1>5
<1> QED BY <1>1, <1>2, <1>5, <1>6, TakingBranch

LEMMA OtherBranch ==
  ASSUME Inv, unread # <<>>, OtherLine(unread[1]), asks' = asks
  PROVE  Branch(unread[1])
<1>1. /\ unread[1].kind \in {"forward", "cached"}
      /\ unread[1].kind = "forward" => ~Waiting(DomainOf(unread[1].ask))
      /\ pending' = Evict(pending) /\ inserting' = inserting
  BY DEF OtherLine
<1>2. /\ Dict(Evict(pending)) /\ Len(Evict(pending)) <= Limit
      /\ \A m \in DOMAIN Evict(pending) : \E k \in DOMAIN pending :
           Evict(pending)[m] = pending[k]
  BY PendingLen, EvictKeeps
<1>3. \A m \in DOMAIN pending' : Holds(pending'[m])
  BY <1>1, <1>2 DEF Holds
<1>4. unread[1].kind # "cached" /\ FromClient(unread[1].ask) => Taken(unread[1].ask)
  BY <1>1, PoppedIsRight
<1>5. Len(pending') <= Limit + 1 /\ ~(Len(pending') > Limit)
  <2>1. Len(pending') \in Nat /\ Len(pending') <= Limit /\ Limit \in Nat
    BY <1>1, <1>2, LenProperties, LimitAssumption DEF Dict
  <2> QED BY <2>1
<1> QED BY <1>1, <1>2, <1>3, <1>4, <1>5 DEF Branch

LEMMA LocalBranch ==
  ASSUME Inv, unread # <<>>, LocalLine(unread[1]), asks' = asks,
         pending' = pending, inserting' = inserting
  PROVE  Branch(unread[1])
<1>1. unread[1].kind = "query" /\ ~FromClient(unread[1].ask)
  BY DEF LocalLine, FromClient
<1>2. ~(Len(pending) > Limit)
  BY <1>1 DEF Inv, Room
<1> QED BY <1>1, <1>2, PendingLen DEF Branch

LEMMA EveryBranch ==
  ASSUME Inv, ReadLine
  PROVE  Branch(unread[1])
<1>1. unread # <<>> /\ asks' = asks
  BY DEF ReadLine
<1>2. Head(unread) = unread[1]
  BY <1>1, FirstLine
<1>3. \/ QueryLine(unread[1]) \/ BlockLine(unread[1]) \/ ForwardLine(unread[1])
      \/ OtherLine(unread[1])
      \/ LocalLine(unread[1]) /\ pending' = pending /\ inserting' = inserting
  BY <1>2 DEF ReadLine
<1> QED BY <1>1, <1>3, QueryBranch, BlockBranch, ForwardBranch, OtherBranch, LocalBranch

\* The row that is made of a line, and the rows that were there.
LEMMA RowsOfBranch ==
  ASSUME Inv, unread # <<>>, Branch(unread[1]), asks' = asks, events' = events
  PROVE  /\ inserting' \in Seq(Row) /\ RowsRight'
         /\ \A n : Taken(n) => Taken(n)'
         /\ \A n : Taken(n)' => Taken(n) \/ (/\ n = unread[1].ask /\ unread[1].kind # "query"
                                             /\ ~Waiting(DomainOf(n))')
<1> DEFINE ask == unread[1].ask
<1>1. CASE inserting' = inserting
  BY <1>1 DEF Inv, TypeOK, RowsRight, Right, Taken, In, FromClient
<1>2. ASSUME NEW from \in 0..MaxAsks,
             inserting' = Append(inserting, [from |-> from, at |-> ask]),
             unread[1].kind # "query", ~Taken(ask), FromClient(ask) => from = ask,
             \A m \in DOMAIN pending' : DomainOf(pending'[m]) # DomainOf(ask)
      PROVE  /\ inserting' \in Seq(Row) /\ RowsRight'
             /\ \A n : Taken(n) => Taken(n)'
             /\ \A n : Taken(n)' => Taken(n) \/ (/\ n = ask /\ unread[1].kind # "query"
                                                 /\ ~Waiting(DomainOf(n))')
  <2> DEFINE row == [from |-> from, at |-> ask]
             L == Len(inserting)
  <2>1. row \in Row /\ row.from = from /\ row.at = ask /\ ask <= Len(asks)
    BY FirstLine DEF Row
  <2>2. inserting \in Seq(Row)
    BY DEF Inv, TypeOK
  <2> HIDE DEF row, ask
  <2>3. inserting' = Append(inserting, row)
    BY <1>2 DEF row
  <2>4. /\ inserting' \in Seq(Row) /\ L \in Nat
        /\ DOMAIN inserting = 1..L /\ DOMAIN inserting' = 1..(L + 1)
        /\ \A k \in DOMAIN inserting : inserting'[k] = inserting[k]
        /\ inserting'[L + 1] = row
    BY <2>1, <2>2, <2>3, Appended
  <2>5. \A k \in DOMAIN inserting' : k \in DOMAIN inserting \/ k = L + 1
    BY <2>4
  <2>6. DOMAIN inserting \subseteq DOMAIN inserting' /\ L + 1 \in DOMAIN inserting'
    BY <2>4
  <2>7. \A n : In(inserting, n)' <=> In(inserting, n) \/ n = ask
    BY <2>1, <2>4, <2>5, <2>6 DEF In
  <2>8. \A n : In(events, n)' <=> In(events, n)
    BY DEF In
  <2>9. \A n : Taken(n)' <=> Taken(n) \/ n = ask
    BY <2>7, <2>8 DEF Taken
  <2>10. /\ \A k \in DOMAIN inserting : inserting[k].at # ask
         /\ \A k \in DOMAIN events : events[k].at # ask
    BY <1>2 DEF Taken, In
  <2>11. Right(inserting)'
    <3>1. \A k \in DOMAIN inserting' :
            /\ inserting'[k].at <= Len(asks)
            /\ FromClient(inserting'[k].at) => inserting'[k].from = inserting'[k].at
      BY <1>2, <2>1, <2>4, <2>5 DEF Inv, RowsRight, Right
    <3>2. \A j, k \in DOMAIN inserting' : inserting'[j].at = inserting'[k].at => j = k
      BY <2>1, <2>4, <2>5, <2>10 DEF Inv, RowsRight, Right
    <3> QED BY <3>1, <3>2 DEF Right, FromClient
  <2>12. \A j \in DOMAIN inserting', k \in DOMAIN events : inserting'[j].at # events[k].at
    BY <2>1, <2>4, <2>5, <2>10 DEF Inv, RowsRight
  <2>13. Right(events)'
    BY DEF Inv, RowsRight, Right, FromClient
  <2>14. RowsRight'
    BY <2>11, <2>12, <2>13 DEF RowsRight
  <2>15. \A n : n = ask => ~Waiting(DomainOf(n))'
    BY <1>2 DEF Waiting, DomainOf, ask
  <2> QED BY <1>2, <2>4, <2>9, <2>14, <2>15
<1> QED BY <1>1, <1>2 DEF Branch

\* The file from the next line on.
LEMMA ReadFirst ==
  ASSUME Inv, unread # <<>>, unread' = Tail(unread)
  PROVE  /\ unread' \in Seq(Line) /\ Stream(unread', asks)
         /\ \A k \in DOMAIN unread' :
              k \in Nat \ {0} /\ k + 1 \in DOMAIN unread /\ unread'[k] = unread[k + 1]
         /\ \A k \in DOMAIN unread : k > 1 =>
              k - 1 \in DOMAIN unread' /\ unread'[k - 1] = unread[k]
         /\ unread' # <<>> => /\ 1 \in DOMAIN unread' /\ 2 \in DOMAIN unread
                              /\ unread'[1] = unread[2]
<1>1. /\ Tail(unread) \in Seq(Line) /\ Stream(Tail(unread), asks)
      /\ \A k \in DOMAIN Tail(unread) :
           k \in Nat \ {0} /\ k + 1 \in DOMAIN unread /\ Tail(unread)[k] = unread[k + 1]
      /\ \A k \in DOMAIN unread : k > 1 =>
           k - 1 \in DOMAIN Tail(unread) /\ Tail(unread)[k - 1] = unread[k]
  BY StreamRead DEF Inv, TypeOK, Files
<1>2. unread' # <<>> => 1 \in DOMAIN unread'
  <2> SUFFICES ASSUME unread' # <<>> PROVE 1 \in DOMAIN unread'
    OBVIOUS
  <2>1. Len(unread') \in Nat \ {0} /\ DOMAIN unread' = 1..Len(unread')
    BY <1>1, EmptySeq, LenProperties
  <2> QED BY <2>1
<1>3. 1 + 1 = 2
  OBVIOUS
<1>4. unread' # <<>> => 2 \in DOMAIN unread /\ unread'[1] = unread[2]
  BY <1>1, <1>2, <1>3
<1> QED BY <1>1, <1>2, <1>4

\* The second line of a file that begins with an answer, and a line behind it of
\* the same query.
LEMMA SecondLine ==
  ASSUME Inv, unread # <<>>, 2 \in DOMAIN unread
  PROVE  /\ unread[2].kind # "query" => unread[2].ask = unread[1].ask
         /\ unread[2].kind # "query" /\ unread[1].kind # "query" =>
              unread[2].kind = "forward" /\ unread[1].kind = "forward"
         /\ unread[1].kind = "query" => unread[2].kind # "query"
         /\ \A k \in DOMAIN unread : k > 1 /\ unread[k].ask = unread[1].ask =>
              unread[2].ask = unread[1].ask /\ unread[2].kind # "query"
<1>1. /\ unread \in Seq(Line) /\ Stream(unread, asks) /\ 1 \in DOMAIN unread
      /\ \A k \in DOMAIN unread : unread[k].ask \in Nat /\ k \in Nat
      /\ 2 - 1 = 1 /\ 1 + 1 = 2
  BY FirstLine, LinesTyped DEF Inv, TypeOK, Files
<1>2. unread[2].kind # "query" => unread[2].ask = unread[1].ask
  BY <1>1 DEF Stream
<1>3. unread[1].kind = "query" => unread[2].kind # "query"
  BY <1>1 DEF Stream
<1>4. unread[2].kind # "query" /\ unread[1].kind # "query" =>
        unread[2].kind = "forward" /\ unread[1].kind = "forward"
  <2> SUFFICES ASSUME unread[2].kind # "query", unread[1].kind # "query"
               PROVE  unread[2].kind = "forward" /\ unread[1].kind = "forward"
    OBVIOUS
  <2>1. unread[2].kind = "forward"
    BY <1>1, <1>2 DEF Stream
  <2>2. /\ unread[2].kind \in {"query", asks[unread[2].ask].answer}
        /\ unread[1].kind \in {"query", asks[unread[1].ask].answer}
    BY <1>1 DEF Stream
  <2> QED BY <1>2, <2>1, <2>2
<1>5. ASSUME NEW k \in DOMAIN unread, k > 1, unread[k].ask = unread[1].ask
      PROVE  unread[2].ask = unread[1].ask /\ unread[2].kind # "query"
  <2>1. unread[1].ask <= unread[2].ask
    BY <1>1 DEF Stream
  <2>2. unread[2].ask <= unread[k].ask
    <3>1. CASE k = 2
      BY <1>1, <3>1
    <3>2. CASE k > 2
      BY <1>1, <3>2 DEF Stream
    <3> QED BY <1>1, <1>5, <3>1, <3>2
  <2>3. unread[2].kind = "query" => unread[1].ask < unread[2].ask
    BY <1>1 DEF Stream
  <2> QED BY <1>1, <1>5, <2>1, <2>2, <2>3
<1> QED BY <1>2, <1>3, <1>4, <1>5

LEMMA ReadLineKeeps ==
  ASSUME Inv, ReadLine
  PROVE  Inv'
<1>1. /\ unread # <<>> /\ reader = "read" /\ unread' = Tail(unread)
      /\ asks' = asks /\ next' = next /\ rotated' = rotated /\ writes' = writes
      /\ reader' = reader /\ rows' = rows /\ events' = events /\ rotations' = rotations
  BY DEF ReadLine
<1>2. Branch(unread[1])
  BY EveryBranch
<1>3. /\ inserting' \in Seq(Row) /\ RowsRight'
      /\ \A n : Taken(n) => Taken(n)'
      /\ \A n : Taken(n)' => Taken(n) \/ (/\ n = unread[1].ask /\ unread[1].kind # "query"
                                          /\ ~Waiting(DomainOf(n))')
  BY <1>1, <1>2, RowsOfBranch
<1>4. /\ unread' \in Seq(Line) /\ Stream(unread', asks)
      /\ \A k \in DOMAIN unread' :
           k \in Nat \ {0} /\ k + 1 \in DOMAIN unread /\ unread'[k] = unread[k + 1]
      /\ \A k \in DOMAIN unread : k > 1 =>
           k - 1 \in DOMAIN unread' /\ unread'[k - 1] = unread[k]
      /\ unread' # <<>> => /\ 1 \in DOMAIN unread' /\ 2 \in DOMAIN unread
                           /\ unread'[1] = unread[2]
  BY <1>1, ReadFirst
<1>5. Dict(pending') /\ Dict(pending)'
  BY <1>1, <1>2 DEF Branch, Dict, FromClient, DomainOf
<1>6. TypeOK'
  <2>1. /\ asks' \in Seq(Ask) /\ next' \in Seq(Line) /\ rotated' \in BOOLEAN
        /\ writes' \in {"here", "next", "gone"} /\ reader' \in {"read", "end"}
        /\ rows' \in Seq(Row) /\ events' \in Seq(Row) /\ rotations' \in 0..Rotations
    BY <1>1 DEF Inv, TypeOK
  <2>2. /\ pending' \in Seq(1..MaxAsks) /\ Len(pending') <= Limit + 1
        /\ \A m, n \in DOMAIN pending' :
             DomainOf(pending'[m]) = DomainOf(pending'[n]) => m = n
    BY <1>2, <1>5 DEF Branch, Dict
  <2> QED BY <1>1, <1>3, <1>4, <2>1, <2>2 DEF TypeOK, DomainOf
<1>7. Files'
  <2>1. Stream(next, asks) /\ AtQuery(next) /\ (next # <<>> => writes = "next")
    BY DEF Inv, Files
  <2>2. \A j \in DOMAIN unread', k \in DOMAIN next : unread'[j].ask < next[k].ask
    BY <1>4 DEF Inv, Files
  <2>3. Stream(unread, asks)' /\ Stream(next, asks)' /\ AtQuery(next)'
    BY <1>1, <1>4, <2>1 DEF Stream, AtQuery
  <2> QED BY <1>1, <2>1, <2>2, <2>3 DEF Files
<1>8. TakenBefore'
  <2>1. ASSUME NEW k \in DOMAIN unread', NEW n, n = unread'[k].ask, Taken(n)'
        PROVE  /\ unread'[k].kind = "forward"
               /\ unread'[1].kind # "query" /\ unread'[1].ask = n
               /\ ~Waiting(DomainOf(n))'
    <3>1. /\ k + 1 \in DOMAIN unread /\ unread'[k] = unread[k + 1] /\ k + 1 > 1
          /\ 1 \in DOMAIN unread /\ 1 < k + 1 /\ unread[k + 1].ask = n
      BY <1>1, <1>4, <2>1, FirstLine
    <3>2. unread' # <<>>
      BY <2>1
    <3>3. /\ unread[1].kind # "query" /\ unread[1].ask = n
          /\ unread[k + 1].kind = "forward" /\ ~Waiting(DomainOf(n))'
      <4>1. CASE Taken(n)
        <5>1. /\ unread[k + 1].kind = "forward"
              /\ unread[1].kind # "query" /\ unread[1].ask = n
              /\ ~Waiting(DomainOf(n))
          BY <3>1, <4>1 DEF Inv, TakenBefore
        <5>2. \A m \in DOMAIN pending' : Holds(pending'[m])
          BY <1>2, <5>1 DEF Branch
        <5>3. ~Waiting(DomainOf(n))'
          BY <1>1, <5>1, <5>2 DEF Waiting, DomainOf, Holds
        <5> QED BY <5>1, <5>3
      <4>2. CASE ~Taken(n)
        <5>1. /\ n = unread[1].ask /\ unread[1].kind # "query"
              /\ ~Waiting(DomainOf(n))'
          BY <1>3, <2>1, <4>2
        <5>2. unread[k + 1].kind = "forward"
          BY <3>1, <5>1 DEF Inv, Files, Stream
        <5> QED BY <5>1, <5>2
      <4> QED BY <4>1, <4>2
    <3>4. unread'[1] = unread[2] /\ unread[2].ask = unread[1].ask /\ unread[2].kind # "query"
      BY <1>1, <1>4, <3>1, <3>2, <3>3, SecondLine
    <3> QED BY <3>1, <3>3, <3>4
  <2>2. ASSUME NEW k \in DOMAIN next', NEW n, n = next'[k].ask, Taken(n)' PROVE FALSE
    <3>1. ~Taken(n)
      BY <1>1, <2>2 DEF Inv, TakenBefore
    <3>2. n = unread[1].ask
      BY <1>3, <2>2, <3>1
    <3>3. unread[1].ask < next[k].ask /\ unread[1].ask \in Nat
      BY <1>1, <2>2, FirstLine, BoundsAssumption DEF Inv, Files
    <3> QED BY <1>1, <2>2, <3>2, <3>3
  <2> QED BY <2>1, <2>2 DEF TakenBefore
<1>9. HeldAtAnswer'
  <2> SUFFICES ASSUME unread' # <<>>, unread'[1].kind # "query",
                      NEW n, n = unread'[1].ask, FromClient(n)', ~Taken(n)'
               PROVE  \E m \in DOMAIN pending' : pending'[m] = n
    BY DEF HeldAtAnswer, Holds
  <2>1. /\ 2 \in DOMAIN unread /\ unread'[1] = unread[2]
        /\ unread[2].kind # "query" /\ n = unread[1].ask
        /\ unread[1].kind # "query" => unread[1].kind = "forward"
    BY <1>1, <1>4, SecondLine
  <2>2. FromClient(unread[1].ask)
    BY <1>1, <2>1 DEF FromClient
  <2>3. ~Taken(unread[1].ask) /\ ~In(inserting', unread[1].ask)
    BY <1>3, <2>1 DEF Taken, In
  <2>4. unread[1].kind = "query"
    BY <1>2, <2>1, <2>2, <2>3 DEF Branch
  <2> QED BY <1>2, <2>1, <2>2, <2>4 DEF Branch
<1>10. Room'
  <2> SUFFICES ASSUME Len(pending') > Limit
               PROVE  /\ unread' # <<>> /\ unread'[1].kind # "query"
                      /\ \E m \in DOMAIN pending' : pending'[m] = unread'[1].ask
    BY DEF Room, Holds
  <2>1. /\ unread[1].kind = "query"
        /\ \E m \in DOMAIN pending' : pending'[m] = unread[1].ask
    BY <1>2 DEF Branch
  <2>2. 2 \in DOMAIN unread
    <3>1. 1 \in DOMAIN unread /\ 1 + 1 = 2
      BY <1>1, FirstLine
    <3> QED BY <2>1, <3>1 DEF Inv, Files, Stream
  <2>3. unread[2].kind # "query" /\ unread[2].ask = unread[1].ask
    BY <1>1, <2>1, <2>2, SecondLine
  <2>4. 1 \in DOMAIN unread' /\ unread' # <<>>
    <3>1. 2 - 1 \in DOMAIN unread' /\ 2 - 1 = 1
      BY <1>4, <2>2
    <3> QED BY <3>1
  <2>5. unread'[1] = unread[2]
    BY <1>4, <2>4
  <2> QED BY <2>1, <2>3, <2>4, <2>5
<1>11. Unrotated'
  <2> SUFFICES ASSUME rotations' = 0
               PROVE  /\ ~rotated' /\ writes' = "here" /\ next' = <<>>
                      /\ \A n \in DOMAIN asks' :
                           (FromClient(n) /\ asks[n].answer # "cached")' =>
                             \/ Taken(n)'
                             \/ \E k \in DOMAIN unread' :
                                  unread'[k].ask = n /\ unread'[k].kind # "query"
    BY DEF Unrotated
  <2>1. /\ ~rotated /\ writes = "here" /\ next = <<>>
        /\ \A n \in DOMAIN asks : FromClient(n) /\ asks[n].answer # "cached" =>
             \/ Taken(n)
             \/ \E k \in DOMAIN unread : unread[k].ask = n /\ unread[k].kind # "query"
    BY <1>1 DEF Inv, Unrotated
  <2>2. ASSUME NEW n \in DOMAIN asks, FromClient(n), asks[n].answer # "cached",
               NEW k \in DOMAIN unread, unread[k].ask = n, unread[k].kind # "query"
        PROVE  \/ Taken(n)'
               \/ \E j \in DOMAIN unread' : unread'[j].ask = n /\ unread'[j].kind # "query"
    <3>1. CASE k = 1
      <4>1. unread[1].kind # "cached"
        BY <1>1, <2>2, <3>1, FirstLine
      <4>2. Taken(n) \/ In(inserting', n)
        BY <1>2, <2>2, <3>1, <4>1 DEF Branch
      <4>3. In(inserting', n) => Taken(n)'
        BY DEF Taken, In
      <4> QED BY <1>3, <4>2, <4>3
    <3>2. CASE k > 1
      BY <1>4, <2>2, <3>2
    <3>3. k = 1 \/ k > 1
      BY LinesTyped DEF Inv, TypeOK
    <3> QED BY <3>1, <3>2, <3>3
  <2> QED BY <1>1, <1>3, <2>1, <2>2 DEF FromClient
<1> QED BY <1>3, <1>5, <1>6, <1>7, <1>8, <1>9, <1>10, <1>11 DEF Inv

(***************************************************************************)
(* The other actions                                                       *)
(***************************************************************************)

\* Steps that touch no line, no query and no row.
LEMMA FilesStepKeeps ==
  ASSUME Inv, Rotate \/ Reopen \/ ReadEnd \/ UNCHANGED vars
  PROVE  Inv'
<1>1. UNCHANGED <<asks, unread, next, pending, inserting, rows, events>>
  BY DEF Rotate, Reopen, ReadEnd, vars
<1>2. /\ writes' \in {"here", "next", "gone"} /\ reader' \in {"read", "end"}
      /\ rotated' \in BOOLEAN /\ rotations' \in 0..Rotations
      /\ next # <<>> => writes' = "next"
      /\ reader' = "end" => AtQuery(unread)
      /\ rotations' = 0 => rotations = 0 /\ rotated' = rotated /\ writes' = writes
  <2>0. /\ writes \in {"here", "next", "gone"} /\ reader \in {"read", "end"}
        /\ rotated \in BOOLEAN /\ rotations \in 0..Rotations
        /\ next # <<>> => writes = "next"
        /\ reader = "end" => AtQuery(unread)
        /\ rotations = 0 => ~rotated /\ writes = "here"
    BY DEF Inv, TypeOK, Files, Unrotated
  <2>1. CASE Rotate
    <3>1. rotations' \in 0..Rotations /\ rotations' # 0
      BY <2>0, <2>1, BoundsAssumption DEF Rotate
    <3>2. /\ writes = "here" /\ writes' = writes /\ reader' = reader /\ rotated' = TRUE
      BY <2>1 DEF Rotate
    <3> QED BY <2>0, <3>1, <3>2
  <2>2. CASE Reopen
    BY <2>0, <2>2 DEF Reopen
  <2>3. CASE ReadEnd
    BY <2>0, <2>3 DEF ReadEnd, AtQuery
  <2>4. CASE UNCHANGED vars
    BY <2>0, <2>4 DEF vars
  <2> QED BY <2>1, <2>2, <2>3, <2>4
<1>3. TypeOK'
  BY <1>1, <1>2 DEF Inv, TypeOK, DomainOf
<1>4. Files'
  <2>1. Stream(unread, asks)' /\ Stream(next, asks)' /\ AtQuery(next)'
    BY <1>1 DEF Inv, Files, Stream, AtQuery
  <2> QED BY <1>1, <1>2, <2>1 DEF Inv, Files, AtQuery
<1>5. Dict(pending)' /\ RowsRight'
  BY <1>1 DEF Inv, Dict, RowsRight, Right, FromClient, DomainOf
<1>6. TakenBefore' /\ HeldAtAnswer' /\ Room'
  BY <1>1 DEF Inv, TakenBefore, HeldAtAnswer, Room, Taken, In, Holds, Waiting, DomainOf,
     FromClient
<1>7. Unrotated'
  BY <1>1, <1>2 DEF Inv, Unrotated, Taken, In, FromClient
<1> QED BY <1>3, <1>4, <1>5, <1>6, <1>7 DEF Inv

\* The reader goes on at the file that is at LOG_FILE.
LEMMA WakeKeeps ==
  ASSUME Inv, Wake
  PROVE  Inv'
<1>1. /\ UNCHANGED <<asks, pending, inserting, rows, events, rotations>>
      /\ reader = "end" /\ reader' = "read" /\ rotated' = FALSE /\ next' = <<>>
      /\ unread' = IF rotated THEN next ELSE unread
      /\ writes' = CASE ~rotated -> writes
                     [] writes = "next" -> "here"
                     [] OTHER -> "gone"
  BY DEF Wake
<1>2. AtQuery(unread) /\ AtQuery(next) /\ AtQuery(unread')
  BY <1>1 DEF Inv, Files
<1>3. /\ writes' \in {"here", "next", "gone"}
      /\ unread' \in Seq(Line) /\ Stream(unread', asks)
  BY <1>1 DEF Inv, TypeOK, Files
<1>4. TypeOK'
  <2>1. next' \in Seq(Line)
    BY <1>1
  <2> QED BY <1>1, <1>3, <2>1 DEF Inv, TypeOK, DomainOf
<1>5. Files'
  <2>1. Stream(unread, asks)' /\ Stream(next, asks)' /\ AtQuery(next)'
    BY <1>1, <1>3 DEF Stream, AtQuery
  <2> QED BY <1>1, <2>1 DEF Files
<1>6. Dict(pending)' /\ RowsRight'
  BY <1>1 DEF Inv, Dict, RowsRight, Right, FromClient, DomainOf
<1>7. TakenBefore'
  <2>1. CASE rotated
    BY <1>1, <2>1 DEF Inv, TakenBefore, Taken, In
  <2>2. CASE ~rotated
    BY <1>1, <2>2 DEF Inv, TakenBefore, Taken, In, Waiting, DomainOf
  <2> QED BY <2>1, <2>2
<1>8. HeldAtAnswer' /\ Room'
  <2>1. ~(Len(pending) > Limit)
    BY <1>2 DEF Inv, Room, AtQuery
  <2>2. unread' # <<>> => unread'[1].kind = "query"
    BY <1>2 DEF AtQuery
  <2> QED BY <1>1, <2>1, <2>2 DEF HeldAtAnswer, Room
<1>9. Unrotated'
  BY <1>1 DEF Inv, Unrotated, Taken, In, FromClient
<1> QED BY <1>4, <1>5, <1>6, <1>7, <1>8, <1>9 DEF Inv

\* A row goes from the event loop to the events, whether it was inserted or not.
LEMMA InsertKeeps ==
  ASSUME Inv, NEW n \in DOMAIN inserting, Insert(n) \/ InsertFail(n)
  PROVE  Inv'
<1> DEFINE row == inserting[n]
           I == RemoveAt(inserting, n)
           E == Append(events, row)
           L == Len(events)
<1>1. /\ UNCHANGED <<asks, unread, next, rotated, writes, reader, pending, rotations>>
      /\ inserting' = I /\ events' = E
      /\ rows' = rows \/ rows' = Append(rows, row)
  BY DEF Insert, InsertFail
<1>2. inserting \in Seq(Row) /\ events \in Seq(Row) /\ rows \in Seq(Row)
  BY DEF Inv, TypeOK
<1>3. row \in Row
  <2>1. n \in 1..Len(inserting)
    BY <1>2, LenProperties
  <2> QED BY <1>2, <2>1, ElementOfSeq
<1> HIDE DEF row
<1>4. /\ I \in Seq(Row)
      /\ \A k \in DOMAIN I : \E j \in DOMAIN inserting \ {n} :
           I[k] = inserting[j] /\ j = IF k < n THEN k ELSE k + 1
      /\ \A j \in DOMAIN inserting \ {n} : \E k \in DOMAIN I : I[k] = inserting[j]
      /\ DOMAIN I \subseteq Nat /\ n \in Nat
  <2>1. /\ I \in Seq(Row)
        /\ \A k \in DOMAIN I : \E j \in DOMAIN inserting \ {n} :
             I[k] = inserting[j] /\ j = IF k < n THEN k ELSE k + 1
        /\ \A j \in DOMAIN inserting \ {n} : \E k \in DOMAIN I : I[k] = inserting[j]
    BY <1>2, Removed
  <2> HIDE DEF I
  <2> QED BY <1>2, <2>1, LenProperties
<1>5. /\ E \in Seq(Row) /\ L \in Nat /\ DOMAIN events = 1..L /\ DOMAIN E = 1..(L + 1)
      /\ \A k \in DOMAIN events : E[k] = events[k]
      /\ E[L + 1] = row
  BY <1>2, <1>3, Appended
<1>6. rows' \in Seq(Row)
  BY <1>1, <1>2, <1>3, Appended
<1> HIDE DEF I, E, L
<1>7. \A k \in DOMAIN E : k \in DOMAIN events \/ k = L + 1
  BY <1>5
<1>8. DOMAIN events \subseteq DOMAIN E /\ L + 1 \in DOMAIN E
  BY <1>5
<1>9. /\ Right(inserting) /\ Right(events)
      /\ \A j \in DOMAIN inserting, k \in DOMAIN events : inserting[j].at # events[k].at
  BY DEF Inv, RowsRight
<1>10. \A a : Taken(a)' <=> Taken(a)
  <2> SUFFICES ASSUME NEW a PROVE Taken(a)' <=> Taken(a)
    OBVIOUS
  <2>1. In(E, a) <=> In(events, a) \/ row.at = a
    BY <1>5, <1>7, <1>8 DEF In
  <2>2. In(inserting, a) <=> In(I, a) \/ row.at = a
    BY <1>4 DEF In, row
  <2>3. Taken(a)' <=> In(I, a) \/ In(E, a)
    BY <1>1 DEF Taken, In
  <2> QED BY <2>1, <2>2, <2>3 DEF Taken
<1>11. RowsRight'
  <2>1. Right(I)
    <3>1. \A k \in DOMAIN I : /\ I[k].at <= Len(asks)
                              /\ FromClient(I[k].at) => I[k].from = I[k].at
      BY <1>4, <1>9 DEF Right
    <3>2. ASSUME NEW j \in DOMAIN I, NEW k \in DOMAIN I, I[j].at = I[k].at PROVE j = k
      <4>1. PICK x \in DOMAIN inserting \ {n} :
              I[j] = inserting[x] /\ x = IF j < n THEN j ELSE j + 1
        BY <1>4
      <4>2. PICK y \in DOMAIN inserting \ {n} :
              I[k] = inserting[y] /\ y = IF k < n THEN k ELSE k + 1
        BY <1>4
      <4>3. x = y
        BY <1>9, <3>2, <4>1, <4>2 DEF Right
      <4>4. j \in Nat /\ k \in Nat /\ n \in Nat
        BY <1>4
      <4> QED BY <4>1, <4>2, <4>3, <4>4
    <3> QED BY <3>1, <3>2 DEF Right
  <2>2. Right(E)
    <3>1. row.at <= Len(asks) /\ (FromClient(row.at) => row.from = row.at)
      BY <1>9 DEF Right, row
    <3>2. \A k \in DOMAIN events : events[k].at # row.at
      BY <1>9 DEF row
    <3>3. \A k \in DOMAIN E : /\ E[k].at <= Len(asks)
                              /\ FromClient(E[k].at) => E[k].from = E[k].at
      BY <1>5, <1>7, <1>9, <3>1 DEF Right
    <3>4. \A j, k \in DOMAIN E : E[j].at = E[k].at => j = k
      BY <1>5, <1>7, <1>9, <3>2 DEF Right
    <3> QED BY <3>3, <3>4 DEF Right
  <2>3. \A j \in DOMAIN I, k \in DOMAIN E : I[j].at # E[k].at
    <3> SUFFICES ASSUME NEW j \in DOMAIN I, NEW k \in DOMAIN E PROVE I[j].at # E[k].at
      OBVIOUS
    <3>1. PICK x \in DOMAIN inserting \ {n} : I[j] = inserting[x]
      BY <1>4
    <3>2. inserting[x].at # row.at
      BY <1>9 DEF Right, row
    <3> QED BY <1>5, <1>7, <1>9, <3>1, <3>2
  <2> QED BY <1>1, <2>1, <2>2, <2>3 DEF RowsRight, Right, FromClient
<1>12. TypeOK'
  BY <1>1, <1>4, <1>5, <1>6 DEF Inv, TypeOK, DomainOf
<1>13. Files' /\ Dict(pending)'
  <2>1. Stream(unread, asks)' /\ Stream(next, asks)' /\ AtQuery(next)'
    BY <1>1 DEF Inv, Files, Stream, AtQuery
  <2> QED BY <1>1, <2>1 DEF Inv, Files, Dict, FromClient, DomainOf, AtQuery
<1>14. TakenBefore'
  <2>1. \A a : Waiting(a)' <=> Waiting(a)
    BY <1>1 DEF Waiting, DomainOf
  <2> QED BY <1>1, <1>10, <2>1 DEF Inv, TakenBefore, DomainOf
<1>15. HeldAtAnswer' /\ Room'
  BY <1>1, <1>10 DEF Inv, HeldAtAnswer, Room, Holds, FromClient
<1>16. Unrotated'
  BY <1>1, <1>10 DEF Inv, Unrotated, FromClient
<1> QED BY <1>11, <1>12, <1>13, <1>14, <1>15, <1>16 DEF Inv

\* A query is asked and answered: its lines come behind all others, if the reader
\* is to find them, and no row was made of them yet.
LEMMA QueryKeeps ==
  ASSUME Inv, NEW domain \in Domains, NEW client \in Askers, NEW answer \in Answers,
         Query(domain, client, answer)
  PROVE  Inv'
<1> DEFINE ask == [domain |-> domain, client |-> client, answer |-> answer]
           last == Len(asks) + 1
<1>1. /\ Len(asks) < MaxAsks /\ asks' = Append(asks, ask)
      /\ UNCHANGED <<rotated, writes, reader, pending, inserting, rows, events, rotations>>
  BY DEF Query
<1>2. ask \in Ask /\ ask.answer = answer /\ asks \in Seq(Ask)
  BY AskersAssumption, AnswersAssumption DEF Ask, Inv, TypeOK
<1> HIDE DEF ask
<1>3. /\ asks' \in Seq(Ask) /\ Len(asks') = last /\ Len(asks) \in Nat /\ last \in Nat
      /\ DOMAIN asks = 1..Len(asks) /\ DOMAIN asks' = 1..last
      /\ \A n \in DOMAIN asks : asks'[n] = asks[n]
      /\ asks'[last] = ask
  BY <1>1, <1>2, Appended
<1>4. PICK lines \in Lines(last, answer) :
        /\ unread' = IF writes = "here" THEN unread \o lines ELSE unread
        /\ next' = IF writes = "next" THEN next \o lines ELSE next
  BY <1>3 DEF Query
<1> HIDE DEF last
<1>5. \A n \in DOMAIN asks : /\ DomainOf(n)' = DomainOf(n)
                             /\ FromClient(n)' = FromClient(n)
  BY <1>3 DEF DomainOf, FromClient
<1>6. lines[1].kind = "query" /\ 1 \in DOMAIN lines
  <2>1. last \in 1..MaxAsks /\ answer \in {"block", "forward", "cached"}
    BY <1>1, <1>3, BoundsAssumption, AnswersAssumption DEF last
  <2> QED BY <2>1, LinesOf
\* What comes behind a file that the reader reads or will read.
<1>7. ASSUME NEW file \in Seq(Line), Stream(file, asks)
      PROVE  /\ Stream(file, asks') /\ file \o lines \in Seq(Line)
             /\ Stream(file \o lines, asks')
             /\ file \o lines # <<>>
             /\ (file \o lines)[1] = IF file = <<>> THEN lines[1] ELSE file[1]
             /\ \A k \in DOMAIN file :
                  k \in DOMAIN (file \o lines) /\ (file \o lines)[k] = file[k]
             /\ \A k \in DOMAIN (file \o lines) \ DOMAIN file : (file \o lines)[k].ask = last
             /\ \E k \in DOMAIN (file \o lines) :
                  (file \o lines)[k].ask = last /\ (file \o lines)[k].kind = answer
  <2>1. lines \in Lines(Len(asks) + 1, ask.answer)
    BY <1>2, <1>4 DEF last
  <2>2. Stream(file, Append(asks, ask))
    BY <1>2, <1>7, StreamStays
  <2>3. /\ file \o lines \in Seq(Line) /\ file \o lines # <<>>
        /\ Stream(file \o lines, Append(asks, ask))
        /\ (file \o lines)[1] = IF file = <<>> THEN lines[1] ELSE file[1]
        /\ \A k \in DOMAIN file :
             k \in DOMAIN (file \o lines) /\ (file \o lines)[k] = file[k]
        /\ \A k \in DOMAIN (file \o lines) \ DOMAIN file :
             (file \o lines)[k].ask = Len(asks) + 1
        /\ \E k \in DOMAIN (file \o lines) :
             /\ (file \o lines)[k].ask = Len(asks) + 1
             /\ (file \o lines)[k].kind = ask.answer
    BY <1>1, <1>2, <1>7, <2>1, StreamGrows
  <2> QED BY <1>1, <1>2, <2>2, <2>3 DEF last
<1>8. unread \in Seq(Line) /\ Stream(unread, asks) /\ next \in Seq(Line) /\ Stream(next, asks)
  BY DEF Inv, TypeOK, Files
\* Old lines are where they were, new ones are of the new query.
<1>9. /\ unread' \in Seq(Line) /\ Stream(unread', asks')
      /\ \A k \in DOMAIN unread : k \in DOMAIN unread' /\ unread'[k] = unread[k]
      /\ \A k \in DOMAIN unread' \ DOMAIN unread : unread'[k].ask = last
      /\ unread' # <<>> /\ unread = <<>> => unread'[1].kind = "query"
      /\ unread # <<>> => unread' # <<>> /\ unread'[1] = unread[1]
      /\ writes = "here" =>
           \E k \in DOMAIN unread' : unread'[k].ask = last /\ unread'[k].kind = answer
  <2>1. CASE writes = "here"
    <3>1. unread' = unread \o lines
      BY <1>4, <2>1
    <3> QED BY <1>6, <1>7, <1>8, <3>1
  <2>2. CASE writes # "here"
    BY <1>4, <1>7, <1>8, <2>2
  <2> QED BY <2>1, <2>2
<1>10. /\ next' \in Seq(Line) /\ Stream(next', asks')
       /\ \A k \in DOMAIN next : k \in DOMAIN next' /\ next'[k] = next[k]
       /\ \A k \in DOMAIN next' \ DOMAIN next : next'[k].ask = last
       /\ next' # <<>> /\ next = <<>> => next'[1].kind = "query"
       /\ next # <<>> => next'[1] = next[1]
       /\ writes # "next" => next' = next
  <2>1. CASE writes = "next"
    <3>1. next' = next \o lines
      BY <1>4, <2>1
    <3> QED BY <1>6, <1>7, <1>8, <2>1, <3>1
  <2>2. CASE writes # "next"
    BY <1>4, <1>7, <1>8, <2>2
  <2> QED BY <2>1, <2>2
<1>11. /\ \A k \in DOMAIN unread : unread[k].ask \in DOMAIN asks
       /\ \A k \in DOMAIN next : next[k].ask \in DOMAIN asks
       /\ \A m \in DOMAIN pending : pending[m] \in DOMAIN asks
       /\ \A k \in DOMAIN inserting : inserting[k].at \in DOMAIN asks
       /\ \A k \in DOMAIN events : events[k].at \in DOMAIN asks
       /\ \A n \in DOMAIN asks : n < last /\ n # last
  <2>1. ASSUME NEW file \in Seq(Line), Stream(file, asks)
        PROVE  \A k \in DOMAIN file : file[k].ask \in DOMAIN asks
    <3>1. \A k \in DOMAIN file : file[k].ask \in Nat \ {0} /\ file[k].ask <= Len(asks)
      BY <2>1, LinesTyped DEF Stream
    <3> QED BY <1>3, <3>1
  <2>2. ASSUME NEW seq \in Seq(Row), Right(seq)
        PROVE  \A k \in DOMAIN seq : seq[k].at \in DOMAIN asks
    <3>1. \A k \in DOMAIN seq : seq[k] \in Row
      BY LenProperties, ElementOfSeq
    <3>2. \A k \in DOMAIN seq : seq[k].at \in Nat \ {0} /\ seq[k].at <= Len(asks)
      BY <2>2, <3>1, BoundsAssumption DEF Row, Right
    <3> QED BY <1>3, <3>2
  <2>3. \A n \in DOMAIN asks : n < last /\ n # last
    BY <1>3 DEF last
  <2>4. \A m \in DOMAIN pending : pending[m] \in DOMAIN asks
    BY <1>1, <1>2, <1>3, PendingTyped, BoundsAssumption DEF Inv
  <2> QED BY <1>8, <2>1, <2>2, <2>3, <2>4 DEF Inv, RowsRight, TypeOK
<1>12. \A a : Taken(a)' <=> Taken(a)
  BY <1>1 DEF Taken, In
<1>13. ~Taken(last)
  BY <1>11 DEF Taken, In
<1>14. \A a \in DOMAIN asks : Waiting(DomainOf(a))' <=> Waiting(DomainOf(a))
  BY <1>1, <1>5, <1>11 DEF Waiting
<1>15. TypeOK'
  <2>1. \A m, n \in DOMAIN pending : DomainOf(pending[m])' = DomainOf(pending[n])' => m = n
    BY <1>1, <1>3, <1>11 DEF Inv, Dict, DomainOf
  <2> QED BY <1>1, <1>3, <1>9, <1>10, <2>1 DEF Inv, TypeOK, DomainOf
<1>16. Files'
  <2>1. Stream(unread, asks)' /\ Stream(next, asks)'
    BY <1>9, <1>10 DEF Stream
  <2>2. AtQuery(next)' /\ (reader' = "end" => AtQuery(unread)')
    BY <1>1, <1>9, <1>10 DEF Inv, Files, AtQuery
  <2>3. next' # <<>> => writes' = "next"
    BY <1>1, <1>10 DEF Inv, Files
  <2>4. ASSUME NEW j \in DOMAIN unread', NEW k \in DOMAIN next'
        PROVE  unread'[j].ask < next'[k].ask
    <3>1. writes = "next" /\ unread' = unread
      BY <1>4, <2>3, <2>4, <1>1
    <3>2. CASE k \in DOMAIN next
      BY <1>10, <3>1, <3>2 DEF Inv, Files
    <3>3. CASE k \notin DOMAIN next
      <4>1. next'[k].ask = last /\ unread'[j].ask \in DOMAIN asks
        BY <1>10, <1>11, <3>1, <3>3
      <4> QED BY <1>11, <4>1
    <3> QED BY <3>2, <3>3
  <2> QED BY <2>1, <2>2, <2>3, <2>4 DEF Files
<1>17. Dict(pending)'
  <2>1. \A m \in DOMAIN pending : pending[m] <= Len(asks)' /\ FromClient(pending[m])'
    BY <1>1, <1>3, <1>11 DEF Inv, Dict, FromClient, last
  <2>2. \A m, n \in DOMAIN pending : DomainOf(pending[m])' = DomainOf(pending[n])' => m = n
    BY <1>1, <1>3, <1>11 DEF Inv, Dict, DomainOf
  <2> QED BY <1>1, <2>1, <2>2 DEF Inv, Dict, FromClient, DomainOf
<1>18. RowsRight'
  <2>1. ASSUME NEW seq, Right(seq), \A k \in DOMAIN seq : seq[k].at \in DOMAIN asks
        PROVE  Right(seq)'
    <3>1. \A k \in DOMAIN seq : seq[k].at <= Len(asks)'
      BY <1>3, <2>1 DEF last
    <3>2. \A k \in DOMAIN seq : FromClient(seq[k].at)' => seq[k].from = seq[k].at
      BY <1>3, <2>1 DEF Right, FromClient
    <3> QED BY <2>1, <3>1, <3>2 DEF Right
  <2> QED BY <1>1, <1>11, <2>1 DEF Inv, RowsRight, Right, FromClient
<1>19. TakenBefore'
  <2>1. ASSUME NEW k \in DOMAIN unread', NEW n, n = unread'[k].ask, Taken(n)
        PROVE  /\ unread'[k].kind = "forward"
               /\ unread'[1].kind # "query" /\ unread'[1].ask = n
               /\ ~Waiting(DomainOf(n))'
    <3>1. k \in DOMAIN unread
      BY <1>9, <1>13, <2>1
    <3>2. unread'[k] = unread[k] /\ unread'[1] = unread[1] /\ n = unread[k].ask
      BY <1>9, <2>1, <3>1
    <3>3. /\ unread[k].kind = "forward"
          /\ unread[1].kind # "query" /\ unread[1].ask = n
          /\ ~Waiting(DomainOf(n)) /\ n \in DOMAIN asks
      BY <1>11, <2>1, <3>1, <3>2 DEF Inv, TakenBefore
    <3> QED BY <1>14, <3>2, <3>3
  <2>2. \A k \in DOMAIN next' : ~Taken(next'[k].ask)
    BY <1>10, <1>13 DEF Inv, TakenBefore
  <2> QED BY <1>12, <2>1, <2>2 DEF TakenBefore
<1>20. HeldAtAnswer'
  <2> SUFFICES ASSUME unread' # <<>>, unread'[1].kind # "query",
                      NEW n, n = unread'[1].ask, FromClient(n)', ~Taken(n)'
               PROVE  \E m \in DOMAIN pending' : pending'[m] = n
    BY DEF HeldAtAnswer, Holds
  <2>1. unread # <<>> /\ unread'[1] = unread[1]
    BY <1>9
  <2>2. n \in DOMAIN asks
    BY <2>1, <1>11, FirstLine
  <2> QED BY <1>1, <1>5, <1>12, <2>1, <2>2 DEF Inv, HeldAtAnswer, Holds
<1>21. Room'
  BY <1>1, <1>9 DEF Inv, Room, Holds
<1>22. Unrotated'
  <2> SUFFICES ASSUME rotations' = 0
               PROVE  /\ ~rotated' /\ writes' = "here" /\ next' = <<>>
                      /\ \A n \in DOMAIN asks' :
                           (FromClient(n) /\ asks[n].answer # "cached")' =>
                             \/ Taken(n)'
                             \/ \E k \in DOMAIN unread' :
                                  unread'[k].ask = n /\ unread'[k].kind # "query"
    BY DEF Unrotated
  <2>1. /\ ~rotated /\ writes = "here" /\ next = <<>>
        /\ \A n \in DOMAIN asks : FromClient(n) /\ asks[n].answer # "cached" =>
             \/ Taken(n)
             \/ \E k \in DOMAIN unread : unread[k].ask = n /\ unread[k].kind # "query"
    BY <1>1 DEF Inv, Unrotated
  <2>2. next' = <<>>
    BY <1>10, <2>1
  <2>3. ASSUME NEW n \in DOMAIN asks, FromClient(n), asks[n].answer # "cached"
        PROVE  \/ Taken(n)
               \/ \E k \in DOMAIN unread' : unread'[k].ask = n /\ unread'[k].kind # "query"
    BY <1>9, <2>1, <2>3
  <2>4. \E k \in DOMAIN unread' : unread'[k].ask = last /\ unread'[k].kind # "query"
    BY <1>9, <2>1, AnswersAssumption
  <2>5. \A n \in DOMAIN asks' : n \in DOMAIN asks \/ n = last
    BY <1>3 DEF last
  <2> QED BY <1>1, <1>3, <1>12, <2>1, <2>2, <2>3, <2>4, <2>5 DEF FromClient
<1> QED BY <1>15, <1>16, <1>17, <1>18, <1>19, <1>20, <1>21, <1>22 DEF Inv

-------------------------------------------------------------------------------
LEMMA Initially == Init => Inv
<1> SUFFICES ASSUME Init PROVE Inv
  OBVIOUS
<1>1. TypeOK
  <2>1. /\ <<>> \in Seq(Ask) /\ <<>> \in Seq(Line) /\ <<>> \in Seq(Row)
        /\ <<>> \in Seq(1..MaxAsks) /\ Len(<<>>) = 0
    OBVIOUS
  <2>2. 0 <= Limit + 1 /\ 0 \in 0..Rotations
    BY LimitAssumption, BoundsAssumption
  <2>3. /\ asks = <<>> /\ unread = <<>> /\ next = <<>> /\ pending = <<>>
        /\ inserting = <<>> /\ rows = <<>> /\ events = <<>>
        /\ rotated \in BOOLEAN /\ writes \in {"here", "next", "gone"}
        /\ reader \in {"read", "end"} /\ rotations = 0
    BY DEF Init
  <2>4. \A m, n \in DOMAIN pending :
          DomainOf(pending[m]) = DomainOf(pending[n]) => m = n
    BY <2>3
  <2> QED BY <2>1, <2>2, <2>3, <2>4 DEF TypeOK
<1>2. /\ DOMAIN unread = {} /\ DOMAIN next = {} /\ DOMAIN pending = {}
      /\ DOMAIN inserting = {} /\ DOMAIN events = {} /\ DOMAIN asks = {}
      /\ unread = <<>> /\ next = <<>> /\ ~(Len(pending) > Limit)
  BY LimitAssumption DEF Init
<1>3. Files
  BY <1>2 DEF Init, Files, Stream, AtQuery
<1>4. Dict(pending) /\ RowsRight
  BY <1>1, <1>2 DEF TypeOK, Dict, RowsRight, Right
<1>5. TakenBefore /\ HeldAtAnswer /\ Room /\ Unrotated
  BY <1>2 DEF Init, TakenBefore, HeldAtAnswer, Room, Unrotated
<1> QED BY <1>1, <1>3, <1>4, <1>5 DEF Inv

LEMMA InvInductive == Spec => []Inv
<1>1. Inv /\ [Next]_vars => Inv'
  BY QueryKeeps, FilesStepKeeps, ReadLineKeeps, WakeKeeps, InsertKeeps DEF Next
<1> QED BY <1>1, Initially, PTL DEF Spec

(***************************************************************************)
(* The theorems                                                            *)
(***************************************************************************)

\* The state keeps its types: the dict has one query of a domain and is at most one
\* beyond its limit, although a query line does not check the limit (_tail_log).
THEOREM TypeCorrect == Spec => []TypeOK
<1>1. Inv => TypeOK
  BY DEF Inv
<1> QED BY <1>1, InvInductive, PTL

\* A row names the client of the query that was answered, although the reader finds
\* it by the domain alone, keeps what was answered from the cache, evicts, and loses
\* lines to a rotation.
THEOREM RowsAreAttributed == Spec => []Attributed
<1>1. Inv => Attributed
  BY DEF Inv, RowsRight, Right, Attributed
<1> QED BY <1>1, InvInductive, PTL

\* A query is published once, although it may be forwarded twice and its rows are
\* inserted in any order.
THEOREM RowsComeOnce == Spec => []OnceEach
<1>1. Inv => OnceEach
  BY DEF Inv, RowsRight, Right, OnceEach
<1> QED BY <1>1, InvInductive, PTL

\* Every query of a client that was blocked or forwarded is published once all is
\* read, for any limit of the dict, as long as the log is not rotated.
THEOREM NoQueryIsMissed == Spec => []NothingMissed
<1>1. Inv => NothingMissed
  <2> SUFFICES ASSUME Inv, Quiet, rotations = 0,
                      NEW n \in DOMAIN asks, FromClient(n), asks[n].answer # "cached"
               PROVE  Published(n)
    BY DEF NothingMissed
  <2>1. Taken(n)
    BY DEF Inv, Unrotated, Quiet
  <2> QED BY <2>1 DEF Taken, In, Quiet, Published
<1> QED BY <1>1, InvInductive, PTL

(***************************************************************************)
(* The event bus                                                           *)
(***************************************************************************)

Message == [sub : Subs, event : Events]

\* The subscribers are the streams that have not ended, each once.
Subscribed ==
  \A s \in Subs : stream[s] \in {"open", "leaving"} <=>
                    \E n \in DOMAIN subscribers : subscribers[n] = s

\* Nothing is sent to a stream before it subscribes.
NothingEarly ==
  \A s \in Subs : stream[s] = "new" =>
    /\ got[s] = <<>> /\ queue[s] = <<>>
    /\ \A n \in DOMAIN Coming : Coming[n].sub # s

\* Only what was published comes or is lost.
OnlyPublished ==
  /\ todo # <<>> => published > 0
  /\ \A n \in DOMAIN Coming : Coming[n].event <= published
  /\ \A s \in Subs : lost[s] \subseteq 1..published /\ since[s] <= published
  /\ \A s \in Subs : stream[s] = "new" => lost[s] = {}

BusInv == BusTypeOK /\ Subscribed /\ NothingEarly /\ OnlyPublished /\ Accounted

-------------------------------------------------------------------------------
\* The messages for the streams in td of event p, after those in rd.
Messages(rd, td, p) == rd \o [n \in DOMAIN td |-> [sub |-> td[n], event |-> p]]

\* What may be in the loop, in the thread, and its event.
MayCome(rd, td, p) ==
  /\ rd \in Seq(Message) /\ td \in Seq(Subs) /\ p \in Nat
  /\ td # <<>> => p \in Events

LEMMA MessagesAt ==
  ASSUME NEW rd, NEW td, NEW p, MayCome(rd, td, p)
  PROVE  /\ Messages(rd, td, p) \in Seq(Message)
         /\ Len(rd) \in Nat /\ Len(td) \in Nat
         /\ DOMAIN rd = 1..Len(rd) /\ DOMAIN td = 1..Len(td)
         /\ DOMAIN Messages(rd, td, p) = 1..(Len(rd) + Len(td))
         /\ \A n \in 1..Len(rd) : Messages(rd, td, p)[n] = rd[n]
         /\ \A n \in 1..Len(td) :
              Messages(rd, td, p)[Len(rd) + n] = [sub |-> td[n], event |-> p]
<1> DEFINE ms == [n \in DOMAIN td |-> [sub |-> td[n], event |-> p]]
<1>0. rd \in Seq(Message) /\ td \in Seq(Subs) /\ p \in Nat /\ (td # <<>> => p \in Events)
  BY DEF MayCome
<1>1. Len(rd) \in Nat /\ Len(td) \in Nat /\ DOMAIN rd = 1..Len(rd) /\ DOMAIN td = 1..Len(td)
  BY <1>0
<1>2. \A n \in 1..Len(td) : td[n] \in Subs
  BY <1>0, ElementOfSeq
<1>3. ASSUME NEW n \in 1..Len(td) PROVE ms[n] \in Message
  <2>1. p \in Events
    <3>1. Len(td) # 0
      BY <1>1
    <3> QED BY <1>0, <3>1
  <2> QED BY <1>1, <1>2, <2>1 DEF Message
<1>4. ms \in Seq(Message) /\ Len(ms) = Len(td)
  BY <1>1, <1>3
<1>6. \A n \in 1..Len(td) : ms[n] = [sub |-> td[n], event |-> p]
  BY <1>1
<1> HIDE DEF ms
<1>5. /\ rd \o ms \in Seq(Message) /\ Len(rd \o ms) = Len(rd) + Len(td)
      /\ \A n \in 1..(Len(rd) + Len(td)) :
           (rd \o ms)[n] = IF n <= Len(rd) THEN rd[n] ELSE ms[n - Len(rd)]
  <2>1. rd \in Seq(Message) /\ ms \in Seq(Message)
    BY <1>0, <1>4
  <2>2. /\ rd \o ms \in Seq(Message) /\ Len(rd \o ms) = Len(rd) + Len(ms)
        /\ \A n \in 1..(Len(rd) + Len(ms)) :
             (rd \o ms)[n] = IF n <= Len(rd) THEN rd[n] ELSE ms[n - Len(rd)]
    BY <2>1, ConcatProperties
  <2> QED BY <1>4, <2>2
<1>7. ASSUME NEW n \in 1..Len(td) PROVE (rd \o ms)[Len(rd) + n] = ms[n]
  <2>1. Len(rd) + n \in 1..(Len(rd) + Len(td)) /\ ~(Len(rd) + n <= Len(rd))
        /\ (Len(rd) + n) - Len(rd) = n
    BY <1>1
  <2> QED BY <1>5, <2>1
<1>8. DOMAIN (rd \o ms) = 1..(Len(rd) + Len(td))
  BY <1>5, LenProperties
<1>9. Messages(rd, td, p) = rd \o ms
  BY DEF Messages, ms
<1>10. \A n \in 1..Len(rd) : (rd \o ms)[n] = rd[n]
  BY <1>1, <1>5
<1> QED BY <1>1, <1>5, <1>6, <1>7, <1>8, <1>9, <1>10

LEMMA ComingIs == Coming = Messages(ready, todo, published)
BY DEF Coming, Messages

\* What is coming, of the state.
LEMMA ComingAt ==
  ASSUME BusInv
  PROVE  /\ Coming \in Seq(Message)
         /\ Len(ready) \in Nat /\ Len(todo) \in Nat
         /\ DOMAIN ready = 1..Len(ready) /\ DOMAIN todo = 1..Len(todo)
         /\ DOMAIN Coming = 1..(Len(ready) + Len(todo))
         /\ \A n \in 1..Len(ready) : Coming[n] = ready[n]
         /\ \A n \in 1..Len(todo) :
              Coming[Len(ready) + n] = [sub |-> todo[n], event |-> published]
<1>1. ready \in Seq(Message) /\ todo \in Seq(Subs) /\ published \in Nat
  BY MaxEventsAssumption DEF BusInv, BusTypeOK, Message
<1>2. todo # <<>> => published \in Events
  BY MaxEventsAssumption DEF BusInv, BusTypeOK, OnlyPublished, Events
<1>3. MayCome(ready, todo, published)
  BY <1>1, <1>2 DEF MayCome
<1> QED BY <1>3, ComingIs, MessagesAt

\* Posting a message moves it from the thread to the loop.
LEMMA PostedMessages ==
  ASSUME NEW rd \in Seq(Message), NEW td \in Seq(Subs), NEW p \in Events, td # <<>>
  PROVE  Messages(Append(rd, [sub |-> Head(td), event |-> p]), Tail(td), p)
           = Messages(rd, td, p)
<1> DEFINE m == [sub |-> Head(td), event |-> p]
           rd2 == Append(rd, m)
           td2 == Tail(td)
           a == Messages(rd2, td2, p)
           b == Messages(rd, td, p)
<1>0. p \in Nat
  BY MaxEventsAssumption DEF Events
<1>1. /\ td2 \in Seq(Subs) /\ Len(td2) = Len(td) - 1 /\ Len(td) \in Nat \ {0}
      /\ \A n \in 1..Len(td2) : td2[n] = td[n + 1]
      /\ Head(td) = td[1] /\ Head(td) \in Subs
  <2>1. Len(td) \in Nat /\ Len(td) # 0
    BY EmptySeq
  <2> QED BY <2>1, HeadTailProperties
<1>2. m \in Message
  BY <1>1 DEF Message
<1> HIDE DEF m
<1>3. /\ rd2 \in Seq(Message) /\ Len(rd2) = Len(rd) + 1 /\ Len(rd) \in Nat
      /\ \A n \in 1..Len(rd) : rd2[n] = rd[n]
      /\ rd2[Len(rd) + 1] = m
  BY <1>2
<1> HIDE DEF rd2, td2
<1>c. MayCome(rd2, td2, p) /\ MayCome(rd, td, p)
  BY <1>0, <1>1, <1>3 DEF MayCome
<1>4. /\ a \in Seq(Message) /\ DOMAIN a = 1..(Len(rd2) + Len(td2))
      /\ \A n \in 1..Len(rd2) : a[n] = rd2[n]
      /\ \A n \in 1..Len(td2) : a[Len(rd2) + n] = [sub |-> td2[n], event |-> p]
  BY <1>c, MessagesAt
<1>5. /\ b \in Seq(Message) /\ DOMAIN b = 1..(Len(rd) + Len(td))
      /\ \A n \in 1..Len(rd) : b[n] = rd[n]
      /\ \A n \in 1..Len(td) : b[Len(rd) + n] = [sub |-> td[n], event |-> p]
  BY <1>c, MessagesAt
<1> HIDE DEF a, b
<1>6. DOMAIN a = DOMAIN b
  BY <1>1, <1>3, <1>4, <1>5
<1>7. ASSUME NEW n \in DOMAIN a PROVE a[n] = b[n]
  <2>1. n \in 1..(Len(rd) + Len(td))
    BY <1>5, <1>6
  <2>2. CASE n <= Len(rd)
    <3>1. n \in 1..Len(rd) /\ n \in 1..Len(rd2)
      BY <1>3, <2>1, <2>2
    <3> QED BY <1>3, <1>4, <1>5, <3>1
  <2>3. CASE n = Len(rd) + 1
    <3>1. n \in 1..Len(rd2) /\ 1 \in 1..Len(td)
      BY <1>1, <1>3, <2>3
    <3>2. a[n] = m
      BY <1>3, <1>4, <2>3, <3>1
    <3>3. b[n] = [sub |-> td[1], event |-> p]
      BY <1>5, <2>3, <3>1
    <3> QED BY <1>1, <3>2, <3>3 DEF m
  <2>4. CASE n > Len(rd) + 1
    <3> DEFINE k == n - (Len(rd) + 1)
    <3>1. k \in 1..Len(td2) /\ n = Len(rd2) + k /\ k + 1 \in 1..Len(td) /\ n = Len(rd) + (k + 1)
      BY <1>1, <1>3, <2>1, <2>4
    <3> HIDE DEF k
    <3>2. a[n] = [sub |-> td2[k], event |-> p]
      BY <1>4, <3>1
    <3>3. b[n] = [sub |-> td[k + 1], event |-> p]
      BY <1>5, <3>1
    <3> QED BY <1>1, <3>1, <3>2, <3>3
  <2> QED BY <1>3, <2>1, <2>2, <2>3, <2>4
<1>8. a = b
  BY <1>4, <1>5, <1>6, <1>7
<1> QED BY <1>8 DEF a, b, rd2, td2, m

\* The callback that runs takes the first message.
LEMMA TakenMessages ==
  ASSUME NEW rd, NEW td, NEW p, MayCome(rd, td, p), rd # <<>>
  PROVE  /\ DOMAIN Messages(Tail(rd), td, p) = 1..(Len(rd) - 1 + Len(td))
         /\ \A n \in 1..(Len(rd) - 1 + Len(td)) :
              Messages(Tail(rd), td, p)[n] = Messages(rd, td, p)[n + 1]
<1> DEFINE rd2 == Tail(rd)
           a == Messages(rd2, td, p)
           b == Messages(rd, td, p)
<1>1. /\ rd2 \in Seq(Message) /\ Len(rd2) = Len(rd) - 1 /\ Len(rd) \in Nat \ {0}
      /\ \A n \in 1..Len(rd2) : rd2[n] = rd[n + 1]
  <2>1. rd \in Seq(Message) /\ Len(rd) \in Nat /\ Len(rd) # 0
    BY EmptySeq DEF MayCome
  <2> QED BY <2>1, HeadTailProperties
<1> HIDE DEF rd2
<1>0. MayCome(rd2, td, p)
  BY <1>1 DEF MayCome
<1>2. /\ DOMAIN a = 1..(Len(rd2) + Len(td)) /\ Len(td) \in Nat
      /\ \A n \in 1..Len(rd2) : a[n] = rd2[n]
      /\ \A n \in 1..Len(td) : a[Len(rd2) + n] = [sub |-> td[n], event |-> p]
  BY <1>0, MessagesAt
<1>3. /\ \A n \in 1..Len(rd) : b[n] = rd[n]
      /\ \A n \in 1..Len(td) : b[Len(rd) + n] = [sub |-> td[n], event |-> p]
  BY MessagesAt
<1> HIDE DEF a, b
<1>4. ASSUME NEW n \in 1..(Len(rd) - 1 + Len(td)) PROVE a[n] = b[n + 1]
  <2>1. CASE n <= Len(rd2)
    <3>1. n \in 1..Len(rd2) /\ n + 1 \in 1..Len(rd)
      BY <1>1, <2>1
    <3> QED BY <1>1, <1>2, <1>3, <3>1
  <2>2. CASE n > Len(rd2)
    <3> DEFINE k == n - Len(rd2)
    <3>1. k \in 1..Len(td) /\ n = Len(rd2) + k /\ n + 1 = Len(rd) + k
      BY <1>1, <1>2, <2>2
    <3> HIDE DEF k
    <3>2. a[n] = [sub |-> td[k], event |-> p]
      BY <1>2, <3>1
    <3>3. b[n + 1] = [sub |-> td[k], event |-> p]
      BY <1>3, <3>1
    <3> QED BY <3>2, <3>3
  <2> QED BY <1>1, <2>1, <2>2
<1> QED BY <1>1, <1>2, <1>4 DEF a, b, rd2

-------------------------------------------------------------------------------
\* Accounted of one stream, with the events it holds, the messages that are
\* coming, and the events that were published from "from" on but for those gone.
Way(cm, s) == {e \in Events : \E n \in DOMAIN cm : cm[n].sub = s /\ cm[n].event = e}

AccountedFor(held, cm, s, from, upto, gone) ==
  /\ \A m, n \in DOMAIN held : m < n => held[m] < held[n]
  /\ \A m \in DOMAIN held, e \in Way(cm, s) : held[m] < e
  /\ \A m, n \in DOMAIN cm :
       m < n /\ cm[m].sub = s /\ cm[n].sub = s => cm[m].event < cm[n].event
  /\ ToSet(held) \cup Way(cm, s) = ((from + 1)..upto) \ gone

LEMMA AccountedIs ==
  Accounted <=> \A s \in Subs : stream[s] = "open" =>
                  AccountedFor(Held(s), Coming, s, since[s], published, lost[s])
BY DEF Accounted, AccountedFor, OnTheWay, Way

\* A message to another stream comes.
LEMMA OtherArrives ==
  ASSUME NEW held, NEW cm \in Seq(Message), NEW cm2, NEW s, NEW from, NEW upto, NEW gone,
         AccountedFor(held, cm, s, from, upto, gone),
         Len(cm) \in Nat \ {0}, cm[1].sub # s,
         DOMAIN cm2 = 1..(Len(cm) - 1),
         \A n \in 1..(Len(cm) - 1) : cm2[n] = cm[n + 1]
  PROVE  AccountedFor(held, cm2, s, from, upto, gone)
<1>1. DOMAIN cm = 1..Len(cm)
  BY LenProperties
<1>2. Way(cm2, s) = Way(cm, s)
  <2>1. ASSUME NEW n \in DOMAIN cm, cm[n].sub = s
        PROVE  n - 1 \in DOMAIN cm2 /\ cm2[n - 1] = cm[n]
    <3>1. n # 1 /\ n \in 1..Len(cm)
      BY <1>1, <2>1
    <3>2. n - 1 \in 1..(Len(cm) - 1) /\ (n - 1) + 1 = n
      BY <3>1
    <3> QED BY <3>2
  <2>2. ASSUME NEW n \in DOMAIN cm2
        PROVE  n + 1 \in DOMAIN cm /\ cm2[n] = cm[n + 1]
    BY <1>1
  <2> QED BY <2>1, <2>2 DEF Way
<1>3. ASSUME NEW m \in DOMAIN cm2, NEW n \in DOMAIN cm2,
             m < n, cm2[m].sub = s, cm2[n].sub = s
      PROVE  cm2[m].event < cm2[n].event
  <2>1. m + 1 \in DOMAIN cm /\ n + 1 \in DOMAIN cm /\ m + 1 < n + 1
    BY <1>1, <1>3
  <2>2. cm2[m] = cm[m + 1] /\ cm2[n] = cm[n + 1]
    OBVIOUS
  <2> QED BY <1>3, <2>1, <2>2 DEF AccountedFor
<1> QED BY <1>2, <1>3 DEF AccountedFor

\* A message to the stream comes: it is put into the queue or refused.
LEMMA OwnArrives ==
  ASSUME NEW held \in Seq(Events), NEW cm \in Seq(Message), NEW cm2, NEW s, NEW from,
         NEW upto, NEW gone, AccountedFor(held, cm, s, from, upto, gone),
         Len(cm) \in Nat \ {0}, cm[1].sub = s,
         DOMAIN cm2 = 1..(Len(cm) - 1),
         \A n \in 1..(Len(cm) - 1) : cm2[n] = cm[n + 1]
  PROVE  /\ AccountedFor(Append(held, cm[1].event), cm2, s, from, upto, gone)
         /\ AccountedFor(held, cm2, s, from, upto, gone \cup {cm[1].event})
<1> DEFINE e == cm[1].event
<1>1. DOMAIN cm = 1..Len(cm) /\ 1 \in DOMAIN cm
  BY LenProperties
<1>2. e \in Events /\ e \in Way(cm, s)
  <2>1. cm[1] \in Message
    BY <1>1, ElementOfSeq
  <2> QED BY <1>1, <2>1 DEF Way, Message
<1>0. \A n \in Events : n \in Int
  BY MaxEventsAssumption DEF Events
<1>3. ASSUME NEW n \in DOMAIN cm, cm[n].sub = s, n # 1
      PROVE  n - 1 \in DOMAIN cm2 /\ cm2[n - 1] = cm[n] /\ e < cm[n].event
  <2>1. n - 1 \in 1..(Len(cm) - 1) /\ (n - 1) + 1 = n /\ 1 < n
    BY <1>1, <1>3
  <2>2. e < cm[n].event
    BY <1>1, <1>3, <2>1 DEF AccountedFor
  <2> QED BY <2>1, <2>2
<1>4. ASSUME NEW n \in DOMAIN cm2
      PROVE  n + 1 \in DOMAIN cm /\ n + 1 # 1 /\ cm2[n] = cm[n + 1]
  BY <1>1
<1>5. Way(cm2, s) = Way(cm, s) \ {e} /\ \A d \in Way(cm2, s) : e < d
  <2>1. ASSUME NEW d \in Way(cm, s), d # e PROVE d \in Way(cm2, s)
    <3>1. PICK n \in DOMAIN cm : cm[n].sub = s /\ cm[n].event = d
      BY DEF Way
    <3>2. n # 1
      BY <2>1, <3>1
    <3> QED BY <1>3, <3>1, <3>2 DEF Way
  <2>2. ASSUME NEW d \in Way(cm2, s) PROVE d \in Way(cm, s) /\ e < d
    <3>1. PICK n \in DOMAIN cm2 : cm2[n].sub = s /\ cm2[n].event = d
      BY DEF Way
    <3>2. cm[n + 1].sub = s /\ cm[n + 1].event = d /\ n + 1 \in DOMAIN cm /\ n + 1 # 1
      BY <1>4, <3>1
    <3>3. e < d
      BY <1>3, <3>2
    <3> QED BY <3>2, <3>3 DEF Way
  <2>3. ~(e < e)
    BY <1>0, <1>2
  <2> QED BY <2>1, <2>2, <2>3
<1>6. ASSUME NEW m \in DOMAIN cm2, NEW n \in DOMAIN cm2,
             m < n, cm2[m].sub = s, cm2[n].sub = s
      PROVE  cm2[m].event < cm2[n].event
  <2>1. m + 1 < n + 1
    BY <1>6
  <2> QED BY <1>4, <1>6, <2>1 DEF AccountedFor
<1>7. \A m \in DOMAIN held : held[m] < e /\ held[m] \in Events
  BY <1>2, ElementOfSeq DEF AccountedFor
<1>8. AccountedFor(held, cm2, s, from, upto, gone \cup {e})
  <2>1. e \notin ToSet(held)
    BY <1>0, <1>2, <1>7 DEF ToSet
  <2>2. ToSet(held) \cup Way(cm2, s) = ((from + 1)..upto) \ (gone \cup {e})
    BY <1>5, <2>1 DEF AccountedFor
  <2> QED BY <1>5, <1>6, <2>2 DEF AccountedFor
<1>9. AccountedFor(Append(held, e), cm2, s, from, upto, gone)
  <2> DEFINE h == Append(held, e)
  <2> HIDE DEF e
  <2>1. /\ DOMAIN held = 1..Len(held) /\ DOMAIN h = 1..(Len(held) + 1) /\ Len(held) \in Nat
        /\ \A k \in DOMAIN held : h[k] = held[k]
        /\ h[Len(held) + 1] = e
    BY <1>2, Appended
  <2> HIDE DEF h
  <2>2. \A k \in DOMAIN h : k \in DOMAIN held \/ k = Len(held) + 1
    BY <2>1
  <2>3. ASSUME NEW m \in DOMAIN h, NEW n \in DOMAIN h, m < n PROVE h[m] < h[n]
    <3>1. m \in DOMAIN held
      BY <2>1, <2>3
    <3>2. CASE n \in DOMAIN held
      BY <2>1, <2>3, <3>1, <3>2 DEF AccountedFor
    <3>3. CASE n = Len(held) + 1
      BY <1>7, <2>1, <3>1, <3>3
    <3> QED BY <2>2, <3>2, <3>3
  <2>4. ASSUME NEW m \in DOMAIN h, NEW d \in Way(cm2, s) PROVE h[m] < d
    <3>1. CASE m \in DOMAIN held
      <4>1. d \in Way(cm, s)
        BY <1>5
      <4> QED BY <2>1, <3>1, <4>1 DEF AccountedFor
    <3>2. CASE m = Len(held) + 1
      BY <1>5, <2>1, <3>2
    <3> QED BY <2>2, <3>1, <3>2
  <2>5. ToSet(h) = ToSet(held) \cup {e}
    <3>1. Len(held) + 1 \in DOMAIN h /\ \A k \in DOMAIN held : k \in DOMAIN h
      BY <2>1
    <3> QED BY <2>1, <2>2, <3>1 DEF ToSet
  <2>6. ToSet(h) \cup Way(cm2, s) = ((from + 1)..upto) \ gone
    BY <1>2, <1>5, <2>5 DEF AccountedFor
  <2> QED BY <1>6, <2>3, <2>4, <2>6 DEF AccountedFor, h
<1> QED BY <1>8, <1>9

\* An event is published to the stream, which is subscribed once.
LEMMA OneMore ==
  ASSUME NEW held, NEW rd, NEW td, NEW p, MayCome(rd, td, p + 1), NEW s, NEW from \in Nat,
         NEW gone, AccountedFor(held, rd, s, from, p, gone),
         p \in Nat, p + 1 \in Events, from <= p, gone \subseteq 1..p,
         \A n \in DOMAIN rd : rd[n].event <= p,
         \A m, n \in DOMAIN td : td[m] = td[n] => m = n,
         \E n \in DOMAIN td : td[n] = s
  PROVE  AccountedFor(held, Messages(rd, td, p + 1), s, from, p + 1, gone)
<1> DEFINE q == p + 1
           cm == Messages(rd, td, q)
<1>1. /\ Len(rd) \in Nat /\ Len(td) \in Nat
      /\ DOMAIN rd = 1..Len(rd) /\ DOMAIN td = 1..Len(td)
      /\ DOMAIN cm = 1..(Len(rd) + Len(td))
      /\ \A n \in 1..Len(rd) : cm[n] = rd[n]
      /\ \A n \in 1..Len(td) : cm[Len(rd) + n] = [sub |-> td[n], event |-> q]
  BY MessagesAt
<1> HIDE DEF cm
<1>2. PICK k \in 1..Len(td) : td[k] = s
  BY <1>1
<1>3. ASSUME NEW n \in DOMAIN cm
      PROVE  \/ n \in DOMAIN rd /\ cm[n] = rd[n]
             \/ /\ n - Len(rd) \in DOMAIN td /\ n > Len(rd)
                /\ cm[n] = [sub |-> td[n - Len(rd)], event |-> q]
  <2>1. CASE n <= Len(rd)
    BY <1>1, <2>1
  <2>2. CASE n > Len(rd)
    <3>1. n - Len(rd) \in 1..Len(td) /\ n = Len(rd) + (n - Len(rd))
      BY <1>1, <2>2
    <3>2. cm[Len(rd) + (n - Len(rd))] = [sub |-> td[n - Len(rd)], event |-> q]
      BY <1>1, <3>1
    <3> QED BY <1>1, <2>2, <3>1, <3>2
  <2> QED BY <1>1, <2>1, <2>2
<1>4. Way(cm, s) = Way(rd, s) \cup {q}
  <2>1. Way(rd, s) \subseteq Way(cm, s)
    <3>1. \A n \in DOMAIN rd : n \in DOMAIN cm /\ cm[n] = rd[n]
      BY <1>1
    <3> QED BY <3>1 DEF Way
  <2>2. q \in Way(cm, s)
    <3>1. Len(rd) + k \in DOMAIN cm /\ cm[Len(rd) + k] = [sub |-> s, event |-> q]
      BY <1>1, <1>2
    <3> QED BY <3>1 DEF Way
  <2>3. ASSUME NEW e \in Way(cm, s) PROVE e \in Way(rd, s) \cup {q}
    <3>1. PICK n \in DOMAIN cm : cm[n].sub = s /\ cm[n].event = e
      BY DEF Way
    <3>2. e \in Events
      BY DEF Way
    <3> QED BY <1>3, <3>1, <3>2 DEF Way
  <2> QED BY <2>1, <2>2, <2>3
<1>5. ASSUME NEW m \in DOMAIN cm, NEW n \in DOMAIN cm,
             m < n, cm[m].sub = s, cm[n].sub = s
      PROVE  cm[m].event < cm[n].event
  <2>1. CASE n \in DOMAIN rd /\ cm[n] = rd[n]
    <3>1. m \in DOMAIN rd /\ cm[m] = rd[m]
      BY <1>1, <1>5, <2>1
    <3> QED BY <1>5, <2>1, <3>1 DEF AccountedFor
  <2>2. CASE /\ n - Len(rd) \in DOMAIN td /\ n > Len(rd)
             /\ cm[n] = [sub |-> td[n - Len(rd)], event |-> q]
    <3>1. CASE m \in DOMAIN rd /\ cm[m] = rd[m]
      <4>1. rd[m].event <= p /\ rd[m].event \in Events
        <5>1. rd \in Seq(Message)
          BY DEF MayCome
        <5>2. rd[m] \in Message
          BY <3>1, <5>1, ElementOfSeq, <1>1
        <5> QED BY <3>1, <5>2 DEF Message
      <4>2. rd[m].event \in Int
        BY <4>1, MaxEventsAssumption DEF Events
      <4> QED BY <2>2, <3>1, <4>1, <4>2
    <3>2. CASE /\ m - Len(rd) \in DOMAIN td /\ m > Len(rd)
               /\ cm[m] = [sub |-> td[m - Len(rd)], event |-> q]
      <4>1. td[m - Len(rd)] = td[n - Len(rd)]
        BY <1>5, <2>2, <3>2
      <4>2. m - Len(rd) = n - Len(rd)
        BY <2>2, <3>2, <4>1
      <4> QED BY <1>1, <1>5, <4>2
    <3> QED BY <1>3, <3>1, <3>2
  <2> QED BY <1>3, <2>1, <2>2
<1>6. ASSUME NEW m \in DOMAIN held, NEW e \in Way(cm, s) PROVE held[m] < e
  <2>1. CASE e \in Way(rd, s)
    BY <2>1 DEF AccountedFor
  <2>2. CASE e = q
    <3>1. held[m] \in ((from + 1)..p)
      BY DEF AccountedFor, ToSet
    <3> QED BY <2>2, <3>1
  <2> QED BY <1>4, <2>1, <2>2
<1>7. ToSet(held) \cup Way(cm, s) = ((from + 1)..q) \ gone
  <2>1. (from + 1)..q = ((from + 1)..p) \cup {q}
    OBVIOUS
  <2>2. q \notin gone
    <3>1. q \notin 1..p
      OBVIOUS
    <3> QED BY <3>1
  <2>3. ToSet(held) \cup Way(rd, s) = ((from + 1)..p) \ gone
    BY DEF AccountedFor
  <2> HIDE DEF q
  <2> QED BY <1>4, <2>1, <2>2, <2>3
<1>8. \A m, n \in DOMAIN held : m < n => held[m] < held[n]
  BY DEF AccountedFor
<1> QED BY <1>5, <1>6, <1>7, <1>8 DEF AccountedFor, cm

-------------------------------------------------------------------------------
\* The list without a subscriber that is in it once.
LEMMA Unsubscribed ==
  ASSUME NEW subs \in Seq(Subs), \A m, n \in DOMAIN subs : subs[m] = subs[n] => m = n,
         NEW k \in DOMAIN subs
  PROVE  RemoveFirst(subs, subs[k]) = RemoveAt(subs, k)
<1> DEFINE s == subs[k]
<1>1. DOMAIN subs = 1..Len(subs) /\ k \in 1..Len(subs) /\ Len(subs) \in Nat
  OBVIOUS
<1>2. {i \in 1..Len(subs) : subs[i] = s} = {k}
  BY <1>1
<1>3. Min({k}) = k
  BY <1>1 DEF Min
<1>4. SelectInSeq(subs, LAMBDA v : v = s) = k
  BY <1>2, <1>3 DEF SelectInSeq
<1> QED BY <1>1, <1>4 DEF RemoveFirst

\* An event moves from the queue to the client, or into the queue.
LEMMA HeldAppend ==
  ASSUME NEW a \in Seq(Events), NEW b \in Seq(Events), NEW e \in Events
  PROVE  a \o Append(b, e) = Append(a \o b, e)
<1>1. <<e>> \in Seq(Events) /\ a \o b \in Seq(Events)
  BY ConcatProperties
<1>2. Append(b, e) = b \o <<e>> /\ Append(a \o b, e) = (a \o b) \o <<e>>
  BY <1>1, AppendIsConcat
<1>3. (a \o b) \o <<e>> = a \o (b \o <<e>>)
  BY <1>1, ConcatAssociative
<1> QED BY <1>2, <1>3

LEMMA HeldShift ==
  ASSUME NEW a \in Seq(Events), NEW b \in Seq(Events), b # <<>>
  PROVE  Append(a, Head(b)) \o Tail(b) = a \o b
<1>1. Head(b) \in Events /\ Tail(b) \in Seq(Events) /\ <<Head(b)>> \in Seq(Events)
      /\ b = <<Head(b)>> \o Tail(b)
  BY HeadTailProperties, ConcatProperties
<1>2. Append(a, Head(b)) = a \o <<Head(b)>>
  BY <1>1, AppendIsConcat
<1>3. (a \o <<Head(b)>>) \o Tail(b) = a \o (<<Head(b)>> \o Tail(b))
  BY <1>1, ConcatAssociative
<1> QED BY <1>1, <1>2, <1>3

\* Accounted in the next state, of one stream at a time.
LEMMA AccountedThen ==
  ASSUME \A r \in Subs : stream'[r] = "open" =>
           AccountedFor(got'[r] \o queue'[r], Coming', r, since'[r], published', lost'[r])
  PROVE  Accounted'
BY DEF Accounted, AccountedFor, OnTheWay, Way, Held

LEMMA AccountedNow ==
  ASSUME BusInv, NEW r \in Subs, stream[r] = "open"
  PROVE  AccountedFor(got[r] \o queue[r], Coming, r, since[r], published, lost[r])
BY AccountedIs DEF BusInv, Held

\* What stream s holds.
LEMMA HeldTyped ==
  ASSUME BusTypeOK, NEW s \in Subs
  PROVE  Held(s) \in Seq(Events) /\ got[s] \in Seq(Events) /\ queue[s] \in Seq(Events)
BY ConcatProperties DEF BusTypeOK, Held

LEMMA ComingTyped ==
  ASSUME BusInv
  PROVE  MayCome(ready, todo, published) /\ published \in Nat
<1>1. ready \in Seq(Message) /\ todo \in Seq(Subs) /\ published \in Nat
  BY MaxEventsAssumption DEF BusInv, BusTypeOK, Message
<1>2. todo # <<>> => published \in Events
  BY MaxEventsAssumption DEF BusInv, BusTypeOK, OnlyPublished, Events
<1> QED BY <1>1, <1>2 DEF MayCome

\* Where the streams are, while none begins or ends.
LEMMA SameStreams ==
  ASSUME BusInv, UNCHANGED <<subscribers, stream>>
  PROVE  Subscribed'
BY DEF BusInv, Subscribed

LEMMA PublishKeeps ==
  ASSUME BusInv, Publish
  PROVE  BusInv'
<1>0. /\ todo = <<>> /\ published' = published + 1 /\ todo' = subscribers
      /\ published < MaxEvents
      /\ UNCHANGED <<subscribers, ready, queue, stream, got, lost, since>>
  BY DEF Publish
<1>1. published \in Nat /\ published' \in Events /\ published + 1 \in 1..MaxEvents
  BY <1>0, MaxEventsAssumption DEF BusInv, BusTypeOK, Events
<1>2. BusTypeOK'
  <2>1. published' \in 0..MaxEvents
    BY <1>0, <1>1
  <2> QED BY <1>0, <2>1 DEF BusInv, BusTypeOK
<1>3. /\ ready \in Seq(Message) /\ subscribers \in Seq(Subs) /\ DOMAIN ready = 1..Len(ready)
      /\ \A m, n \in DOMAIN subscribers : subscribers[m] = subscribers[n] => m = n
  BY DEF BusInv, BusTypeOK, Message, IsInjective
<1>4. Coming = ready
  <2>1. /\ Coming \in Seq(Message) /\ DOMAIN Coming = 1..(Len(ready) + Len(todo))
        /\ Len(ready) \in Nat
        /\ \A n \in 1..Len(ready) : Coming[n] = ready[n]
    BY ComingAt
  <2>2. Len(todo) = 0
    BY <1>0
  <2>3. DOMAIN Coming = DOMAIN ready
    BY <1>3, <2>1, <2>2
  <2> QED BY <1>3, <2>1, <2>3
<1>5. Coming' = Messages(ready, subscribers, published + 1)
  BY <1>0 DEF Coming, Messages
<1>6. MayCome(ready, subscribers, published + 1)
  BY <1>1, <1>3 DEF MayCome, Events
<1>7. /\ DOMAIN Coming' = 1..(Len(ready) + Len(subscribers))
      /\ Len(ready) \in Nat /\ Len(subscribers) \in Nat
      /\ DOMAIN subscribers = 1..Len(subscribers)
      /\ \A n \in 1..Len(ready) : Coming'[n] = ready[n]
      /\ \A n \in 1..Len(subscribers) :
           Coming'[Len(ready) + n] = [sub |-> subscribers[n], event |-> published + 1]
  BY <1>5, <1>6, MessagesAt
<1>8. ASSUME NEW n \in DOMAIN Coming'
      PROVE  \/ n \in DOMAIN ready /\ Coming'[n] = ready[n]
             \/ \E k \in DOMAIN subscribers :
                  Coming'[n] = [sub |-> subscribers[k], event |-> published + 1]
  <2>1. CASE n <= Len(ready)
    BY <1>3, <1>7, <2>1
  <2>2. CASE n > Len(ready)
    <3>1. n - Len(ready) \in 1..Len(subscribers) /\ n = Len(ready) + (n - Len(ready))
      BY <1>7, <2>2
    <3>2. Coming'[Len(ready) + (n - Len(ready))]
            = [sub |-> subscribers[n - Len(ready)], event |-> published + 1]
      BY <1>7, <3>1
    <3> QED BY <1>7, <3>1, <3>2
  <2> QED BY <1>7, <2>1, <2>2
<1>9. Subscribed'
  BY <1>0, SameStreams
<1>10. NothingEarly'
  <2>1. ASSUME NEW s \in Subs, stream[s] = "new", NEW n \in DOMAIN Coming'
        PROVE  Coming'[n].sub # s
    <3>1. CASE n \in DOMAIN ready /\ Coming'[n] = ready[n]
      BY <1>4, <2>1, <3>1 DEF BusInv, NothingEarly
    <3>2. CASE \E k \in DOMAIN subscribers :
                 Coming'[n] = [sub |-> subscribers[k], event |-> published + 1]
      BY <2>1, <3>2 DEF BusInv, Subscribed
    <3> QED BY <1>8, <3>1, <3>2
  <2> QED BY <1>0, <2>1 DEF BusInv, NothingEarly
<1>11. OnlyPublished'
  <2>1. \A n \in DOMAIN ready : ready[n].event <= published /\ ready[n].event \in Int
    <3>1. \A n \in DOMAIN ready : ready[n] \in Message
      BY <1>3, ElementOfSeq
    <3> QED BY <1>4, <3>1, MaxEventsAssumption DEF BusInv, OnlyPublished, Message, Events
  <2>2. ASSUME NEW n \in DOMAIN Coming' PROVE Coming'[n].event <= published + 1
    BY <1>1, <1>8, <2>1
  <2>3. ASSUME NEW s \in Subs
        PROVE  lost[s] \subseteq 1..(published + 1) /\ since[s] <= published + 1
    <3>1. lost[s] \subseteq 1..published /\ since[s] <= published /\ since[s] \in Nat
      BY MaxEventsAssumption DEF BusInv, OnlyPublished, BusTypeOK
    <3> QED BY <1>1, <3>1
  <2> QED BY <1>0, <1>1, <2>2, <2>3 DEF BusInv, OnlyPublished
<1>12. Accounted'
  <2>1. ASSUME NEW s \in Subs, stream[s] = "open"
        PROVE  AccountedFor(Held(s), Messages(ready, subscribers, published + 1), s, since[s],
                            published + 1, lost[s])
    <3>1. AccountedFor(Held(s), ready, s, since[s], published, lost[s])
      BY <1>4, <2>1, AccountedIs DEF BusInv
    <3>2. /\ since[s] \in Nat /\ since[s] <= published /\ lost[s] \subseteq 1..published
          /\ \A n \in DOMAIN ready : ready[n].event <= published
      BY <1>4, MaxEventsAssumption DEF BusInv, OnlyPublished, BusTypeOK
    <3>3. \E n \in DOMAIN subscribers : subscribers[n] = s
      BY <2>1 DEF BusInv, Subscribed
    <3>4. published + 1 \in Events
      BY <1>1 DEF Events
    <3> QED BY <1>1, <1>3, <1>6, <3>1, <3>2, <3>3, <3>4, OneMore
  <2>2. \A s \in Subs : stream'[s] = "open" =>
          AccountedFor(Held(s)', Coming', s, since'[s], published', lost'[s])
    BY <1>0, <1>5, <2>1 DEF Held
  <2> QED BY <2>2 DEF Accounted, AccountedFor, OnTheWay, Way
<1> QED BY <1>2, <1>9, <1>10, <1>11, <1>12 DEF BusInv

LEMMA PostKeeps ==
  ASSUME BusInv, Post
  PROVE  BusInv'
<1> DEFINE m == [sub |-> Head(todo), event |-> published]
<1>0. /\ todo # <<>> /\ ready' = Append(ready, m) /\ todo' = Tail(todo)
      /\ UNCHANGED <<published, subscribers, queue, stream, got, lost, since>>
  BY DEF Post
<1>1. /\ ready \in Seq(Message) /\ todo \in Seq(Subs) /\ published \in Events
      /\ published \in 0..MaxEvents /\ published > 0
  BY <1>0, MaxEventsAssumption DEF BusInv, BusTypeOK, OnlyPublished, Events, Message
<1>2. Coming' = Coming
  <2>1. Messages(Append(ready, [sub |-> Head(todo), event |-> published]), Tail(todo), published)
          = Messages(ready, todo, published)
    BY <1>0, <1>1, PostedMessages
  <2>2. Coming' = Messages(Append(ready, m), Tail(todo), published)
    BY <1>0 DEF Coming, Messages
  <2> QED BY <2>1, <2>2, ComingIs
<1>3. BusTypeOK'
  <2>1. Head(todo) \in Subs /\ Tail(todo) \in Seq(Subs)
    BY <1>0, <1>1, HeadTailProperties
  <2>2. ready' \in Seq(Message)
    BY <1>0, <1>1, <2>1 DEF Message
  <2> QED BY <1>0, <2>1, <2>2 DEF BusInv, BusTypeOK, Message
<1>4. Subscribed' /\ NothingEarly' /\ OnlyPublished'
  BY <1>0, <1>1, <1>2 DEF BusInv, Subscribed, NothingEarly, OnlyPublished
<1>5. Accounted'
  <2>1. \A r \in Subs : stream'[r] = "open" =>
          AccountedFor(got'[r] \o queue'[r], Coming', r, since'[r], published', lost'[r])
    BY <1>0, <1>2, AccountedNow
  <2> QED BY <2>1, AccountedThen
<1> QED BY <1>3, <1>4, <1>5 DEF BusInv

LEMMA PutNowaitKeeps ==
  ASSUME BusInv, PutNowait
  PROVE  BusInv'
<1>1. /\ Coming \in Seq(Message) /\ Len(ready) \in Nat \ {0} /\ Len(todo) \in Nat
      /\ Len(Coming) = Len(ready) + Len(todo)
      /\ DOMAIN Coming = 1..(Len(ready) + Len(todo))
      /\ Coming[1] = Head(ready)
  <2>1. /\ Coming \in Seq(Message) /\ Len(ready) \in Nat /\ Len(todo) \in Nat
        /\ DOMAIN Coming = 1..(Len(ready) + Len(todo))
        /\ \A n \in 1..Len(ready) : Coming[n] = ready[n]
    BY ComingAt
  <2>2. Len(ready) # 0 /\ Head(ready) = ready[1]
    <3>1. ready \in Seq(Message)
      BY DEF BusInv, BusTypeOK, Message
    <3> QED BY <3>1, EmptySeq DEF PutNowait
  <2>3. Len(Coming) = Len(ready) + Len(todo)
    BY <2>1, LenProperties
  <2> QED BY <2>1, <2>2, <2>3
<1>2. PICK s \in Subs, e \in Events :
        Head(ready).sub = s /\ Head(ready).event = e
  <2>1. Coming[1] \in Message
    BY <1>1, ElementOfSeq
  <2> QED BY <1>1, <2>1 DEF Message
<1>a. Coming[1].sub = s /\ Coming[1].event = e /\ 1 \in DOMAIN Coming
  BY <1>1, <1>2
<1>0. /\ ready # <<>> /\ ready' = Tail(ready)
      /\ \/ /\ Len(queue[s]) < Capacity
            /\ queue' = [queue EXCEPT ![s] = Append(@, e)] /\ lost' = lost
         \/ lost' = [lost EXCEPT ![s] = @ \cup {e}] /\ queue' = queue
      /\ UNCHANGED <<published, todo, subscribers, stream, got, since>>
  BY <1>2 DEF PutNowait
<1>3. /\ DOMAIN Coming' = 1..(Len(Coming) - 1)
      /\ \A n \in 1..(Len(Coming) - 1) : Coming'[n] = Coming[n + 1]
  <2>1. Coming' = Messages(Tail(ready), todo, published)
    BY <1>0 DEF Coming, Messages
  <2>2. /\ DOMAIN Messages(Tail(ready), todo, published) = 1..(Len(ready) - 1 + Len(todo))
        /\ \A n \in 1..(Len(ready) - 1 + Len(todo)) :
             Messages(Tail(ready), todo, published)[n] = Messages(ready, todo, published)[n + 1]
    BY <1>0, ComingTyped, TakenMessages
  <2>3. Len(ready) - 1 + Len(todo) = Len(Coming) - 1
    BY <1>1
  <2> QED BY <2>1, <2>2, <2>3, ComingIs
<1>4. \A n \in DOMAIN Coming' : n + 1 \in DOMAIN Coming /\ Coming'[n] = Coming[n + 1]
  BY <1>1, <1>3
<1>5. \A r \in Subs : r # s => queue'[r] = queue[r] /\ lost'[r] = lost[r]
  BY <1>0 DEF BusInv, BusTypeOK
<1>6. /\ queue[s] \in Seq(Events) /\ Len(queue[s]) <= Capacity
      /\ \/ /\ queue'[s] = Append(queue[s], e) /\ lost'[s] = lost[s]
            /\ Len(queue[s]) < Capacity
         \/ lost'[s] = lost[s] \cup {e} /\ queue'[s] = queue[s]
  BY <1>0, <1>2 DEF BusInv, BusTypeOK
<1>7. BusTypeOK'
  <2>1. queue'[s] \in Seq(Events) /\ Len(queue'[s]) <= Capacity /\ lost'[s] \in SUBSET Events
    <3>1. lost[s] \in SUBSET Events
      BY <1>2 DEF BusInv, BusTypeOK
    <3>2. Append(queue[s], e) \in Seq(Events) /\ Len(Append(queue[s], e)) = Len(queue[s]) + 1
          /\ Len(queue[s]) \in Nat
      BY <1>2, <1>6, Appended
    <3>3. CASE queue'[s] = Append(queue[s], e) /\ lost'[s] = lost[s] /\ Len(queue[s]) < Capacity
      <4>1. Len(queue[s]) + 1 <= Capacity
        BY <3>2, <3>3, CapacityAssumption
      <4> QED BY <3>1, <3>2, <3>3, <4>1
    <3>4. CASE lost'[s] = lost[s] \cup {e} /\ queue'[s] = queue[s]
      BY <1>6, <3>1, <3>4
    <3> QED BY <1>6, <3>3, <3>4
  <2>2. /\ queue' \in [Subs -> Seq(Events)] /\ lost' \in [Subs -> SUBSET Events]
        /\ \A r \in Subs : Len(queue'[r]) <= Capacity
    <3>1. queue' = [queue EXCEPT ![s] = queue'[s]] /\ lost' = [lost EXCEPT ![s] = lost'[s]]
      BY <1>0, <1>2 DEF BusInv, BusTypeOK
    <3>2. queue \in [Subs -> Seq(Events)] /\ lost \in [Subs -> SUBSET Events]
          /\ \A r \in Subs : Len(queue[r]) <= Capacity
      BY DEF BusInv, BusTypeOK
    <3>3. \A r \in Subs : Len(queue'[r]) <= Capacity
      BY <1>5, <2>1, <3>2
    <3> QED BY <1>2, <2>1, <3>1, <3>2, <3>3
  <2>3. ready' \in Seq(Message)
    BY <1>0, HeadTailProperties DEF BusInv, BusTypeOK, Message
  <2> QED BY <1>0, <2>2, <2>3 DEF BusInv, BusTypeOK, Message
<1>8. Subscribed'
  BY <1>0, SameStreams
<1>9. stream[s] # "new"
  BY <1>a DEF BusInv, NothingEarly
<1>10. NothingEarly'
  BY <1>0, <1>4, <1>5, <1>9 DEF BusInv, NothingEarly
<1>11. OnlyPublished'
  <2>1. e <= published /\ e \in 1..published
    <3>1. e <= published
      BY <1>a DEF BusInv, OnlyPublished
    <3> QED BY <1>2, <3>1, MaxEventsAssumption DEF Events, BusInv, BusTypeOK
  <2>2. lost'[s] \subseteq 1..published
    BY <1>2, <1>6, <2>1 DEF BusInv, OnlyPublished
  <2>3. \A r \in Subs : lost'[r] \subseteq 1..published
    BY <1>5, <2>2 DEF BusInv, OnlyPublished
  <2>4. \A r \in Subs : stream[r] = "new" => lost'[r] = {}
    BY <1>5, <1>9 DEF BusInv, OnlyPublished
  <2> QED BY <1>0, <1>4, <2>3, <2>4 DEF BusInv, OnlyPublished
<1>12. Accounted'
  <2> DEFINE cm == Coming
             cm2 == Coming'
  <2>0. /\ DOMAIN cm2 = 1..(Len(cm) - 1) /\ \A n \in 1..(Len(cm) - 1) : cm2[n] = cm[n + 1]
        /\ Len(cm) \in Nat \ {0} /\ cm[1].sub = s /\ cm[1].event = e /\ cm \in Seq(Message)
    BY <1>1, <1>3, <1>a
  <2>1. ASSUME NEW r \in Subs, stream[r] = "open", r # s
        PROVE  AccountedFor(got[r] \o queue[r], cm2, r, since[r], published, lost[r])
    <3> DEFINE held == got[r] \o queue[r]
    <3>1. AccountedFor(held, cm, r, since[r], published, lost[r])
      BY <2>1, AccountedNow
    <3>2. cm[1].sub # r
      BY <2>0, <2>1
    <3> HIDE DEF cm, cm2, held
    <3>3. AccountedFor(held, cm2, r, since[r], published, lost[r])
      BY <2>0, <3>1, <3>2, OtherArrives
    <3> QED BY <3>3 DEF held
  <2>2. ASSUME stream[s] = "open"
        PROVE  AccountedFor(got[s] \o queue'[s], cm2, s, since[s], published, lost'[s])
    <3> DEFINE held == got[s] \o queue[s]
    <3>1. AccountedFor(held, cm, s, since[s], published, lost[s])
      BY <2>2, AccountedNow
    <3>2. held \in Seq(Events) /\ got[s] \in Seq(Events)
      BY HeldTyped DEF BusInv, Held
    <3>3. \/ got[s] \o queue'[s] = Append(held, e) /\ lost'[s] = lost[s]
          \/ got[s] \o queue'[s] = held /\ lost'[s] = lost[s] \cup {e}
      <4>1. got[s] \o Append(queue[s], e) = Append(got[s] \o queue[s], e)
        BY <1>6, <3>2, HeldAppend
      <4> QED BY <1>6, <4>1
    <3> HIDE DEF cm, cm2, held
    <3>4. /\ AccountedFor(Append(held, cm[1].event), cm2, s, since[s], published, lost[s])
          /\ AccountedFor(held, cm2, s, since[s], published, lost[s] \cup {cm[1].event})
      BY <2>0, <3>1, <3>2, OwnArrives
    <3> QED BY <2>0, <3>3, <3>4
  <2>3. \A r \in Subs : stream'[r] = "open" =>
          AccountedFor(got'[r] \o queue'[r], Coming', r, since'[r], published', lost'[r])
    BY <1>0, <1>5, <2>1, <2>2
  <2> QED BY <2>3, AccountedThen
<1> QED BY <1>7, <1>8, <1>10, <1>11, <1>12 DEF BusInv

LEMMA SubscribeKeeps ==
  ASSUME BusInv, NEW s \in Subs, Subscribe(s)
  PROVE  BusInv'
<1>0. /\ stream[s] = "new" /\ stream' = [stream EXCEPT ![s] = "open"]
      /\ subscribers' = Append(subscribers, s)
      /\ since' = [since EXCEPT ![s] = published]
      /\ UNCHANGED <<published, todo, ready, queue, got, lost>>
  BY DEF Subscribe
<1>1. /\ subscribers \in Seq(Subs) /\ \A n \in DOMAIN subscribers : subscribers[n] # s
      /\ \A m, n \in DOMAIN subscribers : subscribers[m] = subscribers[n] => m = n
  BY <1>0 DEF BusInv, BusTypeOK, Subscribed, IsInjective
<1>2. /\ subscribers' \in Seq(Subs)
      /\ DOMAIN subscribers = 1..Len(subscribers) /\ Len(subscribers) \in Nat
      /\ DOMAIN subscribers' = 1..(Len(subscribers) + 1)
      /\ \A n \in DOMAIN subscribers : subscribers'[n] = subscribers[n]
      /\ subscribers'[Len(subscribers) + 1] = s
  BY <1>0, <1>1, Appended
<1>3. \A n \in DOMAIN subscribers' : n \in DOMAIN subscribers \/ n = Len(subscribers) + 1
  BY <1>2
<1>4. \A r \in Subs : r # s => stream'[r] = stream[r] /\ since'[r] = since[r]
  BY <1>0 DEF BusInv, BusTypeOK
<1>5. stream'[s] = "open" /\ since'[s] = published
  BY <1>0 DEF BusInv, BusTypeOK
<1>6. Coming' = Coming
  BY <1>0 DEF Coming
<1>7. BusTypeOK'
  <2>1. IsInjective(subscribers')
    <3>1. ASSUME NEW m \in DOMAIN subscribers', NEW n \in DOMAIN subscribers',
                 subscribers'[m] = subscribers'[n]
          PROVE  m = n
      BY <1>1, <1>2, <1>3, <3>1
    <3> QED BY <3>1 DEF IsInjective
  <2>2. since' \in [Subs -> 0..MaxEvents] /\ stream' \in [Subs -> {"new", "open", "leaving", "closed"}]
    BY <1>0 DEF BusInv, BusTypeOK
  <2> QED BY <1>0, <1>2, <2>1, <2>2 DEF BusInv, BusTypeOK
<1>8. Subscribed'
  <2>1. ASSUME NEW r \in Subs, r # s
        PROVE  (\E n \in DOMAIN subscribers' : subscribers'[n] = r)
                 <=> \E n \in DOMAIN subscribers : subscribers[n] = r
    <3>1. \A n \in DOMAIN subscribers : n \in DOMAIN subscribers'
      BY <1>2
    <3> QED BY <1>2, <1>3, <2>1, <3>1
  <2>2. \E n \in DOMAIN subscribers' : subscribers'[n] = s
    <3>1. Len(subscribers) + 1 \in DOMAIN subscribers'
      BY <1>2
    <3> QED BY <1>2, <3>1
  <2>3. ASSUME NEW r \in Subs
        PROVE  (stream[r] \in {"open", "leaving"})'
                 <=> \E n \in DOMAIN subscribers' : subscribers'[n] = r
    <3>1. CASE r = s
      BY <1>5, <2>2, <3>1
    <3>2. CASE r # s
      <4>1. stream[r] \in {"open", "leaving"} <=> \E n \in DOMAIN subscribers : subscribers[n] = r
        BY DEF BusInv, Subscribed
      <4> QED BY <1>4, <2>1, <3>2, <4>1
    <3> QED BY <3>1, <3>2
  <2> QED BY <2>3 DEF Subscribed
<1>9. NothingEarly'
  BY <1>0, <1>4, <1>5, <1>6 DEF BusInv, NothingEarly
<1>10. OnlyPublished'
  <2>1. published <= published
    BY MaxEventsAssumption DEF BusInv, BusTypeOK
  <2> QED BY <1>0, <1>4, <1>5, <1>6, <2>1 DEF BusInv, OnlyPublished
<1>11. Accounted'
  <2>1. got[s] = <<>> /\ queue[s] = <<>> /\ lost[s] = {}
        /\ \A n \in DOMAIN Coming : Coming[n].sub # s
    BY <1>0 DEF BusInv, NothingEarly, OnlyPublished
  <2>2. AccountedFor(got[s] \o queue[s], Coming, s, published, published, lost[s])
    <3> DEFINE held == got[s] \o queue[s]
    <3>1. DOMAIN held = {}
      <4>1. held = <<>>
        BY <2>1
      <4> QED BY <4>1
    <3>2. Way(Coming, s) = {}
      BY <2>1 DEF Way
    <3>3. ((published + 1)..published) = {}
      BY MaxEventsAssumption DEF BusInv, BusTypeOK
    <3> HIDE DEF held
    <3>4. ToSet(held) = {}
      BY <3>1 DEF ToSet
    <3>5. AccountedFor(held, Coming, s, published, published, lost[s])
      BY <2>1, <3>1, <3>2, <3>3, <3>4 DEF AccountedFor
    <3> QED BY <3>5 DEF held
  <2>3. \A r \in Subs : stream'[r] = "open" =>
          AccountedFor(got'[r] \o queue'[r], Coming', r, since'[r], published', lost'[r])
    <3> TAKE r \in Subs
    <3>1. CASE r = s
      BY <1>0, <1>5, <1>6, <2>2, <3>1
    <3>2. CASE r # s
      BY <1>0, <1>4, <1>6, <3>2, AccountedNow
    <3> QED BY <3>1, <3>2
  <2> QED BY <2>3, AccountedThen
<1> QED BY <1>7, <1>8, <1>9, <1>10, <1>11 DEF BusInv

LEMMA TakeKeeps ==
  ASSUME BusInv, NEW s \in Subs, Take(s)
  PROVE  BusInv'
<1>0. /\ stream[s] = "open" /\ queue[s] # <<>>
      /\ got' = [got EXCEPT ![s] = Append(@, Head(queue[s]))]
      /\ queue' = [queue EXCEPT ![s] = Tail(@)]
      /\ UNCHANGED <<published, todo, subscribers, ready, stream, lost, since>>
  BY DEF Take
<1>1. got[s] \in Seq(Events) /\ queue[s] \in Seq(Events) /\ Len(queue[s]) <= Capacity
  BY DEF BusInv, BusTypeOK
<1>2. got'[s] = Append(got[s], Head(queue[s])) /\ queue'[s] = Tail(queue[s])
  BY <1>0 DEF BusInv, BusTypeOK
<1>3. \A r \in Subs : r # s => got'[r] = got[r] /\ queue'[r] = queue[r]
  BY <1>0 DEF BusInv, BusTypeOK
<1>4. Coming' = Coming
  BY <1>0 DEF Coming
<1>5. BusTypeOK'
  <2>1. /\ Head(queue[s]) \in Events /\ Tail(queue[s]) \in Seq(Events)
        /\ Len(Tail(queue[s])) = Len(queue[s]) - 1 /\ Len(queue[s]) \in Nat
    BY <1>0, <1>1, HeadTailProperties, LenProperties
  <2>2. Append(got[s], Head(queue[s])) \in Seq(Events)
    BY <1>1, <2>1
  <2>3. Len(Tail(queue[s])) <= Capacity
    BY <1>1, <2>1, CapacityAssumption
  <2>4. got' \in [Subs -> Seq(Events)] /\ queue' \in [Subs -> Seq(Events)]
    BY <1>0, <2>1, <2>2 DEF BusInv, BusTypeOK
  <2>5. \A r \in Subs : Len(queue'[r]) <= Capacity
    BY <1>2, <1>3, <2>3 DEF BusInv, BusTypeOK
  <2> QED BY <1>0, <2>4, <2>5 DEF BusInv, BusTypeOK
<1>6. Subscribed'
  BY <1>0, SameStreams
<1>7. NothingEarly' /\ OnlyPublished'
  BY <1>0, <1>3, <1>4 DEF BusInv, NothingEarly, OnlyPublished
<1>8. Accounted'
  <2>1. got'[s] \o queue'[s] = got[s] \o queue[s]
    BY <1>0, <1>1, <1>2, HeldShift
  <2>2. \A r \in Subs : got'[r] \o queue'[r] = got[r] \o queue[r]
    BY <1>3, <2>1
  <2>3. \A r \in Subs : stream'[r] = "open" =>
          AccountedFor(got'[r] \o queue'[r], Coming', r, since'[r], published', lost'[r])
    BY <1>0, <1>4, <2>2, AccountedNow
  <2> QED BY <2>3, AccountedThen
<1> QED BY <1>5, <1>6, <1>7, <1>8 DEF BusInv

LEMMA LeaveKeeps ==
  ASSUME BusInv, NEW s \in Subs, Leave(s)
  PROVE  BusInv'
<1>0. /\ stream[s] = "open" /\ stream' = [stream EXCEPT ![s] = "leaving"]
      /\ queue' = [queue EXCEPT ![s] = IF @ = <<>> THEN @ ELSE Tail(@)]
      /\ UNCHANGED <<published, todo, subscribers, ready, got, lost, since>>
  BY DEF Leave
<1>1. /\ \A r \in Subs : r # s => stream'[r] = stream[r] /\ queue'[r] = queue[r]
      /\ stream'[s] = "leaving"
      /\ queue'[s] = queue[s] \/ (queue[s] # <<>> /\ queue'[s] = Tail(queue[s]))
  BY <1>0 DEF BusInv, BusTypeOK
<1>2. Coming' = Coming
  BY <1>0 DEF Coming
<1>3. BusTypeOK'
  <2>1. queue[s] \in Seq(Events) /\ Len(queue[s]) <= Capacity /\ Len(queue[s]) \in Nat
    BY DEF BusInv, BusTypeOK
  <2>2. queue[s] # <<>> =>
          Tail(queue[s]) \in Seq(Events) /\ Len(Tail(queue[s])) = Len(queue[s]) - 1
    BY <2>1, HeadTailProperties
  <2>3. queue'[s] \in Seq(Events) /\ Len(queue'[s]) <= Capacity
    <3>1. CASE queue'[s] = queue[s]
      BY <2>1, <3>1
    <3>2. CASE queue[s] # <<>> /\ queue'[s] = Tail(queue[s])
      <4>1. Len(queue[s]) - 1 <= Capacity
        BY <2>1, CapacityAssumption
      <4> QED BY <2>2, <3>2, <4>1
    <3> QED BY <1>1, <3>1, <3>2
  <2>4. queue' = [queue EXCEPT ![s] = queue'[s]]
    BY <1>0 DEF BusInv, BusTypeOK
  <2>5. queue' \in [Subs -> Seq(Events)] /\ \A r \in Subs : Len(queue'[r]) <= Capacity
    BY <1>1, <2>3, <2>4 DEF BusInv, BusTypeOK
  <2>6. stream' \in [Subs -> {"new", "open", "leaving", "closed"}]
    BY <1>0 DEF BusInv, BusTypeOK
  <2> QED BY <1>0, <2>5, <2>6 DEF BusInv, BusTypeOK
<1>4. Subscribed'
  <2>1. \A r \in Subs : stream'[r] \in {"open", "leaving"} <=> stream[r] \in {"open", "leaving"}
    BY <1>0, <1>1
  <2> QED BY <1>0, <2>1 DEF BusInv, Subscribed
<1>5. NothingEarly' /\ OnlyPublished'
  BY <1>0, <1>1, <1>2 DEF BusInv, NothingEarly, OnlyPublished
<1>6. Accounted'
  <2>1. \A r \in Subs : stream'[r] = "open" =>
          AccountedFor(got'[r] \o queue'[r], Coming', r, since'[r], published', lost'[r])
    BY <1>0, <1>1, <1>2, AccountedNow
  <2> QED BY <2>1, AccountedThen
<1> QED BY <1>3, <1>4, <1>5, <1>6 DEF BusInv

LEMMA CloseKeeps ==
  ASSUME BusInv, NEW s \in Subs, Close(s)
  PROVE  BusInv'
<1>0. /\ stream[s] = "leaving" /\ stream' = [stream EXCEPT ![s] = "closed"]
      /\ subscribers' = RemoveFirst(subscribers, s)
      /\ UNCHANGED <<published, todo, ready, queue, got, lost, since>>
  BY DEF Close
<1>1. /\ subscribers \in Seq(Subs)
      /\ \A m, n \in DOMAIN subscribers : subscribers[m] = subscribers[n] => m = n
  BY DEF BusInv, BusTypeOK, IsInjective
<1>2. PICK k \in DOMAIN subscribers : subscribers[k] = s
  BY <1>0 DEF BusInv, Subscribed
<1>3. subscribers' = RemoveAt(subscribers, k)
  BY <1>0, <1>1, <1>2, Unsubscribed
<1>4. /\ subscribers' \in Seq(Subs)
      /\ \A i \in DOMAIN subscribers' :
           \E j \in DOMAIN subscribers \ {k} :
             /\ subscribers'[i] = subscribers[j]
             /\ j = IF i < k THEN i ELSE i + 1
      /\ \A j \in DOMAIN subscribers \ {k} :
           \E i \in DOMAIN subscribers' : subscribers'[i] = subscribers[j]
  BY <1>1, <1>3, Removed
<1>5. /\ \A r \in Subs : r # s => stream'[r] = stream[r]
      /\ stream'[s] = "closed"
  BY <1>0 DEF BusInv, BusTypeOK
<1>6. Coming' = Coming
  BY <1>0 DEF Coming
<1>7. BusTypeOK'
  <2>1. ASSUME NEW m \in DOMAIN subscribers', NEW n \in DOMAIN subscribers',
               subscribers'[m] = subscribers'[n]
        PROVE  m = n
    <3>1. PICK i \in DOMAIN subscribers \ {k} :
            subscribers'[m] = subscribers[i] /\ i = IF m < k THEN m ELSE m + 1
      BY <1>4
    <3>2. PICK j \in DOMAIN subscribers \ {k} :
            subscribers'[n] = subscribers[j] /\ j = IF n < k THEN n ELSE n + 1
      BY <1>4
    <3>3. i = j
      BY <1>1, <2>1, <3>1, <3>2
    <3>4. m \in Nat /\ n \in Nat /\ k \in Nat
      <4>1. DOMAIN subscribers = 1..Len(subscribers) /\ DOMAIN subscribers' = 1..Len(subscribers')
        BY <1>1, <1>4, LenProperties
      <4> QED BY <4>1
    <3> QED BY <3>1, <3>2, <3>3, <3>4
  <2>2. IsInjective(subscribers')
    BY <2>1 DEF IsInjective
  <2>3. stream' \in [Subs -> {"new", "open", "leaving", "closed"}]
    BY <1>0 DEF BusInv, BusTypeOK
  <2> QED BY <1>0, <1>4, <2>2, <2>3 DEF BusInv, BusTypeOK
<1>8. Subscribed'
  <2>1. ASSUME NEW r \in Subs
        PROVE  (stream[r] \in {"open", "leaving"})'
                 <=> \E n \in DOMAIN subscribers' : subscribers'[n] = r
    <3>1. CASE r = s
      <4>1. \A n \in DOMAIN subscribers' : subscribers'[n] # s
        BY <1>1, <1>2, <1>4
      <4> QED BY <1>5, <3>1, <4>1
    <3>2. CASE r # s
      <4>1. stream[r] \in {"open", "leaving"} <=> \E n \in DOMAIN subscribers : subscribers[n] = r
        BY DEF BusInv, Subscribed
      <4>2. (\E n \in DOMAIN subscribers : subscribers[n] = r)
              <=> \E n \in DOMAIN subscribers' : subscribers'[n] = r
        BY <1>2, <1>4, <3>2
      <4> QED BY <1>5, <3>2, <4>1, <4>2
    <3> QED BY <3>1, <3>2
  <2> QED BY <2>1 DEF Subscribed
<1>9. NothingEarly' /\ OnlyPublished'
  BY <1>0, <1>5, <1>6 DEF BusInv, NothingEarly, OnlyPublished
<1>10. Accounted'
  <2>1. \A r \in Subs : stream'[r] = "open" =>
          AccountedFor(got'[r] \o queue'[r], Coming', r, since'[r], published', lost'[r])
    BY <1>0, <1>5, <1>6, AccountedNow
  <2> QED BY <2>1, AccountedThen
<1> QED BY <1>7, <1>8, <1>9, <1>10 DEF BusInv

LEMMA BusBegins == BusInit => BusInv
<1> SUFFICES ASSUME BusInit PROVE BusInv
  OBVIOUS
<1>1. BusTypeOK
  <2>1. <<>> \in Seq(Subs) /\ <<>> \in Seq(Events) /\ Len(<<>>) = 0
        /\ <<>> \in Seq([sub : Subs, event : Events]) /\ DOMAIN <<>> = {}
    OBVIOUS
  <2>2. IsInjective(<<>>)
    BY DEF IsInjective
  <2>3. \A s \in Subs : Len(queue[s]) <= Capacity
    BY <2>1, CapacityAssumption DEF BusInit
  <2>4. 0 \in 0..MaxEvents
    BY MaxEventsAssumption
  <2> QED BY <2>1, <2>2, <2>3, <2>4 DEF BusInit, BusTypeOK
<1>2. Coming = <<>>
  BY DEF BusInit, Coming
<1>3. Subscribed
  BY DEF BusInit, Subscribed
<1>4. NothingEarly
  BY <1>2 DEF BusInit, NothingEarly
<1>5. OnlyPublished
  BY <1>2 DEF BusInit, OnlyPublished
<1>6. Accounted
  BY DEF BusInit, Accounted
<1> QED BY <1>1, <1>3, <1>4, <1>5, <1>6 DEF BusInv

LEMMA BusKeeps == BusInv /\ [BusNext]_busVars => BusInv'
<1> SUFFICES ASSUME BusInv, [BusNext]_busVars PROVE BusInv'
  OBVIOUS
<1>1. CASE Publish
  BY <1>1, PublishKeeps
<1>2. CASE Post
  BY <1>2, PostKeeps
<1>3. CASE PutNowait
  BY <1>3, PutNowaitKeeps
<1>4. ASSUME NEW s \in Subs, Subscribe(s) \/ Take(s) \/ Leave(s) \/ Close(s)
      PROVE  BusInv'
  BY <1>4, SubscribeKeeps, TakeKeeps, LeaveKeeps, CloseKeeps
<1>5. CASE UNCHANGED busVars
  <2>1. /\ UNCHANGED <<published, todo, subscribers, ready, queue, stream, got, lost, since>>
    BY <1>5 DEF busVars
  <2>2. BusTypeOK' /\ Subscribed'
    BY <2>1 DEF BusInv, BusTypeOK, Subscribed
  <2>3. Coming' = Coming
    BY <2>1 DEF Coming
  <2>4. NothingEarly' /\ OnlyPublished'
    BY <2>1, <2>3 DEF BusInv, NothingEarly, OnlyPublished
  <2>5. Accounted'
    BY <2>1, <2>3, AccountedNow, AccountedThen
  <2> QED BY <2>2, <2>4, <2>5 DEF BusInv
<1> QED BY <1>1, <1>2, <1>3, <1>4, <1>5 DEF BusNext

LEMMA BusInductive == BusSpec => []BusInv
BY BusBegins, BusKeeps, PTL DEF BusSpec

\* The bus and its streams keep their types: no queue holds more than its
\* maxsize, and the list of publish's subscribers names none of them twice.
THEOREM BusTypeCorrect == BusSpec => []BusTypeOK
<1>1. BusInv => BusTypeOK
  BY DEF BusInv
<1> QED BY <1>1, BusInductive, PTL

\* An open stream has every event published since it subscribed in its client's
\* hands, in its queue or on the way, in order and once each, but for those its
\* full queue refused: whatever publish, the event loop and the streams do
\* between the copy of the list and the callbacks.
THEOREM EventsAreAccounted == BusSpec => []Accounted
<1>1. BusInv => Accounted
  BY DEF BusInv
<1> QED BY <1>1, BusInductive, PTL
===============================================================================
