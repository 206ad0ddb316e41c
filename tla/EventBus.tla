-------------------------------- MODULE EventBus --------------------------------
(***************************************************************************)
(* The event bus of HexBlock and the streams that read it.                 *)
(*                                                                         *)
(* publish copies the list of subscribers under a lock and then asks the   *)
(* event loop to put the event into the queue of each; it may run in a     *)
(* thread, between any two callbacks of the loop.  A subscriber is one     *)
(* /stream or /display/stream response: an async generator that takes      *)
(* events from its queue until its client is gone.                         *)
(***************************************************************************)
EXTENDS Naturals, Sequences, FiniteSets, SequencesExt

CONSTANTS
  Subs,      \* subscribers: one for each stream that is ever opened
  Capacity,  \* 100: maxsize of a subscriber's queue
  MaxEvents  \* bound: events published (numbered 1, 2, ...)

ASSUME CapacityAssumption == Capacity \in Nat \ {0}
ASSUME MaxEventsAssumption == MaxEvents \in Nat

VARIABLES
  published,   \* how many events have been published, or have begun to be
  todo,        \* the subscribers publish has yet to post the event to
  subscribers, \* the list _subscribers
  ready,       \* put_nowait callbacks waiting in the event loop
  queue,       \* the queue of each subscriber
  stream,      \* what each stream is doing
  got,         \* the events each stream has sent to its client
  lost,        \* history: the events a full queue refused
  since        \* history: the events published before the stream subscribed

busVars == <<published, todo, subscribers, ready, queue, stream, got, lost, since>>

Events == 1..MaxEvents

BusTypeOK ==
  /\ published \in 0..MaxEvents
  /\ todo \in Seq(Subs)
  /\ subscribers \in Seq(Subs) /\ IsInjective(subscribers)
  /\ ready \in Seq([sub : Subs, event : Events])
  /\ queue \in [Subs -> Seq(Events)]
  /\ \A s \in Subs : Len(queue[s]) <= Capacity
  /\ stream \in [Subs -> {"new", "open", "leaving", "closed"}]
  /\ got \in [Subs -> Seq(Events)]
  /\ lost \in [Subs -> SUBSET Events]
  /\ since \in [Subs -> 0..MaxEvents]

-------------------------------------------------------------------------------
(* Mutants: errors the checks must notice *)

\* The queue is made without a maxsize.
PutWithoutLimit ==
  /\ ready # <<>>
  /\ queue' = [queue EXCEPT ![Head(ready).sub] = Append(@, Head(ready).event)]
  /\ ready' = Tail(ready)
  /\ UNCHANGED <<published, todo, subscribers, stream, got, lost, since>>

\* A full queue makes room for the event, at the cost of the oldest.
PutDroppingOldest ==
  /\ ready # <<>>
  /\ ready' = Tail(ready)
  /\ LET s == Head(ready).sub
         e == Head(ready).event
         q == IF Len(queue[s]) < Capacity THEN queue[s] ELSE Tail(queue[s])
     IN queue' = [queue EXCEPT ![s] = Append(q, e)]
  /\ UNCHANGED <<published, todo, subscribers, stream, got, lost, since>>

\* A stream that ends stays subscribed.
CloseStaysSubscribed(s) ==
  /\ stream[s] = "leaving"
  /\ stream' = [stream EXCEPT ![s] = "closed"]
  /\ UNCHANGED <<published, todo, subscribers, ready, queue, got, lost, since>>

\* The event loop waits for room in a full queue.
PutWaits ==
  /\ ready # <<>>
  /\ Len(queue[Head(ready).sub]) < Capacity
  /\ queue' = [queue EXCEPT ![Head(ready).sub] = Append(@, Head(ready).event)]
  /\ ready' = Tail(ready)
  /\ UNCHANGED <<published, todo, subscribers, stream, got, lost, since>>

-------------------------------------------------------------------------------
(* publish *)

\* The copy of the list, under the lock.
Publish ==
  /\ published < MaxEvents
  /\ todo = <<>>
  /\ published' = published + 1
  /\ todo' = subscribers
  /\ UNCHANGED <<subscribers, ready, queue, stream, got, lost, since>>

\* call_soon_threadsafe(q.put_nowait, event).
Post ==
  /\ todo # <<>>
  /\ ready' = Append(ready, [sub |-> Head(todo), event |-> published])
  /\ todo' = Tail(todo)
  /\ UNCHANGED <<published, subscribers, queue, stream, got, lost, since>>

\* The callback; QueueFull is raised into the loop, which logs it.
PutNowait ==
  /\ ready # <<>>
  /\ ready' = Tail(ready)
  /\ LET s == Head(ready).sub
         e == Head(ready).event
     IN IF Len(queue[s]) < Capacity
        THEN queue' = [queue EXCEPT ![s] = Append(@, e)] /\ UNCHANGED lost
        ELSE lost' = [lost EXCEPT ![s] = @ \cup {e}] /\ UNCHANGED queue
  /\ UNCHANGED <<published, todo, subscribers, stream, got, since>>

-------------------------------------------------------------------------------
(* subscribe, and the streams that run it *)

Subscribe(s) ==
  /\ stream[s] = "new"
  /\ stream' = [stream EXCEPT ![s] = "open"]
  /\ subscribers' = Append(subscribers, s)
  /\ since' = [since EXCEPT ![s] = published]
  /\ UNCHANGED <<published, todo, ready, queue, got, lost>>

\* q.get, and the event is sent.
Take(s) ==
  /\ stream[s] = "open"
  /\ queue[s] # <<>>
  /\ got' = [got EXCEPT ![s] = Append(@, Head(queue[s]))]
  /\ queue' = [queue EXCEPT ![s] = Tail(@)]
  /\ UNCHANGED <<published, todo, subscribers, ready, stream, lost, since>>

\* The client is gone: an event is taken and dropped by is_disconnected, or
\* the response is cancelled while it waits for one.
Leave(s) ==
  /\ stream[s] = "open"
  /\ stream' = [stream EXCEPT ![s] = "leaving"]
  /\ queue' = [queue EXCEPT ![s] = IF @ = <<>> THEN @ ELSE Tail(@)]
  /\ UNCHANGED <<published, todo, subscribers, ready, got, lost, since>>

\* The finally of the generator, when the loop finalizes it.
Close(s) ==
  /\ stream[s] = "leaving"
  /\ stream' = [stream EXCEPT ![s] = "closed"]
  /\ subscribers' = RemoveFirst(subscribers, s)
  /\ UNCHANGED <<published, todo, ready, queue, got, lost, since>>

-------------------------------------------------------------------------------
BusInit ==
  /\ published = 0
  /\ todo = <<>>
  /\ subscribers = <<>>
  /\ ready = <<>>
  /\ queue = [s \in Subs |-> <<>>]
  /\ stream = [s \in Subs |-> "new"]
  /\ got = [s \in Subs |-> <<>>]
  /\ lost = [s \in Subs |-> {}]
  /\ since = [s \in Subs |-> 0]

BusNext ==
  \/ Publish
  \/ Post
  \/ PutNowait
  \/ \E s \in Subs : Subscribe(s) \/ Take(s) \/ Leave(s) \/ Close(s)

BusSpec == BusInit /\ [][BusNext]_busVars

\* The publisher and the event loop run on; a stream ends once its client is
\* gone. No client has to read what it is sent.
BusFairness ==
  /\ WF_busVars(Post)
  /\ WF_busVars(PutNowait)
  /\ \A s \in Subs : WF_busVars(Close(s))

FairBusSpec == BusSpec /\ BusFairness

-------------------------------------------------------------------------------
(* Properties *)

\* What is still to be put into a queue: in the loop, then in the thread.
Coming == ready \o [n \in DOMAIN todo |-> [sub |-> todo[n], event |-> published]]

OnTheWay(s) ==
  {e \in Events : \E n \in DOMAIN Coming : Coming[n].sub = s /\ Coming[n].event = e}

\* What stream s has sent, and what it has to send.
Held(s) == got[s] \o queue[s]

\* An open stream has every event published since it subscribed, in the order
\* they were published and once each, in its client's hands, in its queue or
\* on the way, but for those that found the queue full.
Accounted ==
  \A s \in Subs : stream[s] = "open" =>
    /\ \A m, n \in DOMAIN Held(s) : m < n => Held(s)[m] < Held(s)[n]
    /\ \A m \in DOMAIN Held(s), e \in OnTheWay(s) : Held(s)[m] < e
    /\ \A m, n \in DOMAIN Coming :
         m < n /\ Coming[m].sub = s /\ Coming[n].sub = s
           => Coming[m].event < Coming[n].event
    /\ ToSet(Held(s)) \cup OnTheWay(s) = ((since[s] + 1)..published) \ lost[s]

\* A client that does not read holds up no other: an event on its way to a
\* stream comes to its queue, or is refused by it, whatever the others do.
Arrives ==
  \A s \in Subs, e \in Events :
    e \in OnTheWay(s) ~> e \notin OnTheWay(s)

\* A stream whose client has gone is forgotten: in the end publish has no
\* queue of it any more, however the two interleave.
LeftIsForgotten ==
  \A s \in Subs :
    stream[s] = "leaving" ~> [](s \notin ToSet(subscribers) \cup ToSet(todo))
===============================================================================
