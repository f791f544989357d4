------------------------------ MODULE EventBus ------------------------------
(***************************************************************************)
(* The server-sent events of one project (services/event_bus.py, served by *)
(* api/events.py).  Projects share nothing, so one is enough.              *)
(*                                                                         *)
(* An event that arrives, by NOTIFY or by the fallback of publish, is      *)
(* appended to a bounded buffer and put into the queue of every            *)
(* subscriber; that is one step, for nothing in it awaits.  Events are     *)
(* numbered in the order of their arrival; in the code they have random    *)
(* identifiers, which are only compared for equality.                      *)
(*                                                                         *)
(* A client that comes back with the Last-Event-ID it received last is     *)
(* served a snapshot of the buffer first, one yield per event, and its     *)
(* queue is registered after that: what arrives meanwhile reaches neither. *)
(* Other tasks run at every yield.  Keepalives are left out.               *)
(*                                                                         *)
(* base and lost are history variables: the client is owed the events      *)
(* after base[c]; lost[c] are the ones that arrived during its replay or   *)
(* found its queue full.                                                   *)
(***************************************************************************)
EXTENDS Naturals, Sequences

CONSTANTS Client,               \* browsers
          BUFFER_MAX_LEN,       \* 100 in the code
          QUEUE_MAX,            \* 200 in the code
          MaxEvents             \* bound: events that arrive

ASSUME BusAssumption ==
    /\ BUFFER_MAX_LEN \in Nat \ {0}
    /\ QUEUE_MAX \in Nat \ {0}
    /\ MaxEvents \in Nat

VARIABLES latest,       \* the events that have arrived are 1..latest
          buffer,       \* the deque of the project
          expired,      \* how many entries at its head have outlived their TTL
          phase,        \* where the generator that serves a client is
          replay,       \* rest of the snapshot it sends
          queue,        \* the queue of a client that is live
          received,     \* what a client has got, over all its connections
          base,         \* history: see above
          lost          \* history: see above

vars == <<latest, buffer, expired, phase, replay, queue, received, base, lost>>

TypeOK ==
    /\ latest \in Nat
    /\ buffer \in Seq(1 .. latest)
    /\ Len(buffer) <= BUFFER_MAX_LEN
    /\ expired \in 0 .. Len(buffer)
    /\ phase \in [Client -> {"off", "replay", "live"}]
    /\ replay \in [Client -> Seq(1 .. latest)]
    /\ queue \in [Client -> Seq(1 .. latest)]
    /\ \A c \in Client : Len(queue[c]) <= QUEUE_MAX
    /\ received \in [Client -> Seq(1 .. latest)]
    /\ base \in [Client -> 0 .. latest]
    /\ lost \in [Client -> SUBSET (1 .. latest)]

Init ==
    /\ latest = 0
    /\ buffer = <<>>
    /\ expired = 0
    /\ phase = [c \in Client |-> "off"]
    /\ replay = [c \in Client |-> <<>>]
    /\ queue = [c \in Client |-> <<>>]
    /\ received = [c \in Client |-> <<>>]
    /\ base = [c \in Client |-> 0]
    /\ lost = [c \in Client |-> {}]

-----------------------------------------------------------------------------
Elements(s) == {s[i] : i \in DOMAIN s}

Unexpired == SubSeq(buffer, expired + 1, Len(buffer))

\* Mutant: the event the client has already is replayed with the others.
BufferedAfterInclusive(n) ==
    LET at == {i \in DOMAIN Unexpired : Unexpired[i] = n}
    IN  IF at = {} THEN <<>>
        ELSE SubSeq(Unexpired, CHOOSE i \in at : TRUE, Len(Unexpired))

\* get_buffered_events: what the buffer has after event n; nothing if n is gone.
BufferedAfter(n) ==
    LET at == {i \in DOMAIN Unexpired : Unexpired[i] = n}
    IN  IF at = {} THEN <<>>
        ELSE SubSeq(Unexpired, (CHOOSE i \in at : TRUE) + 1, Len(Unexpired))

\* Mutant: QueueFull is caught around the loop over the queues, not inside it.
ArriveStopsAtFull ==
    LET n == latest + 1
        fresh == Append(Unexpired, n)
        full(c) == Len(queue[c]) >= QUEUE_MAX
    IN  /\ latest < MaxEvents
        /\ latest' = n
        /\ buffer' = IF Len(fresh) > BUFFER_MAX_LEN THEN Tail(fresh) ELSE fresh
        /\ expired' = 0
        /\ queue' = [c \in Client |->
              IF phase[c] = "live" /\ ~ \E d \in Client : full(d)
              THEN Append(queue[c], n) ELSE queue[c]]
        /\ lost' = [c \in Client |->
              IF phase[c] = "replay" \/ (phase[c] = "live" /\ full(c))
              THEN lost[c] \cup {n} ELSE lost[c]]
        /\ UNCHANGED <<phase, replay, received, base>>

\* _on_notify: _buffer_event and _dispatch_to_subscribers.
Arrive ==
    LET n == latest + 1
        fresh == Append(Unexpired, n)
        full(c) == Len(queue[c]) >= QUEUE_MAX
    IN  /\ latest < MaxEvents
        /\ latest' = n
        /\ buffer' = IF Len(fresh) > BUFFER_MAX_LEN THEN Tail(fresh) ELSE fresh
        /\ expired' = 0
        /\ queue' = [c \in Client |->
              IF phase[c] = "live" /\ ~ full(c) THEN Append(queue[c], n) ELSE queue[c]]
        /\ lost' = [c \in Client |->
              IF phase[c] = "replay" \/ (phase[c] = "live" /\ full(c))
              THEN lost[c] \cup {n} ELSE lost[c]]
        /\ UNCHANGED <<phase, replay, received, base>>

\* Five minutes have passed for the next entry of the buffer.
Expire ==
    /\ expired < Len(buffer)
    /\ expired' = expired + 1
    /\ UNCHANGED <<latest, buffer, phase, replay, queue, received, base, lost>>

\* GET /events/stream, the first time or with a Last-Event-ID: subscribe runs
\* up to its first yield, which registers the queue if nothing is replayed.
Connect(c) ==
    LET last == received[c][Len(received[c])]
        missing == IF received[c] = <<>> THEN <<>> ELSE BufferedAfter(last)
    IN  /\ phase[c] = "off"
        /\ phase' = [phase EXCEPT ![c] = IF missing = <<>> THEN "live" ELSE "replay"]
        /\ replay' = [replay EXCEPT ![c] = missing]
        /\ base' = [base EXCEPT ![c] = IF missing = <<>> THEN latest ELSE last]
        /\ lost' = [lost EXCEPT ![c] = {}]
        /\ UNCHANGED <<latest, buffer, expired, queue, received>>

\* The client gets the next event of the snapshot.
SendReplay(c) ==
    /\ phase[c] = "replay"
    /\ replay[c] # <<>>
    /\ received' = [received EXCEPT ![c] = Append(@, Head(replay[c]))]
    /\ replay' = [replay EXCEPT ![c] = Tail(@)]
    /\ UNCHANGED <<latest, buffer, expired, phase, queue, base, lost>>

\* The snapshot is sent: the queue is registered.
Register(c) ==
    /\ phase[c] = "replay"
    /\ replay[c] = <<>>
    /\ phase' = [phase EXCEPT ![c] = "live"]
    /\ UNCHANGED <<latest, buffer, expired, replay, queue, received, base, lost>>

\* Mutant: the 30 seconds are over when the event has just been taken.
DeliverTimedOut(c) ==
    /\ phase[c] = "live"
    /\ queue[c] # <<>>
    /\ received' \in {received, [received EXCEPT ![c] = Append(@, Head(queue[c]))]}
    /\ queue' = [queue EXCEPT ![c] = Tail(@)]
    /\ UNCHANGED <<latest, buffer, expired, phase, replay, base, lost>>

\* The client gets the next event of its queue.
Deliver(c) ==
    /\ phase[c] = "live"
    /\ queue[c] # <<>>
    /\ received' = [received EXCEPT ![c] = Append(@, Head(queue[c]))]
    /\ queue' = [queue EXCEPT ![c] = Tail(@)]
    /\ UNCHANGED <<latest, buffer, expired, phase, replay, base, lost>>

\* The connection breaks, perhaps with an event on its way: the generator ends
\* and its queue goes.
Disconnect(c) ==
    /\ phase[c] # "off"
    /\ phase' = [phase EXCEPT ![c] = "off"]
    /\ replay' = [replay EXCEPT ![c] = <<>>]
    /\ queue' = [queue EXCEPT ![c] = <<>>]
    /\ UNCHANGED <<latest, buffer, expired, received, base, lost>>

\* The server starts anew: everything it held was in memory.
Restart ==
    /\ buffer' = <<>>
    /\ expired' = 0
    /\ phase' = [c \in Client |-> "off"]
    /\ replay' = [c \in Client |-> <<>>]
    /\ queue' = [c \in Client |-> <<>>]
    /\ UNCHANGED <<latest, received, base, lost>>

-----------------------------------------------------------------------------
Serve(c) == SendReplay(c) \/ Register(c) \/ Deliver(c)

Next ==
    \/ Arrive
    \/ Expire
    \/ \E c \in Client : Connect(c) \/ Serve(c) \/ Disconnect(c)
    \/ Restart

Spec == Init /\ [][Next]_vars

\* A connected client reads its stream.
Fairness == \A c \in Client : WF_vars(Serve(c))

FairSpec == Spec /\ Fairness

-----------------------------------------------------------------------------
\* The bus is an EventStream: in order and at most once, across reconnections,
\* evictions from the buffer, full queues and restarts.
Stream == INSTANCE EventStream

StreamSpec == Stream!Spec

\* A client that is live has or is about to get every event after base[c] but
\* the ones that arrived while its replay was sent or its queue was full.
NothingElseLost ==
    \A c \in Client : phase[c] = "live" =>
        (base[c] + 1) .. latest
            \subseteq Elements(received[c]) \cup Elements(queue[c]) \cup lost[c]

\* What is on its way to a client gets there, or the client goes.
HandedOver ==
    \A c \in Client, n \in 1 .. MaxEvents :
        n \in Elements(replay[c]) \cup Elements(queue[c])
            ~> n \in Elements(received[c]) \/ phase[c] = "off"

\* "Last-Event-Id가 주어진 경우 버퍼에서 누락된 이벤트를 먼저 재전송합니다.": a
\* client that resumes from the buffer misses nothing as long as its queue is
\* not full.
ResumeMissesNothing ==
    \A c \in Client : phase[c] = "live" /\ Len(queue[c]) < QUEUE_MAX =>
        (base[c] + 1) .. latest \subseteq Elements(received[c]) \cup Elements(queue[c])
=============================================================================
