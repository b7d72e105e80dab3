-------------------------------- MODULE EventHub --------------------------------
(***************************************************************************)
(* The event hub (backend/autowright/events.py) and the WebSocket handler    *)
(* that drains it (api.py ws): worker threads publish, the event loop fans    *)
(* out to bounded subscriber queues, a queue that overflows is poisoned so    *)
(* that its client closes, reconnects and reads the state again.              *)
(* Events are numbered in the order they are published.                       *)
(***************************************************************************)
EXTENDS Integers, Sequences

CONSTANTS Clients, QueueMax, MaxEvents, MaxCalls   \* QueueMax: 2000 in the code
ASSUME HubAssumption == QueueMax \in Nat \ {0} /\ MaxEvents \in Nat /\ MaxCalls \in Nat

VARIABLES published,      \* events published so far
          pending,        \* call_soon_threadsafe: events the loop has still to fan out
          subs,           \* _subs: the subscribed clients
          qs,             \* client -> its queue, OVERFLOW as 0
          sock,           \* client -> "closed", "open"
          pump,           \* client -> the sender task: "off", "waiting", "sending", "ended"
          view,           \* client -> the last event it has seen
          gap,            \* client -> it has seen an event after missing one
          connects,       \* connections so far
          loopUp          \* the event loop still runs

hubVars == <<published, pending, subs, qs, sock, pump, view, gap, connects, loopUp>>

Overflow == 0

HubInit ==
  /\ published = 0 /\ pending = <<>> /\ subs = {} /\ connects = 0 /\ loopUp = TRUE
  /\ qs = [c \in Clients |-> <<>>] /\ sock = [c \in Clients |-> "closed"]
  /\ pump = [c \in Clients |-> "off"]
  /\ view = [c \in Clients |-> 0] /\ gap = [c \in Clients |-> FALSE]

(* A client connects and subscribes; it reads the whole state after that, so *)
(* it has seen everything published by then.                                  *)
Connect(c) ==
  /\ sock[c] = "closed" /\ pump[c] = "off" /\ loopUp /\ connects < MaxCalls
  /\ sock' = [sock EXCEPT ![c] = "open"] /\ pump' = [pump EXCEPT ![c] = "waiting"]
  /\ subs' = subs \cup {c} /\ qs' = [qs EXCEPT ![c] = <<>>]
  /\ view' = [view EXCEPT ![c] = published - Len(pending)]
  /\ gap' = [gap EXCEPT ![c] = FALSE] /\ connects' = connects + 1
  /\ UNCHANGED <<published, pending, loopUp>>

(* publish: from any thread; after the loop closed it is dropped silently.    *)
Publish ==
  /\ published < MaxEvents /\ loopUp
  /\ published' = published + 1 /\ pending' = Append(pending, published + 1)
  /\ UNCHANGED <<subs, qs, sock, pump, view, gap, connects, loopUp>>

NeverFull(c) == FALSE

(* _fanout: a full queue loses its oldest entry to the sentinel and its        *)
(* client is no longer fed.                                                    *)
Full(c) == Len(qs[c]) = QueueMax
DropsOldest(c) == IF Full(c) THEN Append(Tail(qs[c]), Head(pending)) ELSE Append(qs[c], Head(pending))
Fed(c) == IF Full(c) THEN Append(Tail(qs[c]), Overflow) ELSE Append(qs[c], Head(pending))
Fanout ==
  /\ pending # <<>> /\ loopUp
  /\ qs' = [c \in Clients |-> IF c \in subs THEN Fed(c) ELSE qs[c]]
  /\ subs' = {c \in subs : ~Full(c)}
  /\ pending' = Tail(pending)
  /\ UNCHANGED <<published, sock, pump, view, gap, connects, loopUp>>

(* The sender task takes the next entry; the sentinel closes the socket.       *)
OnlyStops(c) == pump' = [pump EXCEPT ![c] = "ended"] /\ UNCHANGED sock
CutsOff(c) == pump' = [pump EXCEPT ![c] = "ended"] /\ sock' = [sock EXCEPT ![c] = "closed"]
Take(c) ==
  /\ pump[c] = "waiting" /\ qs[c] # <<>>
  /\ qs' = [qs EXCEPT ![c] = Tail(@)]
  /\ IF Head(qs[c]) = Overflow
     THEN CutsOff(c) /\ UNCHANGED <<view, gap>>
     ELSE /\ pump' = [pump EXCEPT ![c] = "sending"] /\ UNCHANGED sock
          /\ gap' = [gap EXCEPT ![c] = @ \/ Head(qs[c]) > view[c] + 1]
          /\ view' = [view EXCEPT ![c] = Head(qs[c])]
  /\ UNCHANGED <<published, pending, subs, connects, loopUp>>

Sent(c) ==
  /\ pump[c] = "sending"
  /\ pump' = [pump EXCEPT ![c] = "waiting"]
  /\ UNCHANGED <<published, pending, subs, qs, sock, view, gap, connects, loopUp>>

(* A send that fails closes the socket. *)
SendFails(c) ==
  /\ pump[c] = "sending" /\ CutsOff(c)
  /\ UNCHANGED <<published, pending, subs, qs, view, gap, connects, loopUp>>

(* The client goes away by itself. *)
GoesAway(c) ==
  /\ sock[c] = "open"
  /\ sock' = [sock EXCEPT ![c] = "closed"]
  /\ UNCHANGED <<published, pending, subs, qs, pump, view, gap, connects, loopUp>>

(* The handler sees the disconnect: it unsubscribes, then ends the sender.     *)
LeavesItsQueue(c) ==
  /\ sock[c] = "closed" /\ pump[c] # "off"
  /\ pump' = [pump EXCEPT ![c] = "off"]
  /\ UNCHANGED <<published, pending, subs, qs, sock, view, gap, connects, loopUp>>
HandlerEnds(c) ==
  /\ sock[c] = "closed" /\ pump[c] # "off"
  /\ subs' = subs \ {c} /\ pump' = [pump EXCEPT ![c] = "off"]
  /\ UNCHANGED <<published, pending, qs, sock, view, gap, connects, loopUp>>

LoopCloses ==
  /\ loopUp /\ \A c \in Clients : pump[c] = "off"
  /\ loopUp' = FALSE
  /\ UNCHANGED <<published, pending, subs, qs, sock, pump, view, gap, connects>>

ServesClient(c) == Take(c) \/ Sent(c) \/ HandlerEnds(c)
HubNext ==
  \/ Publish \/ Fanout \/ LoopCloses
  \/ \E c \in Clients : Connect(c) \/ ServesClient(c) \/ SendFails(c) \/ GoesAway(c)

HubSpec == HubInit /\ [][HubNext]_hubVars
HubFairness == WF_hubVars(Fanout) /\ \A c \in Clients : WF_hubVars(ServesClient(c))

HubTypeOK ==
  /\ subs \subseteq Clients
  /\ \A c \in Clients : Len(qs[c]) <= QueueMax /\ view[c] \in 0..published

(* A client is either missing nothing - what it has seen, what is queued for   *)
(* it and what the loop has still to deliver continue one another - or it is    *)
(* about to be cut off: no client stays connected over an event it lost         *)
(* (events.py:55-75, api.py:3560-3600).                                         *)
Contiguous(c) ==
  LET rest == qs[c] \o pending
  IN \A i \in DOMAIN rest : rest[i] = view[c] + i
LostMeansCutOff ==
  \A c \in Clients :
    (sock[c] = "open" /\ pump[c] # "off") =>
      IF c \in subs THEN Contiguous(c) /\ ~gap[c]
      ELSE pump[c] = "ended" \/ (qs[c] # <<>> /\ qs[c][Len(qs[c])] = Overflow)

(* Nobody is fed into a queue nobody drains: a client that is gone leaves the   *)
(* hub with its handler (api.py:3590-3603).                                     *)
GoneIsUnsubscribed == \A c \in Clients : pump[c] = "off" => c \notin subs

(* A client that stays connected and reads sees every event once publishing      *)
(* pauses, or its socket closes so that it reads the state again                  *)
(* (events.py:55-75).                                                             *)
EventsArrive ==
  \A c \in Clients :
    (sock[c] = "open" /\ view[c] < published) ~> (view[c] = published \/ sock[c] = "closed")
==============================================================================
