------------------------------ MODULE EventHub ------------------------------
(***************************************************************************)
(* The hub of job events (events.go) with its two kinds of subscribers:    *)
(* the streams of GET /events (api/events.go) and the workers that deliver *)
(* the webhooks.  The engine publishes under its own lock and never waits; *)
(* each subscriber has a channel of SubscriberSize places, and one that    *)
(* falls behind is dropped.  Each exported method holds the mutex of the   *)
(* hub from beginning to end and is one action; what interleaves are the   *)
(* goroutines of the subscribers, the network and the engine.              *)
(*                                                                         *)
(* An event is its id: types only filter, so a hook may skip any event,    *)
(* and streams are without ?types.                                         *)
(***************************************************************************)
EXTENDS Integers, Sequences, Functions, FiniteSets

CONSTANTS
  Streams,         \* clients of GET /events
  Hooks,           \* webhook destinations
  Buffer,          \* how many events are kept for replay
  SubscriberSize,  \* places of a subscriber's channel
  MaxAttempts,     \* deliveries tried per event and hook
  WireSize,        \* bound: events written and not read by a client
  MaxEvents,       \* bound: events published by one process
  MaxRestart       \* bound: restarts of the process

Subscribers == Streams \cup Hooks

ASSUME EventHubAssumption ==
  /\ Streams \cap Hooks = {}
  /\ Buffer \in Nat \ {0}
  /\ SubscriberSize \in Nat \ {0}
  /\ MaxAttempts \in Nat \ {0}
  /\ WireSize \in Nat \ {0}
  /\ MaxEvents \in Nat
  /\ MaxRestart \in Nat

VARIABLES
  next,     \* the id of the latest event
  ring,     \* the events kept for replay, oldest first
  subs,     \* the subscribers whose channel is registered
  queue,    \* what is in a subscriber's channel
  closes,   \* how often that channel was closed
  at,       \* what a subscriber's goroutine is doing
  replay,   \* what a stream has still to write of its replay
  wire,     \* written to a client and not read by it yet
  last,     \* the id of the event a client read last: its Last-Event-ID
  event,    \* the event a hook took last
  tries,    \* the attempts to deliver it
  closing,  \* the hub was closed
  restarts,
  got,      \* ghost: the events of this process a client has read
  lost      \* ghost: the events of this process it was not offered

channels == <<subs, queue, closes>>
clients  == <<replay, wire, last, got, lost>>
hooks    == <<event, tries>>
hubVars  == <<next, ring, channels, at, clients, hooks, closing, restarts>>

-----------------------------------------------------------------------------
(* The hub. *)

HubInit ==
  /\ next = 0 /\ ring = <<>> /\ closing = FALSE /\ restarts = 0
  /\ subs = Hooks
  /\ queue = [s \in Subscribers |-> <<>>]
  /\ closes = [s \in Subscribers |-> 0]
  /\ at = [s \in Subscribers |-> IF s \in Hooks THEN "wait" ELSE "away"]
  /\ replay = [c \in Streams |-> <<>>] /\ wire = [c \in Streams |-> <<>>]
  /\ last = [c \in Streams |-> 0]
  /\ got = [c \in Streams |-> {}] /\ lost = [c \in Streams |-> {}]
  /\ event = [h \in Hooks |-> 0] /\ tries = [h \in Hooks |-> 0]

\* The latest Buffer events.
Kept(events) ==
  IF Len(events) > Buffer THEN SubSeq(events, Len(events) - Buffer + 1, Len(events))
                          ELSE events

Full == {s \in subs : Len(queue[s]) >= SubscriberSize}

\* Publish: a subscriber without a free place is dropped.
Publish ==
  /\ next < MaxEvents
  /\ next' = next + 1
  /\ ring' = Kept(Append(ring, next + 1))
  /\ subs' = subs \ Full
  /\ queue' = [s \in Subscribers |->
       IF s \in subs \ Full THEN Append(queue[s], next + 1) ELSE queue[s]]
  /\ closes' = [s \in Subscribers |-> IF s \in Full THEN closes[s] + 1 ELSE closes[s]]
  /\ UNCHANGED <<at, clients, hooks, closing, restarts>>

\* Subscribe: a new channel, registered.
Subscribed(s) ==
  /\ subs' = subs \cup {s}
  /\ queue' = [queue EXCEPT ![s] = <<>>]
  /\ closes' = [closes EXCEPT ![s] = 0]

\* The ring without the events up to an id: the ids rise, so these come first.
RingAfter(id) == SubSeq(ring, Cardinality({i \in DOMAIN ring : ring[i] <= id}) + 1, Len(ring))

\* Mutant: the replay begins one event late.
ReplayTooLate(since) == RingAfter(since + 1)

\* The events Subscribe(since) returns.
ReplayAfter(since) == RingAfter(since)

\* The function cancel that Subscribe returns.
Cancelled(s) ==
  /\ subs' = subs \ {s}
  /\ closes' = [closes EXCEPT ![s] = IF s \in subs THEN @ + 1 ELSE @]
  /\ queue' = [queue EXCEPT ![s] = <<>>]

\* Close: only the hooks listen for it.
Close ==
  /\ closing' = TRUE
  /\ UNCHANGED <<next, ring, channels, at, clients, hooks, restarts>>

-----------------------------------------------------------------------------
(* The streams: "away", "on" (the handler runs), "broken" (the client is   *)
(* gone and the handler has not noticed), "ended" (the handler returned,   *)
(* the client has not read everything yet).                                *)

\* handleEvents up to the loop.
Connect(c) ==
  /\ at[c] \in {"away", "ended"} /\ wire[c] = <<>>
  /\ Subscribed(c)
  /\ at' = [at EXCEPT ![c] = "on"]
  /\ replay' = [replay EXCEPT ![c] = ReplayAfter(last[c])]
  /\ lost' = [lost EXCEPT ![c] = @ \cup
       {e \in 1 .. next : e \notin got[c] /\ (e \notin Range(ring) \/ e <= last[c])}]
  /\ UNCHANGED <<next, ring, wire, last, got, hooks, closing, restarts>>

\* The handler writes the next event of the replay, then of its channel.
Write(c) ==
  /\ at[c] = "on" /\ Len(wire[c]) < WireSize
  /\ \/ /\ replay[c] # <<>>
        /\ wire' = [wire EXCEPT ![c] = Append(@, Head(replay[c]))]
        /\ replay' = [replay EXCEPT ![c] = Tail(@)]
        /\ UNCHANGED channels
     \/ /\ replay[c] = <<>> /\ queue[c] # <<>>
        /\ wire' = [wire EXCEPT ![c] = Append(@, Head(queue[c]))]
        /\ queue' = [queue EXCEPT ![c] = Tail(@)]
        /\ UNCHANGED <<replay, subs, closes>>
  /\ UNCHANGED <<next, ring, at, last, got, lost, hooks, closing, restarts>>

\* Mutant: a handler does not notice that its channel was closed.
BehindNever(c) == FALSE

\* The handler has nothing to write and finds its channel closed.
Behind(c) == replay[c] = <<>> /\ queue[c] = <<>> /\ closes[c] > 0

\* The handler returns, for that reason or because it notices that the client
\* is gone; the deferred cancel runs.
Leave(c) ==
  /\ \/ at[c] = "on" /\ Behind(c) /\ at' = [at EXCEPT ![c] = "ended"]
     \/ at[c] = "broken" /\ at' = [at EXCEPT ![c] = "away"]
  /\ Cancelled(c)
  /\ replay' = [replay EXCEPT ![c] = <<>>]
  /\ UNCHANGED <<next, ring, wire, last, got, lost, hooks, closing, restarts>>

\* The client reads one event.
Read(c) ==
  /\ wire[c] # <<>>
  /\ wire' = [wire EXCEPT ![c] = Tail(@)]
  /\ last' = [last EXCEPT ![c] = Head(wire[c])]
  /\ got' = [got EXCEPT ![c] = @ \cup {Head(wire[c])}]
  /\ UNCHANGED <<next, ring, channels, at, replay, lost, hooks, closing, restarts>>

\* The connection breaks; what was written and not read is gone.
Break(c) ==
  /\ at[c] \in {"on", "ended"}
  /\ at' = [at EXCEPT ![c] = IF @ = "on" THEN "broken" ELSE "away"]
  /\ wire' = [wire EXCEPT ![c] = <<>>]
  /\ UNCHANGED <<next, ring, channels, replay, last, got, lost, hooks, closing, restarts>>

-----------------------------------------------------------------------------
(* The webhook workers: "wait" (in the select), "post" (a request is out), *)
(* "pause" (between two attempts), "stopped".                              *)

HookUnchanged == UNCHANGED <<next, ring, clients, closing, restarts>>

\* The worker takes an event, and delivers it unless its type is not wanted.
Take(h) ==
  /\ at[h] = "wait" /\ queue[h] # <<>>
  /\ queue' = [queue EXCEPT ![h] = Tail(@)]
  /\ event' = [event EXCEPT ![h] = Head(queue[h])]
  /\ \/ at' = [at EXCEPT ![h] = "post"] /\ tries' = [tries EXCEPT ![h] = 1]
     \/ UNCHANGED <<at, tries>>
  /\ HookUnchanged /\ UNCHANGED <<subs, closes>>

\* It fell behind: a fresh subscription, without a replay.
Resubscribe(h) ==
  /\ at[h] = "wait" /\ queue[h] = <<>> /\ closes[h] > 0
  /\ Subscribed(h)
  /\ HookUnchanged /\ UNCHANGED <<at, hooks>>

\* The destination answers, or the client gives up waiting for it.
Answer(h) ==
  /\ at[h] = "post"
  /\ \E ok \in BOOLEAN : at' = [at EXCEPT ![h] = IF ok THEN "wait" ELSE "pause"]
  /\ HookUnchanged /\ UNCHANGED <<channels, hooks>>

GivesUp(h) == tries[h] >= MaxAttempts

\* The pause between two attempts ends: a next one, or none.  A closed hub ends it at
\* once, unless the timer is as fast.
AfterPause(h) ==
  /\ at[h] = "pause"
  /\ \/ /\ ~GivesUp(h)
        /\ at' = [at EXCEPT ![h] = "post"]
        /\ tries' = [tries EXCEPT ![h] = @ + 1]
     \/ /\ GivesUp(h) \/ closing
        /\ at' = [at EXCEPT ![h] = "wait"]
        /\ UNCHANGED tries
  /\ HookUnchanged /\ UNCHANGED <<channels, event>>

\* Mutant: the worker looks for a closed hub only when it fell behind.
FindsClosedLate(h) == closing /\ closes[h] > 0

\* The case of h.done in the select.
FindsClosed(h) == closing

\* The worker finds the hub closed and returns; the deferred cancel runs.
HookStop(h) ==
  /\ at[h] = "wait" /\ FindsClosed(h)
  /\ at' = [at EXCEPT ![h] = "stopped"]
  /\ Cancelled(h)
  /\ HookUnchanged /\ UNCHANGED hooks

-----------------------------------------------------------------------------

\* The process is killed and started: a new hub, whose workers subscribe.
HubRestart ==
  /\ restarts < MaxRestart
  /\ restarts' = restarts + 1
  /\ next' = 0 /\ ring' = <<>> /\ closing' = FALSE
  /\ subs' = Hooks
  /\ queue' = [s \in Subscribers |-> <<>>]
  /\ closes' = [s \in Subscribers |-> 0]
  /\ at' = [s \in Subscribers |-> IF s \in Hooks THEN "wait" ELSE "away"]
  /\ replay' = [c \in Streams |-> <<>>] /\ wire' = [c \in Streams |-> <<>>]
  /\ got' = [c \in Streams |-> {}] /\ lost' = [c \in Streams |-> {}]
  /\ event' = [h \in Hooks |-> 0] /\ tries' = [h \in Hooks |-> 0]
  /\ UNCHANGED last

StreamStep(c) == Write(c) \/ Leave(c) \/ Read(c)
HookStep(h) == Take(h) \/ Resubscribe(h) \/ Answer(h) \/ AfterPause(h) \/ HookStop(h)

HubNext ==
  \/ Publish \/ Close \/ HubRestart
  \/ \E c \in Streams : Connect(c) \/ StreamStep(c) \/ Break(c)
  \/ \E h \in Hooks : HookStep(h)

(***************************************************************************)
(* Handlers and workers run on, a client that stays connected reads, and a *)
(* request ends because the HTTP client has a timeout.  The select of a    *)
(* worker picks among the ready cases at random, so it does not pass over  *)
(* the closed hub for ever.                                                *)
(***************************************************************************)
HubFairness ==
  /\ \A c \in Streams : WF_hubVars(Write(c)) /\ WF_hubVars(Leave(c)) /\ WF_hubVars(Read(c))
  /\ \A h \in Hooks : WF_hubVars(HookStep(h)) /\ SF_hubVars(HookStop(h))

HubSpec == HubInit /\ [][HubNext]_hubVars /\ HubFairness

-----------------------------------------------------------------------------

Rising(q) == \A i, j \in DOMAIN q : i < j => q[i] < q[j]

\* What a stream has still to bring to its client, in order.
Pending(c) == wire[c] \o replay[c] \o queue[c]

(***************************************************************************)
(* A client on a stream reads every event once and in order, from the      *)
(* oldest one that was kept when it connected: what it has read, what it   *)
(* was not offered and what is under way are all events so far, or, when   *)
(* its channel was dropped, all up to some event, after which it must      *)
(* reconnect.  A hook gets events in order, without a hole up to the       *)
(* latest one while it is registered (Publish and Subscribe against        *)
(* handlers that write, end and reconnect meanwhile).                      *)
(***************************************************************************)
NoHole ==
  /\ \A c \in Streams : at[c] = "on" =>
       /\ Rising(Pending(c))
       /\ got[c] \cap Range(Pending(c)) = {}
       /\ \E n \in 0 .. next :
            /\ got[c] \cup lost[c] \cup Range(Pending(c)) = 1 .. n
            /\ c \in subs => n = next
  /\ \A h \in Hooks :
       /\ Rising(<<event[h]>> \o queue[h])
       /\ h \in subs => Range(queue[h]) = next - Len(queue[h]) + 1 .. next

(***************************************************************************)
(* A registered channel is open and somebody serves it, and a goroutine    *)
(* that waits on a channel is either registered or finds it closed; no     *)
(* channel is closed twice, which would end the process (Publish drops a   *)
(* subscriber while its deferred cancel may be about to run).              *)
(***************************************************************************)
Attended ==
  \A s \in Subscribers :
    /\ closes[s] <= 1
    /\ s \in subs => closes[s] = 0 /\ at[s] \notin {"away", "ended", "stopped"}
    /\ at[s] \in {"on", "wait", "post", "pause"} => (s \in subs \/ closes[s] = 1)

(***************************************************************************)
(* A client that connects is sent every event it has not read and that is  *)
(* still kept (API.md 495 of Last-Event-ID; Subscribe).                    *)
(***************************************************************************)
ReplaysWhatIsKept ==
  [][\A c \in Streams : at[c] # "on" /\ at'[c] = "on" =>
       Range(ring) \ got[c] \subseteq Range(replay'[c])]_hubVars

(***************************************************************************)
(* A client that stays connected gets every event, however slow it is:     *)
(* one that fell behind is let go instead of left waiting (handleEvents).  *)
(***************************************************************************)
KeepsUp ==
  \A c \in Streams, n \in 1 .. MaxEvents :
    at[c] = "on" /\ next >= n ~> n \in got[c] \cup lost[c] \/ at[c] # "on"

(***************************************************************************)
(* Close ends the workers, whatever their destinations answer and however  *)
(* much is published meanwhile (startWebhook, deliver).                    *)
(***************************************************************************)
HooksEnd == closing ~> (\A h \in Hooks : at[h] = "stopped") \/ ~closing

=============================================================================
