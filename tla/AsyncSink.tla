------------------------------ MODULE AsyncSink ------------------------------
(***************************************************************************)
(* The queue of production events (production_event.go, AsyncSink): the    *)
(* goroutines that completed a job enqueue, after they released the lock   *)
(* of the engine; one worker hands the events to the sink; stop may be     *)
(* called by several goroutines.  A sync.RWMutex keeps the channel open    *)
(* while somebody is about to send: enqueue holds it for reading, stop     *)
(* takes it for writing.  Events are numbered in the order in which they   *)
(* were offered.                                                           *)
(***************************************************************************)
EXTENDS Integers, Sequences

CONSTANTS
  Producers,    \* goroutines that complete jobs
  Stoppers,     \* goroutines that call the function stop
  QueueSize,    \* places of the channel
  MaxOffers     \* bound: events offered

ASSUME AsyncSinkAssumption ==
  /\ QueueSize \in Nat \ {0}
  /\ MaxOffers \in Nat

VARIABLES
  producing,  \* per producer: "idle", "locked" (it holds the read lock), "sending"
  offer,      \* the event it offers
  stopping,   \* per stopper: "idle", "first" (in once.Do), "closing", "waiting", "returned"
  stopped,    \* the flag stopped
  unclosed,   \* the channel is not closed
  channel,    \* the events in it
  worker,     \* the event the worker hands over, Idle, or Over when it returned
  offered,    \* how many events were offered
  accepted,   \* ghost: the events enqueue took, in order
  handed      \* ghost: the events the sink was called with, in order

sinkVars == <<producing, offer, stopping, stopped, unclosed, channel, worker, offered,
              accepted, handed>>

Idle == 0
Over == -1

SinkInit ==
  /\ producing = [p \in Producers |-> "idle"] /\ offer = [p \in Producers |-> 0]
  /\ stopping = [s \in Stoppers |-> "idle"]
  /\ stopped = FALSE /\ unclosed = TRUE /\ channel = <<>>
  /\ worker = Idle /\ offered = 0
  /\ accepted = <<>> /\ handed = <<>>

-----------------------------------------------------------------------------
(* The read-write lock: a writer that waits keeps new readers out. *)

Reading == {p \in Producers : producing[p] # "idle"}
WriterWaits == \E s \in Stoppers : stopping[s] = "first"
WriterHolds == \E s \in Stoppers : stopping[s] = "closing"

\* Mutant: stop does not wait for those that are about to send.
MayWriteAtOnce == ~WriterHolds

MayRead == ~WriterWaits /\ ~WriterHolds
MayWrite == Reading = {} /\ ~WriterHolds

-----------------------------------------------------------------------------
(* enqueue *)

Lock(p) ==
  /\ producing[p] = "idle" /\ offered < MaxOffers /\ MayRead
  /\ producing' = [producing EXCEPT ![p] = "locked"]
  /\ offered' = offered + 1
  /\ offer' = [offer EXCEPT ![p] = offered + 1]
  /\ UNCHANGED <<stopping, stopped, unclosed, channel, worker, accepted, handed>>

\* It reads the flag: a sink that is closed takes nothing.
Look(p) ==
  /\ producing[p] = "locked"
  /\ producing' = [producing EXCEPT ![p] = IF stopped THEN "idle" ELSE "sending"]
  /\ UNCHANGED <<offer, stopping, stopped, unclosed, channel, worker, offered, accepted, handed>>

\* The select: the event is sent, or dropped when the queue is full.
Send(p) ==
  /\ producing[p] = "sending"
  /\ producing' = [producing EXCEPT ![p] = "idle"]
  /\ IF Len(channel) < QueueSize
     THEN /\ channel' = Append(channel, offer[p])
          /\ accepted' = Append(accepted, offer[p])
     ELSE UNCHANGED <<channel, accepted>>
  /\ UNCHANGED <<offer, stopping, stopped, unclosed, worker, offered, handed>>

-----------------------------------------------------------------------------
(* stop: once.Do runs its function for the first caller and lets the       *)
(* others wait until it has returned.                                      *)

Enter(s) ==
  /\ stopping[s] = "idle" /\ ~stopped /\ ~WriterWaits /\ ~WriterHolds
  /\ stopping' = [stopping EXCEPT ![s] = "first"]
  /\ UNCHANGED <<producing, offer, stopped, unclosed, channel, worker, offered, accepted, handed>>

Acquire(s) ==
  /\ stopping[s] = "first" /\ MayWrite
  /\ stopping' = [stopping EXCEPT ![s] = "closing"]
  /\ stopped' = TRUE
  /\ UNCHANGED <<producing, offer, unclosed, channel, worker, offered, accepted, handed>>

CloseChannel(s) ==
  /\ stopping[s] = "closing"
  /\ stopping' = [stopping EXCEPT ![s] = "waiting"]
  /\ unclosed' = FALSE
  /\ UNCHANGED <<producing, offer, stopped, channel, worker, offered, accepted, handed>>

\* A later caller: once.Do has returned for the first one.
EnterLate(s) ==
  /\ stopping[s] = "idle" /\ stopped /\ ~WriterHolds
  /\ stopping' = [stopping EXCEPT ![s] = "waiting"]
  /\ UNCHANGED <<producing, offer, stopped, unclosed, channel, worker, offered, accepted, handed>>

\* Mutant: stop does not wait for the worker.
WorkerDoneAtOnce == TRUE

\* The worker closed done.
WorkerDone == worker = Over

Return(s) ==
  /\ stopping[s] = "waiting" /\ WorkerDone
  /\ stopping' = [stopping EXCEPT ![s] = "returned"]
  /\ UNCHANGED <<producing, offer, stopped, unclosed, channel, worker, offered, accepted, handed>>

-----------------------------------------------------------------------------
(* The worker: for event := range events. *)

TakeEvent ==
  /\ worker = Idle /\ channel # <<>>
  /\ worker' = Head(channel)
  /\ channel' = Tail(channel)
  /\ UNCHANGED <<producing, offer, stopping, stopped, unclosed, offered, accepted, handed>>

\* deliver: the sink returned; an error is logged.
HandOver ==
  /\ worker \notin {Idle, Over}
  /\ handed' = Append(handed, worker)
  /\ worker' = Idle
  /\ UNCHANGED <<producing, offer, stopping, stopped, unclosed, channel, offered, accepted>>

\* The loop ends when the channel is closed and empty.
SeesEnd == ~unclosed /\ channel = <<>>

EndWorker ==
  /\ worker = Idle /\ SeesEnd
  /\ worker' = Over
  /\ UNCHANGED <<producing, offer, stopping, stopped, unclosed, channel, offered, accepted, handed>>

-----------------------------------------------------------------------------

Enqueue(p) == Look(p) \/ Send(p)
StopOn(s) == Acquire(s) \/ CloseChannel(s) \/ Return(s)
WorkerStep == TakeEvent \/ HandOver \/ EndWorker

SinkNext ==
  \/ \E p \in Producers : Lock(p) \/ Enqueue(p)
  \/ \E s \in Stoppers : Enter(s) \/ EnterLate(s) \/ StopOn(s)
  \/ WorkerStep

SinkSpec == SinkInit /\ [][SinkNext]_sinkVars

-----------------------------------------------------------------------------

(***************************************************************************)
(* Nobody sends on a closed channel, which would end the process: a        *)
(* completion that read stopped before stop set it has sent its event      *)
(* before the channel is closed (enqueue against stop).                    *)
(***************************************************************************)
NeverSendsOnClosed == \A p \in Producers : producing[p] = "sending" => unclosed

(***************************************************************************)
(* When any call of stop has returned, the sink was called with every      *)
(* event that enqueue had accepted, once each and in that order            *)
(* ("stops it after the queue has been emptied", AsyncSink).               *)
(***************************************************************************)
EmptiedWhenStopped ==
  (\E s \in Stoppers : stopping[s] = "returned") => handed = accepted

=============================================================================
