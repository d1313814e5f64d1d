--------------------------- MODULE ServicesProofs ---------------------------
(***************************************************************************)
(* Theorems about the services beside the queue: the channels of the event *)
(* hub, the queue of production events, the list of maintenance proposals  *)
(* and the confirmation of tools.                                          *)
(***************************************************************************)
EXTENDS EventHub, AsyncSink, MaintenanceBoard, ToolConfirm,
        SequenceTheorems, FiniteSetTheorems, TLAPS

(***************************************************************************)
(* The event hub.  Attended is inductive once the program points of the    *)
(* streams and the workers are told apart, and a handler that has not      *)
(* noticed a broken connection counts as one that listens.                 *)
(***************************************************************************)
Listening(s) == at[s] \in {"on", "broken", "wait", "post", "pause"}

HubInv ==
  /\ subs \subseteq Subscribers
  /\ closes \in [Subscribers -> Nat]
  /\ at \in [Subscribers ->
       {"away", "on", "broken", "ended", "wait", "post", "pause", "stopped"}]
  /\ \A s \in Subscribers :
       /\ closes[s] <= 1
       /\ s \in subs => closes[s] = 0 /\ Listening(s)
       /\ Listening(s) => s \in subs \/ closes[s] = 1

LEMMA HubInvInit == HubInit => HubInv
  BY DEF HubInit, HubInv, Listening, Subscribers

LEMMA HubInvStep == HubInv /\ [HubNext]_hubVars => HubInv'
<1> SUFFICES ASSUME HubInv, [HubNext]_hubVars PROVE HubInv'
  OBVIOUS
<1> USE DEF HubInv, Listening
<1>1. CASE Publish
  <2>1. Full \subseteq subs
    BY DEF Full
  <2> QED
    BY <1>1, <2>1 DEF Publish
<1>2. CASE Close
  BY <1>2 DEF Close, channels
<1>3. CASE HubRestart
  BY <1>3 DEF HubRestart, Subscribers
<1>4. ASSUME NEW c \in Streams, Connect(c) \/ StreamStep(c) \/ Break(c) PROVE HubInv'
  <2>0. c \in Subscribers
    BY DEF Subscribers
  <2>1. CASE Connect(c)
    BY <2>0, <2>1 DEF Connect, Subscribed
  <2>2. CASE Write(c)
    BY <2>2 DEF Write, channels
  <2>3. CASE Leave(c)
    BY <2>0, <2>3 DEF Leave, Cancelled
  <2>4. CASE Read(c)
    BY <2>4 DEF Read, channels
  <2>5. CASE Break(c)
    BY <2>0, <2>5 DEF Break, channels
  <2> QED
    BY <1>4, <2>1, <2>2, <2>3, <2>4, <2>5 DEF StreamStep
<1>5. ASSUME NEW h \in Hooks, HookStep(h) PROVE HubInv'
  <2>0. h \in Subscribers
    BY DEF Subscribers
  <2>1. CASE Take(h)
    BY <2>0, <2>1 DEF Take, HookUnchanged
  <2>2. CASE Resubscribe(h)
    BY <2>0, <2>2 DEF Resubscribe, Subscribed, HookUnchanged
  <2>3. CASE Answer(h)
    BY <2>0, <2>3 DEF Answer, HookUnchanged, channels
  <2>4. CASE AfterPause(h)
    BY <2>0, <2>4 DEF AfterPause, HookUnchanged, channels
  <2>5. CASE HookStop(h)
    BY <2>0, <2>5 DEF HookStop, Cancelled, HookUnchanged
  <2> QED
    BY <1>5, <2>1, <2>2, <2>3, <2>4, <2>5 DEF HookStep
<1>6. CASE UNCHANGED hubVars
  BY <1>6 DEF hubVars, channels
<1> QED
  BY <1>1, <1>2, <1>3, <1>4, <1>5, <1>6 DEF HubNext

(***************************************************************************)
(* No channel of the hub is closed twice, nobody is left waiting on one,   *)
(* and none that nobody serves stays registered (Publish, cancel,          *)
(* handleEvents, startWebhook), for any number of streams and hooks.       *)
(***************************************************************************)
THEOREM ChannelsAttended == HubSpec => []Attended
<1>1. HubInv => Attended
  BY DEF HubInv, Attended, Listening
<1> QED
  BY <1>1, HubInvInit, HubInvStep, PTL DEF HubSpec

-----------------------------------------------------------------------------
(***************************************************************************)
(* The queue of production events.  LockInv is what the read-write lock    *)
(* gives: stopped is set while nobody is about to send, and the channel is *)
(* closed after that.  FifoInv says position by position that the accepted *)
(* events are those handed over, the one the worker has, and the channel.  *)
(***************************************************************************)
Numbers == Nat \ {0}

SinkTyped ==
  /\ producing \in [Producers -> {"idle", "locked", "sending"}]
  /\ offer \in [Producers -> Nat]
  /\ stopping \in [Stoppers -> {"idle", "first", "closing", "waiting", "returned"}]
  /\ stopped \in BOOLEAN /\ unclosed \in BOOLEAN
  /\ channel \in Seq(Numbers) /\ accepted \in Seq(Numbers) /\ handed \in Seq(Numbers)
  /\ worker \in Nat \cup {Over}
  /\ offered \in Nat
  /\ \A p \in Producers : producing[p] # "idle" => offer[p] \in Numbers

LockInv ==
  /\ \A p \in Producers : producing[p] = "sending" => ~stopped
  /\ ~unclosed => stopped
  /\ \A s \in Stoppers : stopping[s] = "closing" => stopped
  /\ stopped => ~unclosed \/ WriterHolds
  /\ worker = Over => ~unclosed /\ channel = <<>>
  /\ \A s \in Stoppers : stopping[s] = "returned" => worker = Over

InHand == IF worker \in {Idle, Over} THEN 0 ELSE 1

FifoInv ==
  /\ Len(accepted) = Len(handed) + InHand + Len(channel)
  /\ \A i \in 1 .. Len(handed) : accepted[i] = handed[i]
  /\ InHand = 1 => accepted[Len(handed) + 1] = worker
  /\ \A i \in 1 .. Len(channel) : accepted[Len(handed) + InHand + i] = channel[i]

LEMMA SinkTypedInit == SinkInit => SinkTyped
<1> SUFFICES ASSUME SinkInit PROVE SinkTyped
  OBVIOUS
<1>1. channel \in Seq(Numbers) /\ accepted \in Seq(Numbers) /\ handed \in Seq(Numbers)
  BY EmptySeq DEF SinkInit
<1>2. producing \in [Producers -> {"idle", "locked", "sending"}]
      /\ \A p \in Producers : producing[p] = "idle"
  BY DEF SinkInit
<1>3. offer \in [Producers -> Nat]
  BY DEF SinkInit
<1>4. stopping \in [Stoppers -> {"idle", "first", "closing", "waiting", "returned"}]
  BY DEF SinkInit
<1> QED
  BY <1>1, <1>2, <1>3, <1>4 DEF SinkInit, SinkTyped, Idle

LEMMA SinkTypedStep == SinkTyped /\ [SinkNext]_sinkVars => SinkTyped'
<1> SUFFICES ASSUME SinkTyped, [SinkNext]_sinkVars PROVE SinkTyped'
  OBVIOUS
<1> USE DEF SinkTyped, Numbers
<1>1. ASSUME NEW p \in Producers, Lock(p) \/ Enqueue(p) PROVE SinkTyped'
  <2>1. CASE Lock(p)
    BY <2>1 DEF Lock
  <2>2. CASE Look(p)
    BY <2>2 DEF Look
  <2>3. CASE Send(p)
    <3>1. offer[p] \in Numbers
      BY <2>3 DEF Send
    <3> QED
      <4>1. CASE Len(channel) < QueueSize
        <5>1. channel' = Append(channel, offer[p]) /\ accepted' = Append(accepted, offer[p])
          BY <2>3, <4>1 DEF Send
        <5>2. channel' \in Seq(Numbers) /\ accepted' \in Seq(Numbers)
          BY <3>1, <5>1, AppendProperties
        <5> QED
          BY <2>3, <5>2 DEF Send
      <4>2. CASE ~(Len(channel) < QueueSize)
        BY <2>3, <4>2 DEF Send
      <4> QED
        BY <4>1, <4>2
  <2> QED
    BY <1>1, <2>1, <2>2, <2>3 DEF Enqueue
<1>2. ASSUME NEW s \in Stoppers, Enter(s) \/ EnterLate(s) \/ StopOn(s) PROVE SinkTyped'
  <2>1. CASE Enter(s)
    BY <2>1 DEF Enter
  <2>2. CASE EnterLate(s)
    BY <2>2 DEF EnterLate
  <2>3. CASE Acquire(s)
    BY <2>3 DEF Acquire
  <2>4. CASE CloseChannel(s)
    BY <2>4 DEF CloseChannel
  <2>5. CASE Return(s)
    BY <2>5 DEF Return
  <2> QED
    BY <1>2, <2>1, <2>2, <2>3, <2>4, <2>5 DEF StopOn
<1>3. CASE WorkerStep
  <2>1. CASE TakeEvent
    <3>1. Head(channel) \in Numbers /\ Tail(channel) \in Seq(Numbers)
      BY <2>1, HeadTailProperties DEF TakeEvent
    <3> QED
      BY <2>1, <3>1 DEF TakeEvent
  <2>2. CASE HandOver
    <3>1. worker \in Numbers
      BY <2>2 DEF HandOver, Idle, Over
    <3> QED
      BY <2>2, <3>1 DEF HandOver, Idle
  <2>3. CASE EndWorker
    BY <2>3 DEF EndWorker
  <2> QED
    BY <1>3, <2>1, <2>2, <2>3 DEF WorkerStep
<1>4. CASE UNCHANGED sinkVars
  BY <1>4 DEF sinkVars
<1> QED
  BY <1>1, <1>2, <1>3, <1>4 DEF SinkNext

LEMMA LockInvStep == SinkTyped /\ LockInv /\ [SinkNext]_sinkVars => LockInv'
<1> SUFFICES ASSUME SinkTyped, LockInv, [SinkNext]_sinkVars PROVE LockInv'
  OBVIOUS
<1> USE DEF SinkTyped, LockInv, WriterHolds, Idle, Over
<1>1. ASSUME NEW p \in Producers, Lock(p) \/ Enqueue(p) PROVE LockInv'
  <2>1. CASE Lock(p)
    BY <2>1 DEF Lock
  <2>2. CASE Look(p)
    BY <2>2 DEF Look
  <2>3. CASE Send(p)
    BY <2>3 DEF Send
  <2> QED
    BY <1>1, <2>1, <2>2, <2>3 DEF Enqueue
<1>2. ASSUME NEW s \in Stoppers, Enter(s) \/ EnterLate(s) \/ StopOn(s) PROVE LockInv'
  <2>1. CASE Enter(s)
    BY <2>1 DEF Enter
  <2>2. CASE EnterLate(s)
    BY <2>2 DEF EnterLate
  <2>3. CASE Acquire(s)
    BY <2>3 DEF Acquire, MayWrite, Reading
  <2>4. CASE CloseChannel(s)
    BY <2>4 DEF CloseChannel
  <2>5. CASE Return(s)
    BY <2>5 DEF Return, WorkerDone
  <2> QED
    BY <1>2, <2>1, <2>2, <2>3, <2>4, <2>5 DEF StopOn
<1>3. CASE WorkerStep
  <2>1. CASE TakeEvent
    <3>1. Head(channel) \in Numbers
      BY <2>1, HeadTailProperties DEF TakeEvent
    <3>2. worker' # Over
      BY <2>1, <3>1 DEF TakeEvent, Numbers
    <3> QED
      BY <2>1, <3>2 DEF TakeEvent
  <2>2. CASE HandOver
    BY <2>2 DEF HandOver
  <2>3. CASE EndWorker
    BY <2>3 DEF EndWorker, SeesEnd
  <2> QED
    BY <1>3, <2>1, <2>2, <2>3 DEF WorkerStep
<1>4. CASE UNCHANGED sinkVars
  BY <1>4 DEF sinkVars
<1> QED
  BY <1>1, <1>2, <1>3, <1>4 DEF SinkNext

LEMMA FifoInvStep == SinkTyped /\ LockInv /\ FifoInv /\ [SinkNext]_sinkVars => FifoInv'
<1> SUFFICES ASSUME SinkTyped, LockInv, FifoInv, [SinkNext]_sinkVars PROVE FifoInv'
  OBVIOUS
<1>0. /\ channel \in Seq(Numbers) /\ Len(channel) \in Nat
      /\ accepted \in Seq(Numbers) /\ Len(accepted) \in Nat
      /\ handed \in Seq(Numbers) /\ Len(handed) \in Nat
      /\ InHand \in {0, 1}
  BY LenProperties DEF SinkTyped, InHand
<1>1. ASSUME NEW p \in Producers, Send(p), Len(channel) < QueueSize PROVE FifoInv'
  <2>1. /\ channel' = Append(channel, offer[p]) /\ accepted' = Append(accepted, offer[p])
        /\ handed' = handed /\ worker' = worker /\ InHand' = InHand
    BY <1>1 DEF Send, InHand
  <2>2. offer[p] \in Numbers
    BY <1>1 DEF Send, SinkTyped
  <2>3. /\ Len(accepted') = Len(accepted) + 1
        /\ \A i \in 1 .. Len(accepted) : accepted'[i] = accepted[i]
        /\ accepted'[Len(accepted) + 1] = offer[p]
    BY <1>0, <2>1, <2>2, AppendProperties
  <2>4. /\ Len(channel') = Len(channel) + 1
        /\ \A i \in 1 .. Len(channel) : channel'[i] = channel[i]
        /\ channel'[Len(channel) + 1] = offer[p]
    BY <1>0, <2>1, <2>2, AppendProperties
  <2> QED
    BY <1>0, <2>1, <2>3, <2>4 DEF FifoInv
<1>2. CASE TakeEvent
  <2>1. /\ channel # <<>> /\ InHand = 0 /\ worker' = Head(channel) /\ channel' = Tail(channel)
        /\ accepted' = accepted /\ handed' = handed
    BY <1>2 DEF TakeEvent, InHand, Idle
  <2>2. /\ Head(channel) = channel[1] /\ Head(channel) \in Numbers
        /\ Len(channel') = Len(channel) - 1
        /\ \A i \in 1 .. Len(channel') : channel'[i] = channel[i + 1]
    BY <1>0, <2>1, HeadTailProperties
  <2>3. InHand' = 1
    BY <2>1, <2>2 DEF InHand, Idle, Over, Numbers
  <2>4. Len(channel) > 0
    BY <1>0, <2>1, EmptySeq
  <2>5. Len(channel) \in Nat /\ Len(handed) \in Nat
    BY <1>0
  <2>6. /\ Len(accepted') = Len(handed') + InHand' + Len(channel')
        /\ accepted'[Len(handed') + 1] = worker'
    BY <2>1, <2>2, <2>3, <2>4, <2>5 DEF FifoInv
  <2>7. ASSUME NEW i \in 1 .. Len(channel')
        PROVE  accepted'[Len(handed') + InHand' + i] = channel'[i]
    <3>1. i + 1 \in 1 .. Len(channel) /\ channel'[i] = channel[i + 1]
      BY <2>2, <2>5
    <3>2. accepted[Len(handed) + (i + 1)] = channel[i + 1]
      BY <2>1, <3>1 DEF FifoInv
    <3>3. Len(handed') + InHand' + i = Len(handed) + (i + 1)
      BY <2>1, <2>3, <2>5
    <3>4. QED
      BY <2>1, <3>1, <3>2, <3>3
  <2> QED
    BY <2>1, <2>6, <2>7 DEF FifoInv
<1>3. CASE HandOver
  <2>1. /\ worker \in Numbers /\ InHand = 1 /\ InHand' = 0
        /\ handed' = Append(handed, worker) /\ accepted' = accepted /\ channel' = channel
    BY <1>3 DEF HandOver, InHand, Idle, Over, SinkTyped, Numbers
  <2>2. /\ Len(handed') = Len(handed) + 1
        /\ \A i \in 1 .. Len(handed) : handed'[i] = handed[i]
        /\ handed'[Len(handed) + 1] = worker
    BY <1>0, <2>1, AppendProperties
  <2> QED
    BY <1>0, <2>1, <2>2 DEF FifoInv
<1>4. CASE EndWorker
  <2>1. InHand = 0 /\ InHand' = 0
    BY <1>4 DEF EndWorker, InHand, Idle, Over
  <2>2. channel' = channel /\ accepted' = accepted /\ handed' = handed
    BY <1>4 DEF EndWorker
  <2> QED
    BY <2>1, <2>2 DEF FifoInv
<1>5. CASE UNCHANGED <<channel, worker, accepted, handed>>
  BY <1>5 DEF FifoInv, InHand
<1>6. ASSUME NEW p \in Producers, Lock(p) \/ Enqueue(p) PROVE FifoInv'
  BY <1>1, <1>5, <1>6 DEF Lock, Enqueue, Look, Send
<1>7. ASSUME NEW s \in Stoppers, Enter(s) \/ EnterLate(s) \/ StopOn(s) PROVE FifoInv'
  BY <1>5, <1>7 DEF Enter, EnterLate, StopOn, Acquire, CloseChannel, Return
<1>8. CASE UNCHANGED sinkVars
  BY <1>5, <1>8 DEF sinkVars
<1> QED
  BY <1>2, <1>3, <1>4, <1>6, <1>7, <1>8 DEF SinkNext, WorkerStep

SinkInv == SinkTyped /\ LockInv /\ FifoInv

LEMMA SinkAlways == SinkSpec => []SinkInv
<1>1. SinkInit => SinkInv
  BY SinkTypedInit
  DEF SinkInit, SinkInv, LockInv, FifoInv, InHand, WriterHolds, Idle, Over
<1>2. SinkInv /\ [SinkNext]_sinkVars => SinkInv'
  BY SinkTypedStep, LockInvStep, FifoInvStep DEF SinkInv
<1> QED
  BY <1>1, <1>2, PTL DEF SinkSpec

(***************************************************************************)
(* However many completions and calls of stop interleave, nobody sends on  *)
(* the channel after it was closed (enqueue, stop).                        *)
(***************************************************************************)
THEOREM NoSendAfterClose == SinkSpec => []NeverSendsOnClosed
<1>1. SinkInv => NeverSendsOnClosed
  BY DEF SinkInv, SinkTyped, LockInv, NeverSendsOnClosed
<1> QED
  BY <1>1, SinkAlways, PTL

(***************************************************************************)
(* A call of stop returns only after the sink was called with every event  *)
(* that was accepted, in the order in which they were accepted             *)
(* (AsyncSink), for any size of the queue.                                 *)
(***************************************************************************)
THEOREM StopEmptiesTheQueue == SinkSpec => []EmptiedWhenStopped
<1>1. SinkInv => EmptiedWhenStopped
  <2> SUFFICES ASSUME SinkInv, NEW s \in Stoppers, stopping[s] = "returned"
               PROVE  handed = accepted
    BY DEF EmptiedWhenStopped
  <2>1. worker = Over /\ channel = <<>> /\ InHand = 0
    BY DEF SinkInv, LockInv, InHand
  <2>2. Len(handed) = Len(accepted) /\ \A i \in 1 .. Len(handed) : handed[i] = accepted[i]
    BY <2>1 DEF SinkInv, SinkTyped, FifoInv
  <2> QED
    BY <2>2, SeqEqual DEF SinkInv, SinkTyped
<1> QED
  BY <1>1, SinkAlways, PTL

-----------------------------------------------------------------------------
(***************************************************************************)
(* The maintenance board.  What it rests on is that the end of a closed    *)
(* proposal lies in the past and no later than the end kept for its        *)
(* source: the cooldown is counted from there.                             *)
(***************************************************************************)
Verdicts  == {"proposed", "approved", "rejected", "expired"}
Proposals == [source : Sources, status : Verdicts, created : Nat, ended : Int]

EndKept(p, ends) == p.status # "proposed" => p.ended \in 0 .. ends[p.source]

\* A list of proposals with the ends kept for their sources.
BookOf(list, ends) ==
  /\ list \in Seq(Proposals)
  /\ ends \in [Sources -> Int]
  /\ \A s \in Sources : ends[s] <= clock
  /\ \A i \in DOMAIN list : EndKept(list[i], ends)

ApprovedIn(list) == {i \in DOMAIN list : list[i].status = "approved"}

BoardInv ==
  /\ config \in BoardConfigs /\ clock \in Nat
  /\ BookOf(items, lastEnd)
  /\ orders = ApprovedIn(items)

\* Closing proposals leaves the list as it was but for them.
LEMMA EndedList ==
  ASSUME NEW list \in Seq(Proposals), clock \in Nat, NEW D, NEW how \in Verdicts
  PROVE  /\ Ended(list, D, how) \in Seq(Proposals)
         /\ DOMAIN Ended(list, D, how) = DOMAIN list
         /\ Len(Ended(list, D, how)) = Len(list)
         /\ \A i \in DOMAIN list :
              /\ i \notin D => Ended(list, D, how)[i] = list[i]
              /\ i \in D =>
                   /\ Ended(list, D, how)[i].source = list[i].source
                   /\ Ended(list, D, how)[i].status = how
                   /\ Ended(list, D, how)[i].ended = clock
<1> DEFINE new == Ended(list, D, how)
<1>1. DOMAIN list = 1 .. Len(list) /\ Len(list) \in Nat /\ \A i \in DOMAIN list : list[i] \in Proposals
  BY LenProperties, ElementOfSeq
<1>2. ASSUME NEW i \in DOMAIN list
      PROVE  /\ new[i] \in Proposals
             /\ i \notin D => new[i] = list[i]
             /\ i \in D => /\ new[i].source = list[i].source
                           /\ new[i].status = how /\ new[i].ended = clock
  <2>1. new[i] = IF i \in D THEN [list[i] EXCEPT !.status = how, !.ended = clock] ELSE list[i]
    BY DEF Ended
  <2>2. list[i] \in Proposals
    BY <1>1
  <2> HIDE DEF new
  <2>3. CASE i \in D
    <3>1. [list[i] EXCEPT !.status = how, !.ended = clock] \in Proposals
      <4>1. clock \in Int
        OBVIOUS
      <4>2. [list[i] EXCEPT !.status = how] \in Proposals
        BY <2>2 DEF Proposals
      <4>3. [[list[i] EXCEPT !.status = how] EXCEPT !.ended = clock] \in Proposals
        BY <4>1, <4>2 DEF Proposals
      <4>4. QED
        BY <4>3
    <3>2. /\ [list[i] EXCEPT !.status = how, !.ended = clock].source = list[i].source
          /\ [list[i] EXCEPT !.status = how, !.ended = clock].status = how
          /\ [list[i] EXCEPT !.status = how, !.ended = clock].ended = clock
      BY <2>2 DEF Proposals
    <3>3. QED
      BY <2>1, <2>3, <3>1, <3>2
  <2>4. QED
    BY <2>1, <2>2, <2>3
<1>3. new \in [1 .. Len(list) -> Proposals]
  BY <1>1, <1>2 DEF Ended
<1> HIDE DEF new
<1>4. new \in Seq(Proposals)
  BY <1>1, <1>3, SeqDef
<1>5. DOMAIN new = DOMAIN list /\ Len(new) = Len(list)
  BY <1>1, <1>3, <1>4, LenProperties
<1>6. QED
  BY <1>2, <1>4, <1>5 DEF new

\* It keeps the ends with the list.
LEMMA EndedBook ==
  ASSUME NEW list, NEW ends, BookOf(list, ends), clock \in Nat, NEW D \in SUBSET DOMAIN list,
         NEW how \in Verdicts, DOMAIN list = DOMAIN items,
         \A i \in DOMAIN list : list[i].source = items[i].source
  PROVE  BookOf(Ended(list, D, how), EndsWith(ends, D))
<1> DEFINE new == Ended(list, D, how)
           till == EndsWith(ends, D)
<1>1. /\ new \in Seq(Proposals) /\ DOMAIN new = DOMAIN list
      /\ \A i \in DOMAIN list :
           /\ i \notin D => new[i] = list[i]
           /\ i \in D => new[i].source = list[i].source /\ new[i].ended = clock
  BY EndedList DEF BookOf
<1>2. /\ till \in [Sources -> Int]
      /\ \A s \in Sources : ends[s] <= till[s] /\ till[s] <= clock
      /\ \A i \in D : list[i].source \in Sources => till[list[i].source] = clock
  BY DEF EndsWith, BookOf
<1>3. \A i \in DOMAIN list : list[i] \in Proposals /\ list[i].source \in Sources
  <2>1. list \in Seq(Proposals)
    BY DEF BookOf
  <2>2. \A i \in DOMAIN list : list[i] \in Proposals
    BY <2>1, ElementOfSeq, LenProperties
  <2>3. QED
    BY <2>2 DEF Proposals
<1> HIDE DEF new, till
<1>4. ASSUME NEW i \in DOMAIN new
      PROVE  EndKept(new[i], till)
  <2>1. CASE i \in D
    BY <1>1, <1>2, <1>3, <2>1 DEF EndKept
  <2>2. CASE i \notin D
    <3>1. new[i] = list[i] /\ EndKept(list[i], ends) /\ list[i].source \in Sources
      BY <1>1, <1>3, <1>4, <2>2 DEF BookOf
    <3>2. ends[list[i].source] \in Int /\ till[list[i].source] \in Int
          /\ ends[list[i].source] <= till[list[i].source]
      BY <1>2, <3>1 DEF BookOf
    <3>3. QED
      BY <3>1, <3>2 DEF EndKept
  <2>3. QED
    BY <2>1, <2>2
<1>5. QED
  BY <1>1, <1>2, <1>4 DEF BookOf, new, till

\* Closing what is late touches open proposals only.
LEMMA TidyList ==
  ASSUME BoardInv
  PROVE  /\ BookOf(Current, CurrentEnds)
         /\ Current \in Seq(Proposals)
         /\ DOMAIN Current = DOMAIN items /\ Len(Current) = Len(items)
         /\ DOMAIN items = 1 .. Len(items) /\ Len(items) \in Nat
         /\ ApprovedIn(Current) = ApprovedIn(items)
         /\ \A i \in DOMAIN items :
              /\ items[i] \in Proposals
              /\ Current[i].source = items[i].source
              /\ items[i].status # "proposed" => Current[i] = items[i]
              /\ i \in Open => /\ Current[i] = items[i] /\ items[i].status = "proposed"
                               /\ ~Late(items[i])
<1>1. /\ Expiring \subseteq DOMAIN items /\ "expired" \in Verdicts
      /\ items \in Seq(Proposals) /\ clock \in Nat
  BY DEF Expiring, Verdicts, BoardInv, BookOf
<1>2. BookOf(Current, CurrentEnds)
  BY <1>1, EndedBook DEF Current, CurrentEnds, BoardInv
<1>3. /\ Current \in Seq(Proposals)
      /\ DOMAIN Current = DOMAIN items /\ Len(Current) = Len(items)
      /\ \A i \in DOMAIN items :
           /\ i \notin Expiring => Current[i] = items[i]
           /\ i \in Expiring => Current[i].source = items[i].source /\ Current[i].status = "expired"
  BY <1>1, EndedList DEF Current
<1>4. DOMAIN items = 1 .. Len(items) /\ Len(items) \in Nat /\ \A i \in DOMAIN items : items[i] \in Proposals
  BY <1>1, LenProperties, ElementOfSeq
<1>5. QED
  BY <1>2, <1>3, <1>4 DEF Expiring, Open, ApprovedIn


-----------------------------------------------------------------------------
\* A proposal is decided, a new one is listed, or what is late is closed.
Decides(i, how) ==
  /\ items' = Ended(Current, {i}, how)
  /\ lastEnd' = EndsWith(CurrentEnds, {i})
  /\ orders' = IF how = "approved" THEN orders \cup {i} ELSE orders
  /\ UNCHANGED <<config, clock>>

New(s) == [source |-> s, status |-> "proposed", created |-> clock, ended |-> Never]

Lists(s) ==
  /\ \A i \in Open : items[i].source # s
  /\ ~Resting(s) /\ ~NoRoom
  /\ items' = Append(Current, New(s))
  /\ lastEnd' = CurrentEnds
  /\ UNCHANGED <<config, clock, orders>>

Closes == Tidied /\ UNCHANGED <<config, clock, orders>>

Waits ==
  /\ UNCHANGED <<items, lastEnd, orders>>
  /\ config' \in BoardConfigs /\ clock' \in Nat /\ clock <= clock'

LEMMA BoardMoves ==
  ASSUME BoardInv, [BoardNext]_boardVars
  PROVE  \/ \E i \in Open, how \in {"approved", "rejected"} : Decides(i, how)
         \/ \E s \in Sources : Lists(s)
         \/ Closes \/ Waits
<1>0. config \in BoardConfigs /\ clock \in Nat
  BY DEF BoardInv
<1>1. ASSUME NEW s \in Sources, Propose(s)
      PROVE  Lists(s) \/ Closes
  BY <1>1 DEF Propose, Lists, Closes, New
<1>2. ASSUME NEW i \in DOMAIN items, Approve(i)
      PROVE  (i \in Open /\ Decides(i, "approved")) \/ Closes
  BY <1>2 DEF Approve, Decides, Closes
<1>3. ASSUME NEW i \in DOMAIN items, Reject(i)
      PROVE  (i \in Open /\ Decides(i, "rejected")) \/ Closes
  BY <1>3 DEF Reject, Decides, Closes
<1>4. CASE List
  BY <1>4 DEF List, Closes
<1>5. CASE SetConfig \/ BoardTick \/ UNCHANGED boardVars
  BY <1>0, <1>5 DEF SetConfig, BoardTick, boardVars, Waits
<1>6. QED
  BY <1>1, <1>2, <1>3, <1>4, <1>5 DEF BoardNext

\* What the list looks like after an open proposal was decided.
LEMMA DecidedList ==
  ASSUME BoardInv, NEW i \in Open, NEW how \in {"approved", "rejected"}, Decides(i, how)
  PROVE  /\ BookOf(items, lastEnd)' /\ DOMAIN items' = DOMAIN items
         /\ i \in DOMAIN items /\ items'[i].status = how
         /\ \A k \in DOMAIN items : k # i => items'[k] = Current[k]
<1>1. i \in DOMAIN items /\ how \in Verdicts
  BY DEF Open, Verdicts
<1>2. BookOf(Ended(Current, {i}, how), EndsWith(CurrentEnds, {i}))
  BY <1>1, TidyList, EndedBook DEF BoardInv
<1>3. BookOf(items, lastEnd)'
  BY <1>2 DEF Decides, BookOf
<1>4. QED
  BY <1>1, <1>3, TidyList, EndedList DEF Decides, BoardInv

LEMMA ListedList ==
  ASSUME BoardInv, NEW s \in Sources, Lists(s)
  PROVE  /\ BookOf(items, lastEnd)'
         /\ DOMAIN items' = DOMAIN items \cup {Len(items) + 1} /\ Len(items) + 1 \notin DOMAIN items
         /\ items'[Len(items) + 1].source = s /\ items'[Len(items) + 1].status = "proposed"
         /\ \A k \in DOMAIN items : items'[k] = Current[k]
<1>1. New(s) \in Proposals
  BY DEF New, Proposals, Verdicts, Never, BoardInv
<1>2. /\ items' \in Seq(Proposals) /\ Len(items') = Len(items) + 1
      /\ \A k \in 1 .. Len(items) : items'[k] = Current[k]
      /\ items'[Len(items) + 1] = New(s)
  BY <1>1, TidyList, AppendProperties DEF Lists
<1>3. /\ DOMAIN items' = 1 .. Len(items) + 1 /\ DOMAIN items = 1 .. Len(items) /\ Len(items) \in Nat
      /\ DOMAIN Current = DOMAIN items
  BY <1>2, LenProperties, TidyList
<1>4. DOMAIN items' = DOMAIN items \cup {Len(items) + 1} /\ Len(items) + 1 \notin DOMAIN items
  BY <1>3
<1>5. BookOf(Current, CurrentEnds) /\ New(s).source = s /\ New(s).status = "proposed"
  BY TidyList DEF New
<1>6. lastEnd' = CurrentEnds /\ clock' = clock
  BY DEF Lists
<1>7. \A k \in DOMAIN items' : EndKept(items'[k], lastEnd')
  BY <1>2, <1>3, <1>5, <1>6 DEF BookOf, EndKept
<1>8. QED
  BY <1>2, <1>3, <1>4, <1>5, <1>6, <1>7 DEF BookOf

LEMMA BoardInvInit == BoardInit => BoardInv
<1> SUFFICES ASSUME BoardInit
             PROVE  BoardInv
  OBVIOUS
<1>1. items \in Seq(Proposals) /\ DOMAIN items = {}
  BY EmptySeq DEF BoardInit
<1>2. QED
  BY <1>1 DEF BoardInit, BoardInv, BookOf, ApprovedIn, Never

LEMMA BoardInvStep == BoardInv /\ [BoardNext]_boardVars => BoardInv'
<1> SUFFICES ASSUME BoardInv, [BoardNext]_boardVars
             PROVE  BoardInv'
  OBVIOUS
<1>1. ASSUME NEW i \in Open, NEW how \in {"approved", "rejected"}, Decides(i, how)
      PROVE  BoardInv'
  <2>1. /\ BookOf(items, lastEnd)' /\ DOMAIN items' = DOMAIN items
        /\ i \in DOMAIN items /\ items'[i].status = how
        /\ \A k \in DOMAIN items : k # i => items'[k] = Current[k]
    BY <1>1, DecidedList
  <2>2. orders = ApprovedIn(Current) /\ DOMAIN Current = DOMAIN items
        /\ Current[i].status = "proposed"
    BY TidyList DEF BoardInv, Open
  <2>3. orders' = ApprovedIn(items')
    BY <1>1, <2>1, <2>2 DEF ApprovedIn, Decides
  <2>4. QED
    BY <1>1, <2>1, <2>3 DEF BoardInv, BookOf, Decides, ApprovedIn
<1>2. ASSUME NEW s \in Sources, Lists(s)
      PROVE  BoardInv'
  <2>1. orders = ApprovedIn(Current) /\ DOMAIN Current = DOMAIN items
    BY TidyList DEF BoardInv
  <2>2. /\ BookOf(items, lastEnd)'
        /\ DOMAIN items' = DOMAIN items \cup {Len(items) + 1}
        /\ items'[Len(items) + 1].status = "proposed"
        /\ \A k \in DOMAIN items : items'[k] = Current[k]
    BY <1>2, ListedList
  <2>3. orders' = ApprovedIn(items')
    BY <1>2, <2>1, <2>2 DEF Lists, ApprovedIn
  <2>4. QED
    BY <1>2, <2>2, <2>3 DEF BoardInv, BookOf, Lists, ApprovedIn
<1>3. CASE Closes
  BY <1>3, TidyList DEF Closes, Tidied, BoardInv, BookOf, ApprovedIn
<1>4. CASE Waits
  <2>1. \A s \in Sources : lastEnd[s] \in Int /\ lastEnd[s] <= clock' 
    BY <1>4 DEF Waits, BoardInv, BookOf
  <2>2. QED
    BY <1>4, <2>1 DEF Waits, BoardInv, BookOf, ApprovedIn
<1>5. QED
  BY <1>1, <1>2, <1>3, <1>4, BoardMoves

(***************************************************************************)
(* A job gets into the queue only by the approval of an open proposal that *)
(* is not late by the setting in force, and what was decided stays so, for *)
(* any settings and reloads (Approve, Reject, expireLocked).               *)
(***************************************************************************)
THEOREM OnlyApprovedInTime == BoardSpec => ApprovedInTime
<1> DEFINE Step ==
      /\ \A i \in DOMAIN items : items[i].status # "proposed" => items'[i] = items[i]
      /\ \A i \in orders' \ orders : ~Late(items[i]) /\ items[i].status = "proposed"
      /\ orders' = {i \in DOMAIN items' : items'[i].status = "approved"}
<1>1. BoardInv /\ [BoardNext]_boardVars => Step
  <2> SUFFICES ASSUME BoardInv, [BoardNext]_boardVars
               PROVE  Step
    OBVIOUS
  <2>1. orders' = ApprovedIn(items')
    BY BoardInvStep DEF BoardInv, ApprovedIn
  <2>2. /\ DOMAIN Current = DOMAIN items
        /\ \A i \in DOMAIN items : items[i].status # "proposed" => Current[i] = items[i]
        /\ \A i \in Open : items[i].status = "proposed" /\ ~Late(items[i])
    BY TidyList DEF Open
  <2>3. ASSUME NEW i \in Open, NEW how \in {"approved", "rejected"}, Decides(i, how)
        PROVE  /\ \A k \in DOMAIN items : items[k].status # "proposed" => items'[k] = items[k]
               /\ orders' \subseteq orders \cup Open
    BY <2>2, <2>3, DecidedList DEF Decides
  <2>4. ASSUME NEW s \in Sources, Lists(s)
        PROVE  /\ \A k \in DOMAIN items : items[k].status # "proposed" => items'[k] = items[k]
               /\ orders' = orders
    BY <2>2, <2>4, ListedList DEF Lists
  <2>5. CASE Closes \/ Waits
    BY <2>1, <2>2, <2>5 DEF Closes, Tidied, Waits, ApprovedIn
  <2>6. QED
    BY <2>1, <2>2, <2>3, <2>4, <2>5, BoardMoves DEF ApprovedIn
<1> HIDE DEF Step
<1>2. BoardInit => BoardInv
  BY BoardInvInit
<1>3. QED
  BY <1>1, <1>2, BoardInvStep, PTL DEF BoardSpec, ApprovedInTime, Step

(***************************************************************************)
(* A new proposal is the only open one of its source, has room, and comes  *)
(* a cooldown after the latest end of that source, for any settings and    *)
(* reloads (Propose).                                                      *)
(***************************************************************************)
THEOREM ProposalsRest == BoardSpec => RestsBetweenProposals
<1> DEFINE Step ==
      \A n \in DOMAIN items' \ DOMAIN items :
        LET earlier == {i \in DOMAIN items : items[i].source = items'[n].source}
            open == {i \in DOMAIN items' : items'[i].status = "proposed"}
        IN  /\ \A i \in earlier :
                 /\ items'[i].status # "proposed"
                 /\ clock - items'[i].ended >= config.cooldown
            /\ config.maxOpen > 0 => Cardinality(open) <= config.maxOpen
<1>1. BoardInv /\ [BoardNext]_boardVars => Step
  <2> SUFFICES ASSUME BoardInv, [BoardNext]_boardVars
               PROVE  Step
    OBVIOUS
  <2>1. ASSUME NEW s \in Sources, Lists(s)
        PROVE  Step
    <3> DEFINE n == Len(items) + 1
               open == {i \in DOMAIN items' : items'[i].status = "proposed"}
    <3>1. /\ DOMAIN items' = DOMAIN items \cup {n} /\ n \notin DOMAIN items
          /\ items'[n].source = s /\ items'[n].status = "proposed"
          /\ \A k \in DOMAIN items : items'[k] = Current[k]
      BY <2>1, ListedList
    <3>2. /\ DOMAIN items = 1 .. Len(items) /\ Len(items) \in Nat
          /\ BookOf(Current, CurrentEnds) /\ DOMAIN Current = DOMAIN items
          /\ \A i \in DOMAIN items : Current[i].source = items[i].source
      BY TidyList
    <3>3. config.cooldown \in Int /\ config.maxOpen \in Int /\ clock \in Nat
      BY BoardAssumption DEF BoardInv, BoardConfigType
    <3>4. ASSUME NEW i \in DOMAIN items, items[i].source = s
          PROVE  Current[i].status # "proposed" /\ clock - Current[i].ended >= config.cooldown
      <4>1. i \notin Open
        BY <2>1, <3>4 DEF Lists
      <4>2. Current[i].status # "proposed"
        BY <4>1 DEF Open
      <4>3. /\ CurrentEnds[s] \in Int /\ CurrentEnds[s] <= clock
            /\ Current[i].ended \in 0 .. CurrentEnds[s]
        BY <3>2, <3>4, <4>2 DEF BookOf, EndKept
      <4>4. config.cooldown > 0 => clock - CurrentEnds[s] >= config.cooldown
        BY <2>1, <3>3, <4>3 DEF Lists, Resting, Never
      <4>5. QED
        BY <3>3, <4>2, <4>3, <4>4
    <3>5. open = Open \cup {n} /\ n \notin Open
      BY <3>1, <3>2 DEF Open
    <3>6. IsFiniteSet(Open)
      <4>1. IsFiniteSet(1 .. Len(items))
        BY <3>2, FS_Interval
      <4>2. QED
        BY <3>2, <4>1, FS_Subset DEF Open
    <3>7. Cardinality(open) = Cardinality(Open) + 1 /\ Cardinality(Open) \in Nat
      BY <3>5, <3>6, FS_AddElement, FS_CardinalityType
    <3>8. config.maxOpen > 0 => ~(Cardinality(Open) >= config.maxOpen)
      BY <2>1 DEF Lists, NoRoom
    <3> HIDE DEF n, open
    <3>9. config.maxOpen > 0 => Cardinality(open) <= config.maxOpen
      BY <3>3, <3>7, <3>8
    <3>10. QED
      BY <3>1, <3>4, <3>9 DEF open
  <2>2. ASSUME DOMAIN items' = DOMAIN items
        PROVE  Step
    BY <2>2
  <2>3. QED
    BY <2>1, <2>2, BoardMoves, DecidedList, TidyList DEF Closes, Tidied, Waits
<1> HIDE DEF Step
<1>2. QED
  BY <1>1, BoardInvInit, BoardInvStep, PTL DEF BoardSpec, RestsBetweenProposals, Step

-----------------------------------------------------------------------------
(***************************************************************************)
(* The confirmation of tools.  What is kept of a robot is the answer of    *)
(* the pass that ended last among those that asked it, and no pass begins  *)
(* after one that ends later.                                              *)
(***************************************************************************)
PassesCounted ==
  /\ passes \in Nat
  /\ began \in [Calls -> 0 .. passes]
  /\ \A r \in Carriers : \A w \in words[r] :
       w.after \in Nat /\ w.number \in 1 .. passes /\ w.after < w.number

\* The answer w is what is kept of r.
KeptAs(w, r) == w.tool = seen[r].tool /\ w.at = seen[r].at

ConfirmInv ==
  /\ PassesCounted
  /\ \A r \in Carriers : seen[r].tool # Silence => \E w \in Unrevoked(r) : KeptAs(w, r)

LEMMA ConfirmInvInit == ConfirmInit => ConfirmInv
<1> SUFFICES ASSUME ConfirmInit
             PROVE  ConfirmInv
  OBVIOUS
<1>1. PassesCounted
  BY DEF ConfirmInit, PassesCounted
<1>2. \A r \in Carriers : seen[r].tool = Silence
  BY DEF ConfirmInit, Nothing
<1>3. QED
  BY <1>1, <1>2 DEF ConfirmInit, ConfirmInv

\* The answers a call keeps are the last word on the robots it asked.
LEMMA AnswersReplace ==
  ASSUME ConfirmInv, NEW p \in Calls, KeepAnswers(p)
  PROVE  ConfirmInv'
<1> DEFINE word(r) == [tool |-> answers[p][r].tool, heard |-> answers[p][r].heard,
                       at |-> tick, number |-> passes + 1, after |-> began[p]]
<1>1. /\ passes' = passes + 1 /\ passes \in Nat /\ began[p] \in 0 .. passes
      /\ words' = [r \in Carriers |->
                     IF r \in asking[p] THEN words[r] \cup {word(r)} ELSE words[r]]
      /\ seen' = [r \in Carriers |-> Remembered(p, r)]
      /\ began' = [began EXCEPT ![p] = 0]
  BY DEF KeepAnswers, ConfirmInv, PassesCounted
<1>2. \A r : /\ word(r).tool = answers[p][r].tool /\ word(r).at = tick
             /\ word(r).number = passes + 1 /\ word(r).after = began[p]
  OBVIOUS
<1> HIDE DEF word
<1>3. \A r \in Carriers : \A w \in words[r] :
        w.after \in Nat /\ w.number \in 1 .. passes /\ w.after < w.number
  BY DEF ConfirmInv, PassesCounted
<1>4. \A r \in Carriers :
        /\ words[r] \subseteq words'[r]
        /\ \A w \in words'[r] : w \in words[r] \/ w = word(r)
  BY <1>1
<1>5. PassesCounted'
  <2>1. began' \in [Calls -> 0 .. passes']
    BY <1>1 DEF ConfirmInv, PassesCounted
  <2>2. ASSUME NEW r \in Carriers, NEW w \in words'[r]
        PROVE  w.after \in Nat /\ w.number \in 1 .. passes' /\ w.after < w.number
    <3>1. CASE w \in words[r]
      BY <1>1, <1>3, <3>1
    <3>2. CASE w = word(r)
      BY <1>1, <1>2, <3>2
    <3>3. QED
      BY <1>4, <2>2, <3>1, <3>2
  <2>3. QED
    BY <1>1, <2>1, <2>2 DEF PassesCounted
<1>6. ASSUME NEW r \in Carriers, seen'[r].tool # Silence
      PROVE  (\E w \in Unrevoked(r) : KeptAs(w, r))'
  <2>1. CASE r \in asking[p]
    <3>1. answers[p][r].tool # Silence
          /\ seen'[r] = [tool |-> answers[p][r].tool, at |-> tick]
      BY <1>1, <1>6, <2>1 DEF Remembered, Nothing
    <3>2. word(r) \in words'[r]
      BY <1>1, <2>1
    <3>3. \A v \in words'[r] : ~(v.after >= word(r).number)
      BY <1>1, <1>2, <1>3, <1>4
    <3>4. word(r) \in Unrevoked(r)'
      BY <3>2, <3>3 DEF Unrevoked
    <3>5. word(r).tool = seen'[r].tool /\ word(r).at = seen'[r].at
      BY <1>2, <3>1
    <3>6. QED
      BY <3>4, <3>5 DEF KeptAs
  <2>2. CASE r \notin asking[p]
    <3>1. seen'[r] = seen[r] /\ words'[r] = words[r]
      BY <1>1, <1>6, <2>2 DEF Remembered, Nothing
    <3>2. QED
      BY <1>6, <3>1 DEF ConfirmInv, Unrevoked, KeptAs
  <2>3. QED
    BY <2>1, <2>2
<1>7. QED
  BY <1>1, <1>5, <1>6 DEF ConfirmInv

LEMMA ConfirmInvStep == ConfirmInv /\ [ConfirmNext]_confirmVars => ConfirmInv'
<1> SUFFICES ASSUME ConfirmInv, [ConfirmNext]_confirmVars
             PROVE  ConfirmInv'
  OBVIOUS
<1>1. ASSUME UNCHANGED <<seen, words, passes>>, began' \in [Calls -> 0 .. passes]
      PROVE  ConfirmInv'
  BY <1>1 DEF ConfirmInv, PassesCounted, Unrevoked, KeptAs
<1>2. ASSUME NEW p \in Calls, StartAsking(p)
      PROVE  ConfirmInv'
  <2>1. began' = [began EXCEPT ![p] = passes] /\ UNCHANGED <<seen, words, passes>>
    BY <1>2 DEF StartAsking
  <2>2. began' \in [Calls -> 0 .. passes]
    BY <2>1 DEF ConfirmInv, PassesCounted
  <2>3. QED
    BY <1>1, <2>1, <2>2
<1>3. CASE \/ \E p \in Calls : GiveNothing(p) \/ \E r \in Carriers : Ask(p, r) \/ \E t \in Heads : Give(p, r, t)
           \/ \E r \in Carriers : Stand(r)
           \/ ConfirmTick
           \/ UNCHANGED confirmVars
  <2>1. UNCHANGED <<seen, words, passes, began>>
    BY <1>3 DEF GiveNothing, Ask, Give, Stand, ConfirmTick, confirmVars
  <2>2. QED
    BY <1>1, <2>1 DEF ConfirmInv, PassesCounted
<1>4. QED
  BY <1>2, <1>3, AnswersReplace DEF ConfirmNext

(***************************************************************************)
(* With "skip", a job that needs a tool goes to a robot by the last word   *)
(* of its controller, a lifetime old at most, however many calls of        *)
(* POST /dispatch ask and give away at the same time (ConfirmTools).       *)
(***************************************************************************)
THEOREM GivenByLastWord == ConfirmSpec => LastWord
<1> DEFINE Step ==
      \A p \in Calls, r \in Carriers, t \in Heads :
        unconfirmed = "skip" /\ Give(p, r, t) =>
          \E w \in Unrevoked(r) : w.tool = t /\ tick - w.at <= Lifetime
<1>1. ConfirmInv => Step
  <2> SUFFICES ASSUME ConfirmInv, NEW p \in Calls, NEW r \in Carriers, NEW t \in Heads,
                      unconfirmed = "skip", Give(p, r, t)
               PROVE  \E w \in Unrevoked(r) : w.tool = t /\ tick - w.at <= Lifetime
    OBVIOUS
  <2>1. seen[r].tool # Silence /\ seen[r].tool = t /\ tick - seen[r].at <= Lifetime
    BY DEF Give, MayTake
  <2>2. QED
    BY <2>1 DEF ConfirmInv, KeptAs
<1> HIDE DEF Step
<1>2. QED
  BY <1>1, ConfirmInvInit, ConfirmInvStep, PTL DEF ConfirmSpec, LastWord, Step

-----------------------------------------------------------------------------
(***************************************************************************)
(* Rising sequences of event ids, and what they hold.                      *)
(***************************************************************************)
AllBefore(S, T) == \A x \in S, y \in T : x < y

LEMMA HeldIds ==
  ASSUME NEW s \in Seq(Nat)
  PROVE  /\ Range(s) \subseteq Nat
         /\ DOMAIN s = 1 .. Len(s) /\ Len(s) \in Nat
         /\ \A i \in 1 .. Len(s) : s[i] \in Nat /\ s[i] \in Range(s)
         /\ \A x \in Range(s) : \E i \in 1 .. Len(s) : x = s[i]
BY LenProperties, ElementOfSeq DEF Range

LEMMA NothingHeld == <<>> \in Seq(Nat) /\ Range(<<>>) = {} /\ Rising(<<>>) /\ Len(<<>>) = 0
<1>1. <<>> \in Seq(Nat) /\ Len(<<>>) = 0
  BY EmptySeq
<1>2. DOMAIN <<>> = {}
  BY <1>1, LenProperties
<1>3. QED
  BY <1>1, <1>2 DEF Range, Rising

LEMMA AppendedIds ==
  ASSUME NEW s \in Seq(Nat), NEW e \in Nat, Rising(s), AllBefore(Range(s), {e})
  PROVE  /\ Append(s, e) \in Seq(Nat) /\ Len(Append(s, e)) = Len(s) + 1
         /\ Rising(Append(s, e)) /\ Range(Append(s, e)) = Range(s) \cup {e}
<1> DEFINE t == Append(s, e)
<1>1. /\ t \in Seq(Nat) /\ Len(t) = Len(s) + 1
      /\ \A i \in 1 .. Len(s) : t[i] = s[i]
      /\ t[Len(s) + 1] = e
  BY AppendProperties
<1>2. /\ DOMAIN t = 1 .. Len(s) + 1 /\ DOMAIN s = 1 .. Len(s) /\ Len(s) \in Nat
      /\ \A i \in 1 .. Len(s) : s[i] \in Nat /\ s[i] < e
  BY <1>1, HeldIds DEF AllBefore
<1> HIDE DEF t
<1>3. Range(t) = Range(s) \cup {e}
  BY <1>1, <1>2 DEF Range
<1>4. Rising(t)
  <2> SUFFICES ASSUME NEW i \in 1 .. Len(s) + 1, NEW j \in 1 .. Len(s) + 1, i < j
               PROVE  t[i] < t[j]
    BY <1>2 DEF Rising
  <2>1. i \in 1 .. Len(s) /\ (j \in 1 .. Len(s) \/ j = Len(s) + 1)
    BY <1>2
  <2>2. QED
    BY <1>1, <1>2, <2>1 DEF Rising
<1>5. QED
  BY <1>1, <1>3, <1>4 DEF t

LEMMA TakenIds ==
  ASSUME NEW s \in Seq(Nat), s # <<>>, Rising(s)
  PROVE  /\ Head(s) \in Nat /\ Tail(s) \in Seq(Nat) /\ Len(Tail(s)) = Len(s) - 1 /\ Len(s) > 0
         /\ Rising(Tail(s)) /\ Range(s) = {Head(s)} \cup Range(Tail(s))
         /\ AllBefore({Head(s)}, Range(Tail(s)))
<1> DEFINE t == Tail(s)
<1>1. /\ Head(s) \in Nat /\ t \in Seq(Nat) /\ Len(t) = Len(s) - 1 /\ Len(s) > 0
      /\ \A i \in 1 .. Len(t) : t[i] = s[i + 1]
      /\ Head(s) = s[1]
  BY HeadTailProperties, EmptySeq
<1> HIDE DEF t
<1>2. /\ DOMAIN t = 1 .. Len(t) /\ DOMAIN s = 1 .. Len(s) /\ Len(s) \in Nat /\ Len(t) \in Nat
      /\ \A i \in 1 .. Len(s) : s[i] \in Nat
  BY <1>1, HeldIds
<1>3. Rising(t)
  <2> SUFFICES ASSUME NEW i \in 1 .. Len(t), NEW j \in 1 .. Len(t), i < j
               PROVE  t[i] < t[j]
    BY <1>2 DEF Rising
  <2>1. i + 1 \in 1 .. Len(s) /\ j + 1 \in 1 .. Len(s) /\ i + 1 < j + 1
    BY <1>1, <1>2
  <2>2. s[i + 1] < s[j + 1]
    BY <1>2, <2>1 DEF Rising
  <2>3. QED
    BY <1>1, <2>2
<1>4. Range(s) = {Head(s)} \cup Range(t)
  <2>1. ASSUME NEW i \in 1 .. Len(s)
        PROVE  s[i] = Head(s) \/ s[i] \in Range(t)
    <3>1. CASE i = 1
      BY <1>1, <3>1
    <3>2. CASE i # 1
      <4>1. i - 1 \in 1 .. Len(t) /\ t[i - 1] = s[i]
        BY <1>1, <1>2, <3>2
      <4>2. QED
        BY <1>2, <4>1 DEF Range
    <3>3. QED
      BY <3>1, <3>2
  <2>2. ASSUME NEW i \in 1 .. Len(t)
        PROVE  t[i] \in Range(s)
    <3>1. i + 1 \in 1 .. Len(s) /\ t[i] = s[i + 1]
      BY <1>1, <1>2
    <3>2. QED
      BY <1>2, <3>1 DEF Range
  <2>3. Head(s) \in Range(s)
    <3>1. 1 \in DOMAIN s /\ Head(s) = s[1]
      BY <1>1, <1>2
    <3>2. QED
      BY <3>1 DEF Range
  <2>4. QED
    BY <1>2, <2>1, <2>2, <2>3 DEF Range
<1>5. AllBefore({Head(s)}, Range(t))
  <2>1. ASSUME NEW i \in 1 .. Len(t)
        PROVE  Head(s) < t[i]
    <3>1. 1 \in 1 .. Len(s) /\ i + 1 \in 1 .. Len(s) /\ 1 < i + 1
      BY <1>1, <1>2
    <3>2. QED
      BY <1>1, <1>2, <3>1 DEF Rising
  <2>2. QED
    BY <1>2, <2>1 DEF AllBefore, Range
<1>6. QED
  BY <1>1, <1>3, <1>4, <1>5 DEF t

LEMMA JoinedIds ==
  ASSUME NEW s \in Seq(Nat), NEW t \in Seq(Nat), Rising(s), Rising(t), AllBefore(Range(s), Range(t))
  PROVE  s \o t \in Seq(Nat) /\ Rising(s \o t) /\ Range(s \o t) = Range(s) \cup Range(t)
<1> DEFINE u == s \o t
<1>1. /\ u \in Seq(Nat) /\ Len(u) = Len(s) + Len(t)
      /\ \A i \in 1 .. Len(s) + Len(t) : u[i] = IF i <= Len(s) THEN s[i] ELSE t[i - Len(s)]
  BY ConcatProperties
<1> HIDE DEF u
<1>2. /\ DOMAIN u = 1 .. Len(s) + Len(t) /\ DOMAIN s = 1 .. Len(s) /\ DOMAIN t = 1 .. Len(t)
      /\ Len(s) \in Nat /\ Len(t) \in Nat
  BY <1>1, HeldIds
<1>3. /\ \A i \in 1 .. Len(s) : s[i] \in Range(s) /\ s[i] \in Nat
      /\ \A i \in 1 .. Len(t) : t[i] \in Range(t) /\ t[i] \in Nat
  BY HeldIds
<1>4. Rising(u)
  <2> SUFFICES ASSUME NEW i \in 1 .. Len(s) + Len(t), NEW j \in 1 .. Len(s) + Len(t), i < j
               PROVE  u[i] < u[j]
    BY <1>2 DEF Rising
  <2>1. CASE j <= Len(s)
    <3>1. i \in 1 .. Len(s) /\ j \in 1 .. Len(s) /\ u[i] = s[i] /\ u[j] = s[j]
      BY <1>1, <1>2, <2>1
    <3>2. QED
      BY <1>2, <3>1 DEF Rising
  <2>2. CASE i > Len(s)
    <3>1. /\ i - Len(s) \in 1 .. Len(t) /\ j - Len(s) \in 1 .. Len(t)
          /\ i - Len(s) < j - Len(s) /\ j > Len(s)
      BY <1>2, <2>2
    <3>2. u[i] = t[i - Len(s)] /\ u[j] = t[j - Len(s)]
      BY <1>1, <1>2, <2>2, <3>1
    <3>3. QED
      BY <1>2, <3>1, <3>2 DEF Rising
  <2>3. CASE i <= Len(s) /\ j > Len(s)
    <3>1. /\ i \in 1 .. Len(s) /\ j - Len(s) \in 1 .. Len(t)
          /\ u[i] = s[i] /\ u[j] = t[j - Len(s)]
      BY <1>1, <1>2, <2>3
    <3>2. QED
      BY <1>3, <3>1 DEF AllBefore
  <2>4. QED
    BY <1>2, <2>1, <2>2, <2>3
<1>5. Range(u) = Range(s) \cup Range(t)
  <2>1. ASSUME NEW i \in 1 .. Len(s) + Len(t)
        PROVE  u[i] \in Range(s) \cup Range(t)
    <3>1. CASE i <= Len(s)
      BY <1>1, <1>2, <1>3, <3>1
    <3>2. CASE i > Len(s)
      <4>1. i - Len(s) \in 1 .. Len(t) /\ u[i] = t[i - Len(s)]
        BY <1>1, <1>2, <3>2
      <4>2. QED
        BY <1>3, <4>1
    <3>3. QED
      BY <1>2, <3>1, <3>2
  <2>2. ASSUME NEW i \in 1 .. Len(s)
        PROVE  s[i] \in Range(u)
    <3>1. i \in 1 .. Len(s) + Len(t) /\ u[i] = s[i]
      BY <1>1, <1>2
    <3>2. QED
      BY <1>2, <3>1 DEF Range
  <2>3. ASSUME NEW i \in 1 .. Len(t)
        PROVE  t[i] \in Range(u)
    <3>1. /\ i + Len(s) \in 1 .. Len(s) + Len(t) /\ ~(i + Len(s) <= Len(s))
          /\ (i + Len(s)) - Len(s) = i
      BY <1>2
    <3>2. u[i + Len(s)] = t[i]
      BY <1>1, <3>1
    <3>3. QED
      BY <1>2, <3>1, <3>2 DEF Range
  <2>4. QED
    BY <1>2, <2>1, <2>2, <2>3 DEF Range
<1>6. QED
  BY <1>1, <1>4, <1>5 DEF u

-----------------------------------------------------------------------------
(***************************************************************************)
(* Every event reaches whoever listens for it.  What was read, not offered *)
(* or is under way is all there is up to some event, and what is under way *)
(* comes in the order of the ids, after all that was read.                 *)
(***************************************************************************)
QueueTyped ==
  /\ next \in Nat
  /\ queue \in [Subscribers -> Seq(Nat)]
  /\ wire \in [Streams -> Seq(Nat)] /\ replay \in [Streams -> Seq(Nat)]
  /\ last \in [Streams -> Nat] /\ event \in [Hooks -> Nat]
  /\ got \in [Streams -> SUBSET Nat] /\ lost \in [Streams -> SUBSET Nat]

\* The ring holds the latest events.
RingInv ==
  /\ ring \in Seq(Nat) /\ Len(ring) <= next
  /\ \A i \in 1 .. Len(ring) : ring[i] = next - Len(ring) + i

\* What a stream has under way, in its three places.
UnderWay(c) ==
  /\ Rising(wire[c]) /\ Rising(replay[c]) /\ Rising(queue[c])
  /\ AllBefore(Range(wire[c]), Range(replay[c]) \cup Range(queue[c]))
  /\ AllBefore(Range(replay[c]), Range(queue[c]))

OnTheirWay(c) == Range(wire[c]) \cup Range(replay[c]) \cup Range(queue[c])

Dealt(c) == got[c] \cup lost[c] \cup OnTheirWay(c)

StreamInv(c) ==
  /\ UnderWay(c)
  /\ AllBefore(got[c], OnTheirWay(c))
  /\ \A e \in got[c] : e <= last[c]
  /\ Dealt(c) \subseteq 1 .. next
  /\ at[c] = "on" => \E n \in 0 .. next : Dealt(c) = 1 .. n /\ (c \in subs => n = next)

HookInv(h) ==
  /\ Rising(queue[h])
  /\ event[h] <= next /\ Range(queue[h]) \subseteq 1 .. next
  /\ AllBefore({event[h]}, Range(queue[h]))
  /\ h \in subs => Range(queue[h]) = next - Len(queue[h]) + 1 .. next

EventsInv ==
  /\ HubInv /\ QueueTyped /\ RingInv
  /\ \A c \in Streams : StreamInv(c)
  /\ \A h \in Hooks : HookInv(h)

-----------------------------------------------------------------------------
(* The ring. *)

LEMMA RingHolds ==
  ASSUME QueueTyped, RingInv
  PROVE  Rising(ring) /\ Range(ring) = next - Len(ring) + 1 .. next
<1>1. next \in Nat /\ DOMAIN ring = 1 .. Len(ring) /\ Len(ring) \in Nat /\ Len(ring) <= next
  BY HeldIds DEF QueueTyped, RingInv
<1>2. \A i \in 1 .. Len(ring) : ring[i] = next - Len(ring) + i
  BY DEF RingInv
<1>3. Rising(ring)
  BY <1>1, <1>2 DEF Rising
<1>4. ASSUME NEW e \in next - Len(ring) + 1 .. next
      PROVE  e \in Range(ring)
  <2>1. e - (next - Len(ring)) \in 1 .. Len(ring)
    BY <1>1
  <2>2. ring[e - (next - Len(ring))] = e
    BY <1>1, <1>2, <2>1
  <2>3. QED
    BY <1>1, <2>1, <2>2 DEF Range
<1>5. ASSUME NEW e \in Range(ring)
      PROVE  e \in next - Len(ring) + 1 .. next
  <2>1. PICK i \in 1 .. Len(ring) : e = ring[i]
    BY <1>1 DEF Range
  <2>2. QED
    BY <1>1, <1>2, <2>1
<1>6. QED
  BY <1>3, <1>4, <1>5

LEMMA RingGrows ==
  ASSUME QueueTyped, RingInv, Publish
  PROVE  RingInv'
<1> DEFINE all == Append(ring, next + 1)
<1>1. /\ next \in Nat /\ ring \in Seq(Nat) /\ Len(ring) \in Nat /\ Len(ring) <= next
      /\ \A i \in 1 .. Len(ring) : ring[i] = next - Len(ring) + i
      /\ next' = next + 1 /\ ring' = Kept(all) /\ Buffer \in Nat \ {0}
  BY HeldIds, EventHubAssumption DEF QueueTyped, RingInv, Publish
<1>2. /\ all \in Seq(Nat) /\ Len(all) = Len(ring) + 1
      /\ \A i \in 1 .. Len(ring) : all[i] = ring[i]
      /\ all[Len(ring) + 1] = next + 1
  BY <1>1, AppendProperties
<1> HIDE DEF all
<1>3. \A i \in 1 .. Len(all) : all[i] = next - Len(ring) + i /\ all[i] \in Nat
  <2> SUFFICES ASSUME NEW i \in 1 .. Len(all)
               PROVE  all[i] = next - Len(ring) + i /\ all[i] \in Nat
    OBVIOUS
  <2>1. i \in 1 .. Len(ring) \/ i = Len(ring) + 1
    BY <1>1, <1>2
  <2>2. CASE i \in 1 .. Len(ring)
    <3>1. all[i] = next - Len(ring) + i
      BY <1>1, <1>2, <2>2
    <3>2. next - Len(ring) + i \in Nat
      BY <1>1, <2>2
    <3>3. QED
      BY <3>1, <3>2
  <2>3. CASE i = Len(ring) + 1
    <3>1. all[i] = next + 1
      BY <1>2, <2>3
    <3>2. next + 1 = next - Len(ring) + i /\ next + 1 \in Nat
      BY <1>1, <2>3
    <3>3. QED
      BY <3>1, <3>2
  <2>4. QED
    BY <2>1, <2>2, <2>3
<1>4. CASE Len(all) > Buffer
  <2> DEFINE m == Len(all) - Buffer + 1
  <2>1. m \in Int /\ Len(all) \in Int /\ m \in 1 .. Len(all) /\ Len(all) - m + 1 = Buffer
    BY <1>1, <1>2, <1>4
  <2>2. \A i \in m .. Len(all) : all[i] \in Nat
    BY <1>3, <2>1
  <2>3. ring' = SubSeq(all, m, Len(all))
    BY <1>1, <1>4 DEF Kept
  <2> HIDE DEF m
  <2>4. /\ ring' \in Seq(Nat) /\ Len(ring') = Buffer
        /\ \A i \in 1 .. Buffer : ring'[i] = all[m + i - 1]
    BY <2>1, <2>2, <2>3, SubSeqProperties
  <2>5. \A i \in 1 .. Buffer : m + i - 1 \in 1 .. Len(all) /\ m = Len(all) - Buffer + 1
    BY <1>1, <2>1 DEF m
  <2>6. ASSUME NEW i \in 1 .. Buffer
        PROVE  ring'[i] = next' - Buffer + i
    <3>1. m + i - 1 \in 1 .. Len(all) /\ ring'[i] = all[m + i - 1]
      BY <2>4, <2>5
    <3>2. ring'[i] = next - Len(ring) + (m + i - 1) /\ m = Len(all) - Buffer + 1
      BY <1>3, <2>5, <3>1
    <3>3. QED
      BY <1>1, <1>2, <3>2
  <2>7. Buffer <= next'
    BY <1>1, <1>2, <1>4
  <2>8. QED
    BY <2>4, <2>6, <2>7 DEF RingInv
<1>5. CASE ~(Len(all) > Buffer)
  <2>1. ring' = all
    BY <1>1, <1>5 DEF Kept
  <2>2. Len(all) <= next' /\ next - Len(ring) = next' - Len(all)
    BY <1>1, <1>2
  <2>3. QED
    BY <1>2, <1>3, <2>1, <2>2 DEF RingInv
<1>6. QED
  BY <1>4, <1>5

\* What Subscribe returns are the events of the ring after the given one.
LEMMA ReplayIsTheRest ==
  ASSUME QueueTyped, RingInv, NEW id \in Nat
  PROVE  /\ ReplayAfter(id) \in Seq(Nat) /\ Rising(ReplayAfter(id))
         /\ Range(ReplayAfter(id)) = {e \in Range(ring) : e > id}
<1> DEFINE k == IF id < next - Len(ring) THEN 0
                ELSE IF id > next THEN Len(ring) ELSE id - (next - Len(ring))
           old == {i \in DOMAIN ring : ring[i] <= id}
           rest == SubSeq(ring, k + 1, Len(ring))
<1>1. /\ next \in Nat /\ ring \in Seq(Nat) /\ Len(ring) \in Nat /\ Len(ring) <= next
      /\ DOMAIN ring = 1 .. Len(ring)
      /\ \A i \in 1 .. Len(ring) : ring[i] = next - Len(ring) + i
  BY HeldIds DEF QueueTyped, RingInv
<1>2. k \in 0 .. Len(ring)
  BY <1>1
<1>3. old = 1 .. k
  BY <1>1
<1>4. \A i \in 1 .. Len(ring) : i > k <=> next - Len(ring) + i > id
  BY <1>1
<1> HIDE DEF k
<1>5. Cardinality(old) = k
  <2> HIDE DEF old
  <2>1. Cardinality(1 .. k) = IF 1 > k THEN 0 ELSE k - 1 + 1
    BY <1>2, FS_Interval
  <2>2. QED
    BY <1>2, <1>3, <2>1
<1>6. ReplayAfter(id) = rest
  BY <1>5 DEF ReplayAfter, RingAfter
<1>7. \A i \in k + 1 .. Len(ring) : ring[i] \in Nat
  BY <1>1, <1>2, HeldIds
<1>8. /\ rest \in Seq(Nat) /\ Len(rest) = Len(ring) - k
      /\ \A i \in 1 .. Len(ring) - k : rest[i] = ring[k + i]
  <2>1. k + 1 \in Int /\ Len(ring) \in Int
    BY <1>1, <1>2
  <2>2. /\ rest \in Seq(Nat)
        /\ Len(rest) = IF k + 1 <= Len(ring) THEN Len(ring) - (k + 1) + 1 ELSE 0
        /\ \A i \in 1 .. Len(ring) - (k + 1) + 1 : rest[i] = ring[(k + 1) + i - 1]
    BY <1>7, <2>1, SubSeqProperties
  <2> HIDE DEF rest
  <2>3. Len(ring) \in Nat /\ k \in Nat /\ k <= Len(ring)
    BY <1>1, <1>2
  <2>4. Len(ring) - (k + 1) + 1 = Len(ring) - k
    BY <2>3
  <2>5. (IF k + 1 <= Len(ring) THEN Len(ring) - (k + 1) + 1 ELSE 0) = Len(ring) - k
    BY <2>3
  <2>6. \A i \in 1 .. Len(ring) - k : (k + 1) + i - 1 = k + i
    BY <2>3
  <2>7. QED
    BY <2>2, <2>4, <2>5, <2>6
<1> HIDE DEF rest, old
<1>9. DOMAIN rest = 1 .. Len(ring) - k
  BY <1>8, HeldIds
<1>10. \A i \in 1 .. Len(ring) - k : k + i \in 1 .. Len(ring) /\ rest[i] = next - Len(ring) + (k + i)
  BY <1>1, <1>2, <1>8
<1>11. Rising(rest)
  <2> SUFFICES ASSUME NEW i \in 1 .. Len(ring) - k, NEW j \in 1 .. Len(ring) - k, i < j
               PROVE  rest[i] < rest[j]
    BY <1>9 DEF Rising
  <2>1. rest[i] = next - Len(ring) + (k + i) /\ rest[j] = next - Len(ring) + (k + j)
    BY <1>10
  <2>2. QED
    BY <1>1, <1>2, <2>1
<1>12. ASSUME NEW e \in Range(rest)
       PROVE  e \in Range(ring) /\ e > id
  <2>1. PICK i \in 1 .. Len(ring) - k : e = rest[i]
    BY <1>9 DEF Range
  <2>2. k + i \in 1 .. Len(ring) /\ e = ring[k + i] /\ k + i > k
    BY <1>2, <1>8, <1>10, <2>1
  <2>3. QED
    BY <1>1, <1>4, <2>2 DEF Range
<1>13. ASSUME NEW e \in Range(ring), e > id
       PROVE  e \in Range(rest)
  <2>1. PICK i \in 1 .. Len(ring) : e = ring[i]
    BY <1>1 DEF Range
  <2>2. i > k
    BY <1>1, <1>4, <1>13, <2>1
  <2>3. i - k \in 1 .. Len(ring) - k /\ k + (i - k) = i
    BY <1>1, <1>2, <2>1, <2>2
  <2>4. rest[i - k] = e
    BY <1>8, <2>1, <2>3
  <2>5. QED
    BY <1>9, <2>3, <2>4 DEF Range
<1>14. QED
  BY <1>6, <1>8, <1>11, <1>12, <1>13

-----------------------------------------------------------------------------
(* The streams. *)

\* Nothing of a stream is touched.
LEMMA StreamUntouched ==
  ASSUME NEW c \in Streams, StreamInv(c), next' = next,
         wire'[c] = wire[c], replay'[c] = replay[c], queue'[c] = queue[c],
         got'[c] = got[c], lost'[c] = lost[c], last'[c] = last[c],
         at'[c] = "on" => at[c] = "on", c \in subs' => c \in subs
  PROVE  StreamInv(c)'
BY DEF StreamInv, UnderWay, OnTheirWay, Dealt

LEMMA StreamEmpty ==
  ASSUME NEW c \in Streams, next' = 0, wire'[c] = <<>>, replay'[c] = <<>>, queue'[c] = <<>>,
         got'[c] = {}, lost'[c] = {}, at'[c] = "away"
  PROVE  StreamInv(c)'
BY NothingHeld DEF StreamInv, UnderWay, OnTheirWay, Dealt, AllBefore

LEMMA StreamsPublish ==
  ASSUME EventsInv, Publish, NEW c \in Streams
  PROVE  StreamInv(c)'
<1> DEFINE e == next + 1
<1>1. /\ StreamInv(c) /\ next \in Nat /\ queue[c] \in Seq(Nat) /\ e \in Nat
      /\ c \in Subscribers
  BY DEF EventsInv, QueueTyped, Subscribers
<1>2. /\ next' = e /\ wire' = wire /\ replay' = replay /\ got' = got /\ lost' = lost
      /\ last' = last /\ at' = at /\ subs' = subs \ Full
      /\ queue'[c] = IF c \in subs \ Full THEN Append(queue[c], e) ELSE queue[c]
  BY <1>1 DEF Publish, clients
<1>3. Dealt(c) \subseteq 1 .. next /\ 1 .. next \subseteq 1 .. e /\ 1 .. e = 1 .. next \cup {e}
  BY <1>1 DEF StreamInv
<1>4. CASE c \in subs \ Full
  <2>1. AllBefore(Dealt(c), {e})
    BY <1>1, <1>3 DEF AllBefore
  <2>2. /\ Rising(queue'[c]) /\ Range(queue'[c]) = Range(queue[c]) \cup {e}
    <3>1. Rising(queue[c]) /\ AllBefore(Range(queue[c]), {e})
      BY <1>1, <2>1 DEF StreamInv, UnderWay, Dealt, OnTheirWay, AllBefore
    <3>2. QED
      BY <1>1, <1>2, <1>4, <3>1, AppendedIds
  <2>3. OnTheirWay(c)' = OnTheirWay(c) \cup {e} /\ Dealt(c)' = Dealt(c) \cup {e}
    BY <1>2, <2>2 DEF OnTheirWay, Dealt
  <2>4. UnderWay(c)'
    BY <1>1, <1>2, <2>1, <2>2 DEF StreamInv, UnderWay, Dealt, OnTheirWay, AllBefore
  <2>5. AllBefore(got'[c], OnTheirWay(c)')
    BY <1>1, <1>2, <2>1, <2>3 DEF StreamInv, Dealt, AllBefore
  <2>6. Dealt(c)' \subseteq 1 .. next'
    BY <1>2, <1>3, <2>3
  <2>7. at'[c] = "on" => Dealt(c)' = 1 .. next'
    BY <1>1, <1>2, <1>3, <1>4, <2>3 DEF StreamInv
  <2>8. next' \in 0 .. next'
    BY <1>1, <1>2
  <2>9. QED
    BY <1>1, <1>2, <2>4, <2>5, <2>6, <2>7, <2>8 DEF StreamInv
<1>5. CASE c \notin subs \ Full
  <2>1. OnTheirWay(c)' = OnTheirWay(c) /\ Dealt(c)' = Dealt(c) /\ UnderWay(c)'
    BY <1>1, <1>2, <1>5 DEF StreamInv, OnTheirWay, Dealt, UnderWay
  <2>2. Dealt(c)' \subseteq 1 .. next'
    BY <1>2, <1>3, <2>1
  <2>3. 0 .. next \subseteq 0 .. next' /\ c \notin subs'
    BY <1>1, <1>2, <1>5
  <2>4. QED
    BY <1>1, <1>2, <2>1, <2>2, <2>3 DEF StreamInv
<1>6. QED
  BY <1>4, <1>5

LEMMA StreamConnects ==
  ASSUME EventsInv, NEW c \in Streams, Connect(c)
  PROVE  StreamInv(c)'
<1>1. /\ StreamInv(c) /\ next \in Nat /\ c \in Subscribers /\ last[c] \in Nat
      /\ queue \in [Subscribers -> Seq(Nat)] /\ replay \in [Streams -> Seq(Nat)]
      /\ lost \in [Streams -> SUBSET Nat]
  BY DEF EventsInv, QueueTyped, Subscribers
<1> DEFINE missed == {e \in 1 .. next : e \notin got[c] /\ (e \notin Range(ring) \/ e <= last[c])}
<1>2. /\ next' = next /\ wire' = wire /\ wire[c] = <<>> /\ got' = got /\ last' = last
      /\ queue'[c] = <<>> /\ replay'[c] = ReplayAfter(last[c])
      /\ lost'[c] = lost[c] \cup missed
  BY <1>1 DEF Connect, Subscribed
<1>3. /\ Rising(replay'[c]) /\ Range(replay'[c]) = {e \in Range(ring) : e > last[c]}
      /\ Range(ring) = next - Len(ring) + 1 .. next /\ Len(ring) \in Nat /\ Len(ring) <= next
  BY <1>1, <1>2, ReplayIsTheRest, RingHolds, HeldIds DEF EventsInv, RingInv
<1>4. Range(ring) \subseteq 1 .. next
  BY <1>1, <1>3
<1>5. OnTheirWay(c)' = {e \in Range(ring) : e > last[c]}
  BY <1>2, <1>3, NothingHeld DEF OnTheirWay
<1>6. UnderWay(c)'
  BY <1>2, <1>3, NothingHeld DEF UnderWay, AllBefore
<1>7. AllBefore(got'[c], OnTheirWay(c)')
  <2>1. /\ \A e \in got[c] : e <= last[c] /\ e \in Nat
        /\ \A e \in Range(ring) : e \in Nat
    BY <1>1, <1>4 DEF StreamInv, Dealt
  <2>2. QED
    BY <1>1, <1>2, <1>5, <2>1 DEF AllBefore
<1>8. Dealt(c)' = got[c] \cup lost[c] \cup missed \cup {e \in Range(ring) : e > last[c]}
  BY <1>2, <1>5 DEF Dealt
<1>9. got[c] \subseteq 1 .. next /\ lost[c] \subseteq 1 .. next
  BY <1>1 DEF StreamInv, Dealt
<1>10. ASSUME NEW e \in 1 .. next
       PROVE  e \in Dealt(c)'
  <2>1. e <= last[c] \/ e > last[c]
    BY <1>1
  <2>2. QED
    BY <1>8, <2>1
<1>11. Dealt(c)' = 1 .. next'
  BY <1>2, <1>4, <1>8, <1>9, <1>10
<1>12. next' \in 0 .. next'
  BY <1>1, <1>2
<1>13. QED
  BY <1>1, <1>2, <1>6, <1>7, <1>11, <1>12 DEF StreamInv

LEMMA StreamWrites ==
  ASSUME EventsInv, NEW c \in Streams, Write(c)
  PROVE  StreamInv(c)'
<1>1. /\ StreamInv(c) /\ c \in Subscribers
      /\ queue \in [Subscribers -> Seq(Nat)] /\ replay \in [Streams -> Seq(Nat)]
      /\ wire \in [Streams -> Seq(Nat)]
  BY DEF EventsInv, QueueTyped, Subscribers
<1>2. /\ next' = next /\ at' = at /\ last' = last /\ got' = got /\ lost' = lost /\ subs' = subs
  BY DEF Write, channels
<1>3. /\ wire[c] \in Seq(Nat) /\ replay[c] \in Seq(Nat) /\ queue[c] \in Seq(Nat)
      /\ Rising(wire[c]) /\ Rising(replay[c]) /\ Rising(queue[c])
      /\ AllBefore(Range(wire[c]), Range(replay[c]) \cup Range(queue[c]))
      /\ AllBefore(Range(replay[c]), Range(queue[c]))
  BY <1>1 DEF StreamInv, UnderWay
<1>4. ASSUME UnderWay(c)', OnTheirWay(c)' = OnTheirWay(c)
      PROVE  StreamInv(c)'
  BY <1>1, <1>2, <1>4 DEF StreamInv, Dealt
<1>5. CASE replay[c] # <<>> /\ wire'[c] = Append(wire[c], Head(replay[c]))
           /\ replay'[c] = Tail(replay[c]) /\ queue'[c] = queue[c]
  <2> DEFINE e == Head(replay[c])
  <2>1. /\ e \in Nat /\ Rising(replay'[c]) /\ Range(replay[c]) = {e} \cup Range(replay'[c])
        /\ AllBefore({e}, Range(replay'[c]))
    BY <1>3, <1>5, TakenIds
  <2> HIDE DEF e
  <2>2. Rising(wire'[c]) /\ Range(wire'[c]) = Range(wire[c]) \cup {e}
    <3>1. AllBefore(Range(wire[c]), {e})
      BY <1>3, <2>1 DEF AllBefore
    <3>2. QED
      BY <1>3, <1>5, <2>1, <3>1, AppendedIds DEF e
  <2>3. UnderWay(c)'
    BY <1>3, <1>5, <2>1, <2>2 DEF UnderWay, AllBefore
  <2>4. OnTheirWay(c)' = OnTheirWay(c)
    BY <1>5, <2>1, <2>2 DEF OnTheirWay
  <2>5. QED
    BY <1>4, <2>3, <2>4
<1>6. CASE replay[c] = <<>> /\ queue[c] # <<>> /\ replay'[c] = replay[c]
           /\ wire'[c] = Append(wire[c], Head(queue[c])) /\ queue'[c] = Tail(queue[c])
  <2> DEFINE e == Head(queue[c])
  <2>1. /\ e \in Nat /\ Rising(queue'[c]) /\ Range(queue[c]) = {e} \cup Range(queue'[c])
        /\ AllBefore({e}, Range(queue'[c]))
    BY <1>3, <1>6, TakenIds
  <2> HIDE DEF e
  <2>2. Rising(wire'[c]) /\ Range(wire'[c]) = Range(wire[c]) \cup {e}
    <3>1. AllBefore(Range(wire[c]), {e})
      BY <1>3, <2>1 DEF AllBefore
    <3>2. QED
      BY <1>3, <1>6, <2>1, <3>1, AppendedIds DEF e
  <2>3. Range(replay[c]) = {}
    BY <1>6, NothingHeld
  <2>4. UnderWay(c)'
    BY <1>3, <1>6, <2>1, <2>2, <2>3 DEF UnderWay, AllBefore
  <2>5. OnTheirWay(c)' = OnTheirWay(c)
    BY <1>6, <2>1, <2>2 DEF OnTheirWay
  <2>6. QED
    BY <1>4, <2>4, <2>5
<1>7. QED
  BY <1>1, <1>5, <1>6 DEF Write, channels

LEMMA StreamReads ==
  ASSUME EventsInv, NEW c \in Streams, Read(c)
  PROVE  StreamInv(c)'
<1>1. /\ StreamInv(c) /\ wire \in [Streams -> Seq(Nat)] /\ last \in [Streams -> Nat]
      /\ got \in [Streams -> SUBSET Nat]
  BY DEF EventsInv, QueueTyped
<1> DEFINE e == Head(wire[c])
<1>2. /\ next' = next /\ at' = at /\ lost' = lost /\ subs' = subs
      /\ queue' = queue /\ replay' = replay
      /\ wire'[c] = Tail(wire[c]) /\ wire[c] # <<>> /\ last'[c] = e /\ got'[c] = got[c] \cup {e}
  BY <1>1 DEF Read, channels
<1>3. /\ wire[c] \in Seq(Nat) /\ Rising(wire[c]) /\ Rising(replay[c]) /\ Rising(queue[c])
      /\ AllBefore(Range(wire[c]), Range(replay[c]) \cup Range(queue[c]))
      /\ AllBefore(Range(replay[c]), Range(queue[c]))
      /\ AllBefore(got[c], OnTheirWay(c)) /\ got[c] \subseteq Nat
  BY <1>1 DEF StreamInv, UnderWay
<1>4. /\ e \in Nat /\ Rising(wire'[c]) /\ Range(wire[c]) = {e} \cup Range(wire'[c])
      /\ AllBefore({e}, Range(wire'[c]))
  BY <1>2, <1>3, TakenIds
<1> HIDE DEF e
<1>5. UnderWay(c)'
  BY <1>2, <1>3, <1>4 DEF UnderWay, AllBefore
<1>6. AllBefore(got'[c], OnTheirWay(c)')
  BY <1>2, <1>3, <1>4 DEF OnTheirWay, AllBefore
<1>7. \A x \in got'[c] : x <= last'[c]
  <2>1. e \in OnTheirWay(c)
    BY <1>4 DEF OnTheirWay
  <2>2. QED
    BY <1>2, <1>3, <1>4, <2>1 DEF AllBefore
<1>8. Dealt(c)' = Dealt(c)
  BY <1>2, <1>4 DEF Dealt, OnTheirWay
<1>9. QED
  BY <1>1, <1>2, <1>5, <1>6, <1>7, <1>8 DEF StreamInv

\* A stream that is not served loses what was under way.
LEMMA StreamLoses ==
  ASSUME EventsInv, NEW c \in Streams,
         next' = next, got' = got, lost' = lost, last' = last, at'[c] # "on",
         wire'[c] = wire[c] \/ wire'[c] = <<>>,
         replay'[c] = replay[c] \/ replay'[c] = <<>>,
         queue'[c] = queue[c] \/ queue'[c] = <<>>
  PROVE  StreamInv(c)'
<1>1. StreamInv(c)
  BY DEF EventsInv
<1>2. /\ Rising(wire'[c]) /\ Range(wire'[c]) \subseteq Range(wire[c])
      /\ Rising(replay'[c]) /\ Range(replay'[c]) \subseteq Range(replay[c])
      /\ Rising(queue'[c]) /\ Range(queue'[c]) \subseteq Range(queue[c])
  BY <1>1, NothingHeld DEF StreamInv, UnderWay
<1>3. UnderWay(c)'
  BY <1>1, <1>2 DEF StreamInv, UnderWay, AllBefore
<1>4. OnTheirWay(c)' \subseteq OnTheirWay(c)
  BY <1>2 DEF OnTheirWay
<1>5. AllBefore(got'[c], OnTheirWay(c)') /\ Dealt(c)' \subseteq 1 .. next'
  BY <1>1, <1>4 DEF StreamInv, Dealt, AllBefore
<1>6. QED
  BY <1>1, <1>3, <1>5 DEF StreamInv

-----------------------------------------------------------------------------
(* The hooks. *)

LEMMA HookUntouched ==
  ASSUME NEW h \in Hooks, HookInv(h), next' = next, queue'[h] = queue[h],
         event'[h] = event[h], h \in subs' => h \in subs
  PROVE  HookInv(h)'
BY DEF HookInv

\* The latest l of the ids up to n.
LEMMA LatestIds ==
  ASSUME NEW n \in Nat, NEW l \in Nat
  PROVE  /\ n - 0 + 1 .. n = {}
         /\ l > 0 => n - l + 1 \in n - l + 1 .. n /\ n - l + 1 \in Int
         /\ (n + 1) - (l + 1) + 1 = n - l + 1
         /\ (n - l + 1 .. n) \cup {n + 1} = n - l + 1 .. n + 1
<1>1. n - 0 + 1 .. n = {}
  OBVIOUS
<1>2. l > 0 => n - l + 1 \in n - l + 1 .. n /\ n - l + 1 \in Int
  OBVIOUS
<1>3. (n + 1) - (l + 1) + 1 = n - l + 1
  OBVIOUS
<1>4. \A x : x \in n - l + 1 .. n + 1 <=> x \in n - l + 1 .. n \/ x = n + 1
  OBVIOUS
<1>5. QED
  BY <1>1, <1>2, <1>3, <1>4

LEMMA HookFresh ==
  ASSUME NEW h \in Hooks, next' \in Nat, queue'[h] = <<>>, event'[h] \in Nat, event'[h] <= next'
  PROVE  HookInv(h)'
<1>1. next' - 0 + 1 .. next' = {}
  BY LatestIds
<1>2. QED
  BY <1>1, NothingHeld DEF HookInv, AllBefore

LEMMA HooksPublish ==
  ASSUME EventsInv, Publish, NEW h \in Hooks
  PROVE  HookInv(h)'
<1> DEFINE e == next + 1
<1>1. /\ HookInv(h) /\ next \in Nat /\ queue[h] \in Seq(Nat) /\ e \in Nat
      /\ h \in Subscribers /\ event[h] \in Nat /\ Len(queue[h]) \in Nat
  BY HeldIds DEF EventsInv, QueueTyped, Subscribers
<1>2. /\ next' = e /\ event' = event /\ subs' = subs \ Full
      /\ queue'[h] = IF h \in subs \ Full THEN Append(queue[h], e) ELSE queue[h]
  BY <1>1 DEF Publish, hooks
<1>3. /\ Rising(queue[h]) /\ event[h] <= next /\ Range(queue[h]) \subseteq 1 .. next
      /\ AllBefore({event[h]}, Range(queue[h]))
      /\ h \in subs => Range(queue[h]) = next - Len(queue[h]) + 1 .. next
  BY <1>1 DEF HookInv
<1>4. event[h] <= e /\ event[h] < e /\ 1 .. e = 1 .. next \cup {e}
  BY <1>1, <1>3
<1>5. CASE h \in subs \ Full
  <2>1. AllBefore(Range(queue[h]), {e})
    BY <1>1, <1>3 DEF AllBefore
  <2>2. /\ Rising(queue'[h]) /\ Range(queue'[h]) = Range(queue[h]) \cup {e}
        /\ Len(queue'[h]) = Len(queue[h]) + 1
    BY <1>1, <1>2, <1>3, <1>5, <2>1, AppendedIds
  <2>3. Len(queue[h]) <= next
    <3>1. CASE Len(queue[h]) = 0
      BY <1>1, <3>1
    <3>2. CASE Len(queue[h]) > 0
      <4>1. /\ next - Len(queue[h]) + 1 \in next - Len(queue[h]) + 1 .. next
            /\ Range(queue[h]) = next - Len(queue[h]) + 1 .. next
        BY <1>1, <1>3, <1>5, <3>2, LatestIds
      <4>2. next - Len(queue[h]) + 1 \in 1 .. next
        BY <1>3, <4>1
      <4>3. QED
        BY <1>1, <4>2
    <3>3. QED
      BY <1>1, <3>1, <3>2
  <2>4. Range(queue'[h]) = next' - Len(queue'[h]) + 1 .. next'
    <3>0. (next + 1) - (Len(queue[h]) + 1) + 1 = next - Len(queue[h]) + 1
      BY <1>1, LatestIds
    <3>1. next' - Len(queue'[h]) + 1 = next - Len(queue[h]) + 1
      BY <1>2, <2>2, <3>0
    <3>2. (next - Len(queue[h]) + 1 .. next) \cup {e} = next - Len(queue[h]) + 1 .. e
      BY <1>1, LatestIds
    <3>3. QED
      BY <1>2, <1>3, <1>5, <2>2, <3>1, <3>2
  <2>5. AllBefore({event'[h]}, Range(queue'[h])) /\ Range(queue'[h]) \subseteq 1 .. next'
    BY <1>2, <1>3, <1>4, <2>2 DEF AllBefore
  <2>6. QED
    BY <1>2, <1>4, <2>2, <2>4, <2>5 DEF HookInv
<1>6. CASE h \notin subs \ Full
  BY <1>2, <1>3, <1>4, <1>6 DEF HookInv
<1>7. QED
  BY <1>5, <1>6

LEMMA HookTakes ==
  ASSUME EventsInv, NEW h \in Hooks, Take(h)
  PROVE  HookInv(h)'
<1>1. /\ HookInv(h) /\ next \in Nat /\ queue \in [Subscribers -> Seq(Nat)]
      /\ h \in Subscribers /\ event \in [Hooks -> Nat]
  BY DEF EventsInv, QueueTyped, Subscribers
<1> DEFINE e == Head(queue[h])
           q == Tail(queue[h])
<1>2. /\ next' = next /\ subs' = subs /\ queue[h] # <<>>
      /\ queue'[h] = q /\ event'[h] = e
  BY <1>1 DEF Take, HookUnchanged
<1>3. /\ Rising(queue[h]) /\ Range(queue[h]) \subseteq 1 .. next
      /\ h \in subs => Range(queue[h]) = next - Len(queue[h]) + 1 .. next
  BY <1>1 DEF HookInv
<1>4. /\ e \in Nat /\ Len(q) = Len(queue[h]) - 1 /\ Len(queue[h]) > 0
      /\ Rising(q) /\ Range(queue[h]) = {e} \cup Range(q) /\ AllBefore({e}, Range(q))
      /\ Len(queue[h]) \in Nat
  BY <1>1, <1>2, <1>3, TakenIds, HeldIds
<1> HIDE DEF e, q
<1>5. e <= next /\ Range(q) \subseteq 1 .. next
  <2>1. e \in 1 .. next
    BY <1>3, <1>4
  <2>2. QED
    BY <1>1, <1>3, <1>4, <2>1
<1>6. ASSUME h \in subs
      PROVE  Range(q) = next - Len(q) + 1 .. next
  <2> DEFINE f == next - Len(queue[h]) + 1
  <2>1. {e} \cup Range(q) = f .. next /\ f \in Int /\ next - Len(q) + 1 = f + 1
    BY <1>1, <1>3, <1>4, <1>6
  <2>2. f \in f .. next
    BY <1>1, <1>4
  <2> HIDE DEF f
  <2>3. e = f
    BY <1>4, <2>1, <2>2 DEF AllBefore
  <2>4. f \notin Range(q)
    BY <1>4, <2>1, <2>3 DEF AllBefore
  <2>5. f + 1 .. next = (f .. next) \ {f}
    BY <1>1, <2>1
  <2>6. QED
    BY <2>1, <2>3, <2>4, <2>5
<1>7. QED
  BY <1>2, <1>4, <1>5, <1>6 DEF HookInv

-----------------------------------------------------------------------------

LEMMA EventsInvInit == HubInit => EventsInv
<1> SUFFICES ASSUME HubInit PROVE EventsInv
  OBVIOUS
<1>1. HubInv
  BY HubInvInit
<1>2. QueueTyped
  BY NothingHeld DEF HubInit, QueueTyped
<1>3. RingInv
  BY NothingHeld DEF HubInit, RingInv
<1>4. ASSUME NEW c \in Streams
      PROVE  StreamInv(c)
  <2>1. c \in Subscribers /\ c \notin Hooks
    BY EventHubAssumption DEF Subscribers
  <2>2. /\ wire[c] = <<>> /\ replay[c] = <<>> /\ queue[c] = <<>> /\ got[c] = {} /\ lost[c] = {}
        /\ at[c] = "away"
    BY <2>1 DEF HubInit
  <2>3. QED
    BY <2>2, NothingHeld DEF StreamInv, UnderWay, OnTheirWay, Dealt, AllBefore
<1>5. ASSUME NEW h \in Hooks
      PROVE  HookInv(h)
  <2>1. next = 0 /\ event[h] = 0 /\ queue[h] = <<>>
    BY DEF HubInit, Subscribers
  <2>2. next - 0 + 1 .. next = {}
    BY <2>1, LatestIds
  <2>3. QED
    BY <2>1, <2>2, NothingHeld DEF HookInv, AllBefore
<1>6. QED
  BY <1>1, <1>2, <1>3, <1>4, <1>5 DEF EventsInv

LEMMA QueuesKeepTheirTypes == EventsInv /\ [HubNext]_hubVars => QueueTyped'
<1> SUFFICES ASSUME EventsInv, [HubNext]_hubVars PROVE QueueTyped'
  OBVIOUS
<1>1. /\ next \in Nat /\ queue \in [Subscribers -> Seq(Nat)]
      /\ wire \in [Streams -> Seq(Nat)] /\ replay \in [Streams -> Seq(Nat)]
      /\ last \in [Streams -> Nat] /\ event \in [Hooks -> Nat]
      /\ got \in [Streams -> SUBSET Nat] /\ lost \in [Streams -> SUBSET Nat]
  BY DEF EventsInv, QueueTyped
<1>2. <<>> \in Seq(Nat)
  BY NothingHeld
<1>3. \A q \in Seq(Nat) : q # <<>> => Head(q) \in Nat /\ Tail(q) \in Seq(Nat)
  BY HeadTailProperties, EmptySeq
<1>4. \A q \in Seq(Nat), e \in Nat : Append(q, e) \in Seq(Nat)
  BY AppendProperties
<1>5. CASE Publish
  <2>1. queue' \in [Subscribers -> Seq(Nat)] /\ next' \in Nat
    BY <1>1, <1>4, <1>5 DEF Publish
  <2>2. QED
    BY <1>1, <1>5, <2>1 DEF Publish, clients, hooks, QueueTyped
<1>6. CASE Close
  BY <1>1, <1>6 DEF Close, channels, clients, hooks, QueueTyped
<1>7. CASE HubRestart
  BY <1>1, <1>2, <1>7 DEF HubRestart, QueueTyped
<1>8. ASSUME NEW c \in Streams, Connect(c) \/ StreamStep(c) \/ Break(c) PROVE QueueTyped'
  <2>0. c \in Subscribers /\ c \notin Hooks
    BY EventHubAssumption DEF Subscribers
  <2>1. CASE Connect(c)
    <3>1. ReplayAfter(last[c]) \in Seq(Nat)
      BY <1>1, ReplayIsTheRest DEF EventsInv
    <3>2. queue' \in [Subscribers -> Seq(Nat)] /\ replay' \in [Streams -> Seq(Nat)]
      BY <1>1, <1>2, <2>0, <2>1, <3>1 DEF Connect, Subscribed
    <3>3. lost' \in [Streams -> SUBSET Nat]
      BY <1>1, <2>1 DEF Connect
    <3>4. QED
      BY <1>1, <2>1, <3>2, <3>3 DEF Connect, hooks, QueueTyped
  <2>2. CASE Write(c)
    <3>1. /\ wire' \in [Streams -> Seq(Nat)] /\ replay' \in [Streams -> Seq(Nat)]
          /\ queue' \in [Subscribers -> Seq(Nat)]
      <4>1. CASE replay[c] # <<>>
        <5>1. Head(replay[c]) \in Nat /\ Tail(replay[c]) \in Seq(Nat)
          BY <1>1, <1>3, <4>1
        <5>2. Append(wire[c], Head(replay[c])) \in Seq(Nat)
          BY <1>1, <1>4, <5>1
        <5>3. QED
          BY <1>1, <2>2, <4>1, <5>1, <5>2 DEF Write, channels
      <4>2. CASE replay[c] = <<>>
        <5>1. queue[c] # <<>> /\ Head(queue[c]) \in Nat /\ Tail(queue[c]) \in Seq(Nat)
          BY <1>1, <1>3, <2>0, <2>2, <4>2 DEF Write
        <5>2. Append(wire[c], Head(queue[c])) \in Seq(Nat)
          BY <1>1, <1>4, <5>1
        <5>3. QED
          BY <1>1, <2>0, <2>2, <4>2, <5>1, <5>2 DEF Write
      <4>3. QED
        BY <4>1, <4>2
    <3>2. QED
      BY <1>1, <2>2, <3>1 DEF Write, hooks, QueueTyped
  <2>3. CASE Leave(c)
    <3>1. replay' \in [Streams -> Seq(Nat)] /\ queue' \in [Subscribers -> Seq(Nat)]
      BY <1>1, <1>2, <2>0, <2>3 DEF Leave, Cancelled
    <3>2. QED
      BY <1>1, <2>3, <3>1 DEF Leave, hooks, QueueTyped
  <2>4. CASE Read(c)
    <3>1. /\ wire' \in [Streams -> Seq(Nat)] /\ last' \in [Streams -> Nat]
          /\ got' \in [Streams -> SUBSET Nat]
      BY <1>1, <1>3, <2>4 DEF Read
    <3>2. QED
      BY <1>1, <2>4, <3>1 DEF Read, channels, hooks, QueueTyped
  <2>5. CASE Break(c)
    BY <1>1, <1>2, <2>5 DEF Break, channels, hooks, QueueTyped
  <2> QED
    BY <1>8, <2>1, <2>2, <2>3, <2>4, <2>5 DEF StreamStep
<1>9. ASSUME NEW h \in Hooks, HookStep(h) PROVE QueueTyped'
  <2>0. h \in Subscribers
    BY DEF Subscribers
  <2>1. CASE Take(h)
    <3>1. queue' \in [Subscribers -> Seq(Nat)] /\ event' \in [Hooks -> Nat]
      BY <1>1, <1>3, <2>0, <2>1 DEF Take
    <3>2. QED
      BY <1>1, <2>1, <3>1 DEF Take, HookUnchanged, clients, QueueTyped
  <2>2. CASE Resubscribe(h)
    BY <1>1, <1>2, <2>0, <2>2 DEF Resubscribe, Subscribed, HookUnchanged, clients, hooks, QueueTyped
  <2>3. CASE Answer(h)
    BY <1>1, <2>3 DEF Answer, HookUnchanged, channels, clients, hooks, QueueTyped
  <2>4. CASE AfterPause(h)
    BY <1>1, <2>4 DEF AfterPause, HookUnchanged, channels, clients, QueueTyped
  <2>5. CASE HookStop(h)
    BY <1>1, <1>2, <2>0, <2>5 DEF HookStop, Cancelled, HookUnchanged, clients, hooks, QueueTyped
  <2> QED
    BY <1>9, <2>1, <2>2, <2>3, <2>4, <2>5 DEF HookStep
<1>10. CASE UNCHANGED hubVars
  BY <1>1, <1>10 DEF hubVars, channels, clients, hooks, QueueTyped
<1> QED
  BY <1>5, <1>6, <1>7, <1>8, <1>9, <1>10 DEF HubNext

LEMMA RingInvStep == EventsInv /\ [HubNext]_hubVars => RingInv'
<1> SUFFICES ASSUME EventsInv, [HubNext]_hubVars PROVE RingInv'
  OBVIOUS
<1>1. RingInv /\ QueueTyped
  BY DEF EventsInv
<1>2. CASE Publish
  BY <1>1, <1>2, RingGrows
<1>3. CASE HubRestart
  BY <1>3, NothingHeld DEF HubRestart, RingInv
<1>4. CASE ring' = ring /\ next' = next
  BY <1>1, <1>4 DEF RingInv
<1>5. ASSUME NEW c \in Streams, Connect(c) \/ StreamStep(c) \/ Break(c)
      PROVE  ring' = ring /\ next' = next
  BY <1>5 DEF Connect, StreamStep, Write, Leave, Read, Break
<1>6. ASSUME NEW h \in Hooks, HookStep(h)
      PROVE  ring' = ring /\ next' = next
  BY <1>6 DEF HookStep, Take, Resubscribe, Answer, AfterPause, HookStop, HookUnchanged
<1> QED
  BY <1>2, <1>3, <1>4, <1>5, <1>6 DEF HubNext, Close, hubVars

LEMMA StreamInvStep ==
  ASSUME EventsInv, [HubNext]_hubVars, NEW c \in Streams
  PROVE  StreamInv(c)'
<1>1. /\ StreamInv(c) /\ c \in Subscribers /\ c \notin Hooks /\ Streams \subseteq Subscribers
      /\ at \in [Subscribers ->
           {"away", "on", "broken", "ended", "wait", "post", "pause", "stopped"}]
      /\ queue \in [Subscribers -> Seq(Nat)]
      /\ wire \in [Streams -> Seq(Nat)] /\ replay \in [Streams -> Seq(Nat)]
      /\ last \in [Streams -> Nat]
      /\ got \in [Streams -> SUBSET Nat] /\ lost \in [Streams -> SUBSET Nat]
  BY EventHubAssumption DEF EventsInv, HubInv, QueueTyped, Subscribers
<1> DEFINE Same == /\ next' = next /\ wire'[c] = wire[c] /\ replay'[c] = replay[c]
                   /\ queue'[c] = queue[c] /\ got'[c] = got[c] /\ lost'[c] = lost[c]
                   /\ last'[c] = last[c] /\ (at'[c] = "on" => at[c] = "on")
                   /\ (c \in subs' => c \in subs)
<1>2. ASSUME Same PROVE StreamInv(c)'
  BY <1>1, <1>2, StreamUntouched
<1>3. CASE Publish
  BY <1>3, StreamsPublish
<1>4. CASE Close
  BY <1>2, <1>4 DEF Close, channels, clients
<1>5. CASE HubRestart
  BY <1>1, <1>5, StreamEmpty DEF HubRestart
<1>6. ASSUME NEW d \in Streams, d # c, Connect(d) \/ StreamStep(d) \/ Break(d)
      PROVE  Same
  <2>0. d \in Subscribers
    BY <1>1
  <2>1. CASE Connect(d)
    BY <1>1, <1>6, <2>0, <2>1 DEF Connect, Subscribed
  <2>2. CASE Write(d)
    BY <1>1, <1>6, <2>0, <2>2 DEF Write, channels
  <2>3. CASE Leave(d)
    BY <1>1, <1>6, <2>0, <2>3 DEF Leave, Cancelled
  <2>4. CASE Read(d)
    BY <1>1, <1>6, <2>0, <2>4 DEF Read, channels
  <2>5. CASE Break(d)
    BY <1>1, <1>6, <2>0, <2>5 DEF Break, channels
  <2> QED
    BY <1>6, <2>1, <2>2, <2>3, <2>4, <2>5 DEF StreamStep
<1>7. CASE Connect(c)
  BY <1>7, StreamConnects
<1>8. CASE Write(c)
  BY <1>8, StreamWrites
<1>9. CASE Leave(c)
  <2>1. /\ next' = next /\ got' = got /\ lost' = lost /\ last' = last /\ at'[c] # "on"
        /\ wire' = wire /\ replay'[c] = <<>> /\ queue'[c] = <<>>
    BY <1>1, <1>9 DEF Leave, Cancelled
  <2>2. QED
    BY <2>1, StreamLoses
<1>10. CASE Read(c)
  BY <1>10, StreamReads
<1>11. CASE Break(c)
  <2>1. /\ next' = next /\ got' = got /\ lost' = lost /\ last' = last /\ at'[c] # "on"
        /\ wire'[c] = <<>> /\ replay' = replay /\ queue' = queue
    BY <1>1, <1>11 DEF Break, channels
  <2>2. QED
    BY <2>1, StreamLoses
<1>12. ASSUME NEW h \in Hooks, HookStep(h)
       PROVE  Same
  <2>0. h \in Subscribers /\ h # c
    BY <1>1 DEF Subscribers
  <2>1. CASE Take(h)
    BY <1>1, <2>0, <2>1 DEF Take, HookUnchanged, clients
  <2>2. CASE Resubscribe(h)
    BY <1>1, <2>0, <2>2 DEF Resubscribe, Subscribed, HookUnchanged, clients
  <2>3. CASE Answer(h)
    BY <1>1, <2>0, <2>3 DEF Answer, HookUnchanged, channels, clients
  <2>4. CASE AfterPause(h)
    BY <1>1, <2>0, <2>4 DEF AfterPause, HookUnchanged, channels, clients
  <2>5. CASE HookStop(h)
    BY <1>1, <2>0, <2>5 DEF HookStop, Cancelled, HookUnchanged, clients
  <2> QED
    BY <1>12, <2>1, <2>2, <2>3, <2>4, <2>5 DEF HookStep
<1>13. CASE UNCHANGED hubVars
  BY <1>2, <1>13 DEF hubVars, channels, clients
<1> HIDE DEF Same
<1>14. CASE \E d \in Streams : Connect(d) \/ StreamStep(d) \/ Break(d)
  BY <1>2, <1>6, <1>7, <1>8, <1>9, <1>10, <1>11, <1>14 DEF StreamStep
<1>15. CASE \E h \in Hooks : HookStep(h)
  BY <1>2, <1>12, <1>15
<1> QED
  BY <1>3, <1>4, <1>5, <1>13, <1>14, <1>15 DEF HubNext

LEMMA HookInvStep ==
  ASSUME EventsInv, [HubNext]_hubVars, NEW h \in Hooks
  PROVE  HookInv(h)'
<1>1. /\ HookInv(h) /\ h \in Subscribers /\ h \notin Streams /\ Hooks \subseteq Subscribers
      /\ next \in Nat /\ queue \in [Subscribers -> Seq(Nat)] /\ event \in [Hooks -> Nat]
  BY EventHubAssumption DEF EventsInv, QueueTyped, Subscribers
<1> DEFINE Same == /\ next' = next /\ queue'[h] = queue[h] /\ event'[h] = event[h]
                   /\ (h \in subs' => h \in subs)
<1>2. ASSUME Same PROVE HookInv(h)'
  BY <1>1, <1>2, HookUntouched
<1>3. CASE Publish
  BY <1>3, HooksPublish
<1>4. CASE Close
  BY <1>2, <1>4 DEF Close, channels, hooks
<1>5. CASE HubRestart
  <2>1. next' = 0 /\ queue'[h] = <<>> /\ event'[h] = 0
    BY <1>1, <1>5 DEF HubRestart
  <2>2. QED
    BY <2>1, HookFresh
<1>6. ASSUME NEW c \in Streams, Connect(c) \/ StreamStep(c) \/ Break(c)
      PROVE  Same
  <2>0. c \in Subscribers /\ c # h
    BY <1>1 DEF Subscribers
  <2>1. CASE Connect(c)
    BY <1>1, <2>0, <2>1 DEF Connect, Subscribed, hooks
  <2>2. CASE Write(c)
    BY <1>1, <2>0, <2>2 DEF Write, channels, hooks
  <2>3. CASE Leave(c)
    BY <1>1, <2>0, <2>3 DEF Leave, Cancelled, hooks
  <2>4. CASE Read(c)
    BY <1>1, <2>4 DEF Read, channels, hooks
  <2>5. CASE Break(c)
    BY <1>1, <2>5 DEF Break, channels, hooks
  <2> QED
    BY <1>6, <2>1, <2>2, <2>3, <2>4, <2>5 DEF StreamStep
<1>7. ASSUME NEW g \in Hooks, g # h, HookStep(g)
      PROVE  Same
  <2>0. g \in Subscribers
    BY <1>1
  <2>1. CASE Take(g)
    BY <1>1, <1>7, <2>0, <2>1 DEF Take, HookUnchanged
  <2>2. CASE Resubscribe(g)
    BY <1>1, <1>7, <2>0, <2>2 DEF Resubscribe, Subscribed, HookUnchanged, hooks
  <2>3. CASE Answer(g)
    BY <1>1, <2>3 DEF Answer, HookUnchanged, channels, hooks
  <2>4. CASE AfterPause(g)
    BY <1>1, <2>4 DEF AfterPause, HookUnchanged, channels
  <2>5. CASE HookStop(g)
    BY <1>1, <1>7, <2>0, <2>5 DEF HookStop, Cancelled, HookUnchanged, hooks
  <2> QED
    BY <1>7, <2>1, <2>2, <2>3, <2>4, <2>5 DEF HookStep
<1>8. CASE Take(h)
  BY <1>8, HookTakes
<1>9. event[h] \in Nat /\ event[h] <= next
  BY <1>1 DEF HookInv
<1>10. CASE Resubscribe(h)
  <2>1. next' = next /\ queue'[h] = <<>> /\ event'[h] = event[h]
    BY <1>1, <1>10 DEF Resubscribe, Subscribed, HookUnchanged, hooks
  <2>2. QED
    BY <1>1, <1>9, <2>1, HookFresh
<1>11. CASE Answer(h) \/ AfterPause(h)
  BY <1>2, <1>11 DEF Answer, AfterPause, HookUnchanged, channels, hooks
<1>12. CASE HookStop(h)
  <2>1. next' = next /\ queue'[h] = <<>> /\ event'[h] = event[h]
    BY <1>1, <1>12 DEF HookStop, Cancelled, HookUnchanged, hooks
  <2>2. QED
    BY <1>1, <1>9, <2>1, HookFresh
<1>13. CASE UNCHANGED hubVars
  BY <1>2, <1>13 DEF hubVars, channels, hooks
<1> HIDE DEF Same
<1>14. CASE \E g \in Hooks : HookStep(g)
  BY <1>2, <1>7, <1>8, <1>10, <1>11, <1>12, <1>14 DEF HookStep
<1>15. CASE \E c \in Streams : Connect(c) \/ StreamStep(c) \/ Break(c)
  BY <1>2, <1>6, <1>15
<1> QED
  BY <1>3, <1>4, <1>5, <1>13, <1>14, <1>15 DEF HubNext

LEMMA EventsInvStep == EventsInv /\ [HubNext]_hubVars => EventsInv'
<1> SUFFICES ASSUME EventsInv, [HubNext]_hubVars PROVE EventsInv'
  OBVIOUS
<1>1. HubInv'
  BY HubInvStep DEF EventsInv
<1>2. QueueTyped' /\ RingInv'
  BY QueuesKeepTheirTypes, RingInvStep
<1>3. \A c \in Streams : StreamInv(c)'
  BY StreamInvStep
<1>4. \A h \in Hooks : HookInv(h)'
  BY HookInvStep
<1>5. QED
  BY <1>1, <1>2, <1>3, <1>4 DEF EventsInv

\* In order from the wire to the channel, and what it holds.
LEMMA PendingIsInOrder ==
  ASSUME EventsInv, NEW c \in Streams
  PROVE  Rising(Pending(c)) /\ Range(Pending(c)) = OnTheirWay(c)
<1>1. /\ wire[c] \in Seq(Nat) /\ replay[c] \in Seq(Nat) /\ queue[c] \in Seq(Nat)
      /\ UnderWay(c)
  BY DEF EventsInv, QueueTyped, StreamInv, Subscribers
<1> DEFINE first == wire[c] \o replay[c]
<1>2. /\ first \in Seq(Nat) /\ Rising(first)
      /\ Range(first) = Range(wire[c]) \cup Range(replay[c])
  <2>1. AllBefore(Range(wire[c]), Range(replay[c])) /\ Rising(wire[c]) /\ Rising(replay[c])
    BY <1>1 DEF UnderWay, AllBefore
  <2>2. QED
    BY <1>1, <2>1, JoinedIds
<1> HIDE DEF first
<1>3. AllBefore(Range(first), Range(queue[c])) /\ Rising(queue[c])
  BY <1>1, <1>2 DEF UnderWay, AllBefore
<1>4. /\ Rising(first \o queue[c])
      /\ Range(first \o queue[c]) = Range(first) \cup Range(queue[c])
  BY <1>1, <1>2, <1>3, JoinedIds
<1>5. QED
  BY <1>2, <1>4 DEF Pending, OnTheirWay, first

(***************************************************************************)
(* A client that is served misses no event it was to get and gets none     *)
(* twice or out of order, and a hook gets all events while it is           *)
(* registered, whatever the sizes of the ring, the channels and the wire   *)
(* (Publish, Subscribe, handleEvents, startWebhook).                       *)
(***************************************************************************)
THEOREM EventsReachEverybody == HubSpec => []NoHole
<1>1. EventsInv => NoHole
  <2> SUFFICES ASSUME EventsInv PROVE NoHole
    OBVIOUS
  <2>1. ASSUME NEW c \in Streams, at[c] = "on"
        PROVE  /\ Rising(Pending(c)) /\ got[c] \cap Range(Pending(c)) = {}
               /\ \E n \in 0 .. next :
                    /\ got[c] \cup lost[c] \cup Range(Pending(c)) = 1 .. n
                    /\ c \in subs => n = next
    <3>1. Rising(Pending(c)) /\ Range(Pending(c)) = OnTheirWay(c) /\ StreamInv(c)
      BY PendingIsInOrder DEF EventsInv
    <3>2. got[c] \cap OnTheirWay(c) = {}
      <4>1. AllBefore(got[c], OnTheirWay(c)) /\ got[c] \subseteq Nat
        BY <3>1 DEF StreamInv, EventsInv, QueueTyped
      <4>2. QED
        BY <4>1 DEF AllBefore
    <3>3. QED
      BY <2>1, <3>1, <3>2 DEF StreamInv, Dealt
  <2>2. ASSUME NEW h \in Hooks
        PROVE  /\ Rising(<<event[h]>> \o queue[h])
               /\ h \in subs => Range(queue[h]) = next - Len(queue[h]) + 1 .. next
    <3>1. /\ HookInv(h) /\ queue[h] \in Seq(Nat) /\ event[h] \in Nat
      BY DEF EventsInv, QueueTyped, Subscribers
    <3>2. /\ <<event[h]>> \in Seq(Nat) /\ Rising(<<event[h]>>)
          /\ Range(<<event[h]>>) = {event[h]}
      BY <3>1 DEF Rising, Range
    <3>3. Rising(<<event[h]>> \o queue[h])
      BY <3>1, <3>2, JoinedIds DEF HookInv
    <3>4. QED
      BY <3>1, <3>3 DEF HookInv
  <2>3. QED
    BY <2>1, <2>2 DEF NoHole
<1> QED
  BY <1>1, EventsInvInit, EventsInvStep, PTL DEF HubSpec

=============================================================================
