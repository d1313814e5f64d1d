--------------------------- MODULE HealthService ---------------------------
(***************************************************************************)
(* The gRPC health service (package healthgrpc): callers of Check and of   *)
(* Watch share one cached report (queue.go, QueueSource), which one of     *)
(* them renews while it holds mu, with a probe of the queue in a goroutine *)
(* of its own and a timer of two seconds; Stop ends the streams, and grpc  *)
(* cuts those that have not ended when its grace is over.  The queue and   *)
(* its store are seen as whether they answer and whether a write failed;   *)
(* counts, credentials and the limit on connections are left out.          *)
(***************************************************************************)
EXTENDS Integers, FiniteSets

CONSTANTS
  Watchers,     \* callers of Watch
  Checkers,     \* callers of Check
  MaxWatchers   \* most Watch streams open at once

ASSUME HealthAssumption == MaxWatchers \in Nat /\ Watchers \cap Checkers = {}

Callers == Watchers \cup Checkers
Nobody  == "nobody"

VARIABLES
  stuck,     \* the queue does not answer: its lock is held for long
  failing,   \* the last write of the store failed
  mu,        \* the caller that holds mu of QueueSource while it builds, or Nobody
  cached,    \* the report kept, or "none"
  young,     \* it is not as old as reportCacheTTL
  probing,   \* the flag probing
  probe,     \* the goroutine of a probe: "none", "asking", "answered"
  answer,    \* an answer is in the channel of the one who builds
  late,      \* two seconds have passed since that one began
  doing,     \* what the goroutine of a call is doing
  said,      \* the report a stream sends, or sent last, or "none"
  client,    \* "reads", "silent" (connected, does not read), "gone"
  watchers,  \* the counter of open streams
  server     \* "serving", "draining" (done is closed, GracefulStop), "cut" (grpc.Stop), "stopped"

healthVars == <<stuck, failing, mu, cached, young, probing, probe, answer, late, doing, said,
                client, watchers, server>>
queueSide   == <<stuck, failing>>
sourceState == <<mu, cached, young, probing, probe, answer, late>>
streamState == <<client, watchers, server>>

HealthInit ==
  /\ stuck = FALSE /\ failing = FALSE
  /\ mu = Nobody /\ cached = "none" /\ young = FALSE
  /\ probing = FALSE /\ probe = "none" /\ answer = FALSE /\ late = FALSE
  /\ doing = [c \in Callers |-> "away"]
  /\ said = [c \in Callers |-> "none"] /\ client = [c \in Callers |-> "reads"]
  /\ watchers = 0 /\ server = "serving"

-----------------------------------------------------------------------------
(* A report for c: QueueSource. *)

\* With the report r in hand, a Check answers; a stream sends what differs from the last one in
\* its state, and the same state when its detail differs or the interval is over.
Uses(c, r) ==
  \/ /\ c \in Checkers
     /\ doing' = [doing EXCEPT ![c] = "away"] /\ UNCHANGED said
  \/ /\ c \in Watchers
     /\ doing' = [doing EXCEPT ![c] = "sending"] /\ said' = [said EXCEPT ![c] = r]
  \/ /\ c \in Watchers /\ r = said[c]
     /\ doing' = [doing EXCEPT ![c] = "waiting"] /\ UNCHANGED said

Reported(c, r) ==
  /\ cached' = r /\ young' = TRUE /\ mu' = Nobody /\ late' = FALSE /\ answer' = FALSE
  /\ Uses(c, r)

\* Kept, refused by a probe that is not over, or begun.
AskSource(c) ==
  /\ doing[c] = "asking" /\ mu = Nobody
  /\ \/ /\ young
        /\ Uses(c, cached)
        /\ UNCHANGED sourceState
     \/ /\ ~young /\ probing
        /\ Reported(c, "unhealthy")
        /\ UNCHANGED <<probing, probe>>
     \/ /\ ~young /\ ~probing
        /\ mu' = c /\ probing' = TRUE /\ probe' = "asking"
        /\ doing' = [doing EXCEPT ![c] = "probing"]
        /\ UNCHANGED <<cached, young, answer, late, said>>
  /\ UNCHANGED <<queueSide, streamState>>

\* The goroutine of the probe: JobsPage three times, the answer, the deferred reset.
ProbeAnswers ==
  /\ probe = "asking" /\ ~stuck
  /\ probe' = "answered" /\ answer' = (mu # Nobody)
  /\ UNCHANGED <<queueSide, mu, cached, young, probing, late, doing, said, streamState>>

\* Mutant: a probe nobody waits for any more leaves the flag set.
ProbingAfterIfAwaited == mu = Nobody

ProbingAfter == FALSE

ProbeEnds ==
  /\ probe = "answered"
  /\ probe' = "none" /\ probing' = ProbingAfter
  /\ UNCHANGED <<queueSide, mu, cached, young, answer, late, doing, said, streamState>>

\* A queue that answers does so within the two seconds.
TimerFires ==
  /\ mu # Nobody /\ doing[mu] = "probing" /\ stuck /\ ~late
  /\ late' = TRUE
  /\ UNCHANGED <<queueSide, mu, cached, young, probing, probe, answer, doing, said, streamState>>

\* The select of build: either case when both are ready.
TakeAnswer(c) ==
  /\ doing[c] = "probing" /\ answer
  /\ doing' = [doing EXCEPT ![c] = "reading"]
  /\ UNCHANGED <<queueSide, sourceState, said, streamState>>

GiveUp(c) ==
  /\ doing[c] = "probing" /\ late
  /\ Reported(c, "unhealthy")
  /\ UNCHANGED <<queueSide, probing, probe, streamState>>

\* LastPersistError, which takes the lock of the queue and has no timer.
ReadStore(c) ==
  /\ doing[c] = "reading" /\ ~stuck
  /\ Reported(c, IF failing THEN "degraded" ELSE "ok")
  /\ UNCHANGED <<queueSide, probing, probe, streamState>>

-----------------------------------------------------------------------------
(* Check, Watch and their clients. *)

Check(c) ==
  /\ c \in Checkers /\ doing[c] = "away" /\ server = "serving"
  /\ doing' = [doing EXCEPT ![c] = "asking"]
  /\ UNCHANGED <<queueSide, sourceState, said, streamState>>

\* The counter is raised before it is looked at.
Watch(c) ==
  /\ c \in Watchers /\ doing[c] = "away" /\ server = "serving"
  /\ watchers' = watchers + 1
  /\ doing' = [doing EXCEPT ![c] = IF watchers + 1 > MaxWatchers THEN "leaving" ELSE "asking"]
  /\ UNCHANGED <<queueSide, sourceState, said, client, server>>

\* The connection of c is down.
Cut(c) == client[c] = "gone" \/ server = "cut"

\* stream.Send waits for a client that does not read, and fails once the connection is down.
SendReport(c) ==
  /\ doing[c] = "sending"
  /\ \/ /\ Cut(c)
        /\ doing' = [doing EXCEPT ![c] = "leaving"]
     \/ /\ ~Cut(c) /\ client[c] = "reads"
        /\ doing' = [doing EXCEPT ![c] = "waiting"]
  /\ UNCHANGED <<queueSide, sourceState, said, streamState>>

\* The three cases of the select of Watch.
Tick(c) ==
  /\ doing[c] = "waiting"
  /\ doing' = [doing EXCEPT ![c] = "asking"]
  /\ UNCHANGED <<queueSide, sourceState, said, streamState>>

SeeEnd(c) ==
  /\ doing[c] = "waiting" /\ (Cut(c) \/ server # "serving")
  /\ doing' = [doing EXCEPT ![c] = "leaving"]
  /\ UNCHANGED <<queueSide, sourceState, said, streamState>>

LeaveStream(c) ==
  /\ doing[c] = "leaving"
  /\ doing' = [doing EXCEPT ![c] = "away"] /\ watchers' = watchers - 1
  /\ said' = [said EXCEPT ![c] = "none"] /\ client' = [client EXCEPT ![c] = "reads"]
  /\ UNCHANGED <<queueSide, sourceState, server>>

ClientStops(c) ==
  /\ c \in Watchers /\ doing[c] \notin {"away", "leaving"}
  /\ \/ client[c] = "reads" /\ client' = [client EXCEPT ![c] = "silent"]
     \/ client[c] # "gone" /\ client' = [client EXCEPT ![c] = "gone"]
  /\ UNCHANGED <<queueSide, sourceState, doing, said, watchers, server>>

-----------------------------------------------------------------------------
(* Stop. *)

\* done is closed, the timer armed and no new call taken: a call that comes in between is
\* served like one that came just before.
BeginStop ==
  /\ server = "serving" /\ server' = "draining"
  /\ UNCHANGED <<queueSide, sourceState, doing, said, client, watchers>>

\* Mutant: no timer, only GracefulStop.
GraceOverNever == FALSE

GraceOver == server = "draining"

CutOff ==
  /\ GraceOver /\ server' = "cut"
  /\ UNCHANGED <<queueSide, sourceState, doing, said, client, watchers>>

\* GracefulStop waits for every handler to return.
Stopped ==
  /\ server \in {"draining", "cut"} /\ \A c \in Callers : doing[c] = "away"
  /\ server' = "stopped"
  /\ UNCHANGED <<queueSide, sourceState, doing, said, client, watchers>>

-----------------------------------------------------------------------------
(* The queue, the store and the clock. *)

Stick ==
  /\ server # "stopped" /\ stuck' = ~stuck
  /\ UNCHANGED <<failing, sourceState, doing, said, streamState>>

WriteEnds ==
  /\ server # "stopped" /\ ~stuck /\ failing' = ~failing
  /\ UNCHANGED <<stuck, sourceState, doing, said, streamState>>

\* A second is longer than a goroutine that has answered needs to return.
Age ==
  /\ young /\ probe # "answered"
  /\ young' = FALSE
  /\ UNCHANGED <<queueSide, mu, cached, probing, probe, answer, late, doing, said, streamState>>

Serves(c) ==
  AskSource(c) \/ TakeAnswer(c) \/ GiveUp(c) \/ ReadStore(c) \/ SendReport(c) \/ LeaveStream(c)

HealthNext ==
  \/ ProbeAnswers \/ ProbeEnds \/ TimerFires
  \/ \E c \in Callers : Serves(c) \/ Check(c) \/ Watch(c) \/ Tick(c) \/ SeeEnd(c) \/ ClientStops(c)
  \/ BeginStop \/ CutOff \/ Stopped
  \/ Stick \/ WriteEnds \/ Age

\* Goroutines run on and mutexes are handed to everyone who waits; the ticker and the end are
\* cases of one select, which takes each again and again; time passes.  Nothing is assumed of
\* clients, of new calls and of the queue.
HealthFairness ==
  /\ SF_healthVars(ProbeAnswers \/ ProbeEnds) /\ WF_healthVars(TimerFires) /\ WF_healthVars(Age)
  /\ WF_healthVars(CutOff \/ Stopped)
  /\ \A c \in Callers : SF_healthVars(Serves(c))
  /\ \A c \in Watchers : WF_healthVars(Tick(c)) /\ SF_healthVars(SeeEnd(c))

HealthSpec == HealthInit /\ [][HealthNext]_healthVars /\ HealthFairness

-----------------------------------------------------------------------------

\* The stream of c is open and its client follows it.
Follows(c) ==
  /\ server = "serving" /\ client[c] = "reads"
  /\ doing[c] \notin {"away", "leaving"}

(***************************************************************************)
(* A stream that stays open says in the end that all is well if the queue  *)
(* answers and the store takes writes from some moment on, whatever was    *)
(* asked and not answered before (the flag probing, the cached report and  *)
(* what Watch has sent last).                                              *)
(***************************************************************************)
Recovers ==
  \A c \in Watchers :
    <>[](Follows(c) /\ ~stuck /\ ~failing) => <>[](said[c] = "ok")

(***************************************************************************)
(* A Stop that has begun returns, also when a client is connected and does *)
(* not read, as long as the queue answers again and again (Stop and its    *)
(* timer; the probe has a timer too, LastPersistError has none).           *)
(***************************************************************************)
StopEnds == []<>(~stuck) => (server = "draining" ~> server = "stopped")

=============================================================================
