# A verification project for HYDRA-UMC-JOB-DISPATCHER

The dispatcher keeps one queue of jobs and one registry of robots, gives jobs to
robots, and keeps both right while robots lie, fall silent and come back. This
directory models it in TLA+: TLC checks small instances, TLAPS proves theorems for
every value of the constants. Paths take the repository to be
in `src/`; line numbers refer to the commit these modules were written from.

## 1. The system and its parts

| part | source | state it keeps | operations |
| --- | --- | --- | --- |
| mission queue | `src/src/dispatcher/dispatcher.go` | `e.jobs`, `nextSeq`, `dedupIndex` | AddJob, SubmitJob, DispatchOnce, CompleteJobAttempt, CancelJob, RequeueJob |
| robot registry | same | `e.robots`, `heldBy` | UpdateRobot, RemoveRobot |
| silent robots | `dispatcher.go`, `stopconfirm.go`, `src/main.go` | `stopReq` | DetectStaleAssignmentsStop, AckStop, StopRequests, the background ticker |
| replanning | `replan.go` | `replan` | SetReplan, ReplanRobot, requeueAllLocked |
| archive | `archive.go` | the archive table | ArchiveFinished |
| choice of a robot | `dispatcher.go` bestRobotFor, `location.go` | the cost table | preferLocked, cost |
| derived statuses | `dispatcher.go` | (none) | computeStatus, refreshBlocked |
| tool confirmation | `toolconfirm.go` | the last answers of the robot controllers | ConfirmTools, toolConfirmedLocked |
| durable store | `src/src/sqlitestore`, `dispatcher.go` | jobs and robots on disk, the pending batch | SaveJob, SaveRobot, SaveBatch, LoadAll |
| events | `events.go`, `api/events.go` | a ring of events, the subscribers' channels | Publish, Subscribe, Close, webhook workers, streams |
| state on MQTT | `mqttstate.go`, `state.go` | what was published last, and when | Tick, Start, Stop, publishOnce |
| HTTP API | `api/api.go` | (none) | a handler per route, each with one call of the Engine |
| production events | `production_event.go` | a bounded queue, the flag stopped | enqueue, run, stop |
| maintenance | `maintenance.go`, `api/maintenance.go` | proposals, the last end per source | Propose, Approve, Reject, List, SetConfig |
| health service | `src/src/healthgrpc` | a cached report, a probe, open streams | Check, Watch, Stop |
| estimates | `eta.go`, `waiting.go` | (none) | planLocked, a simulated course of the queue |
| configuration | `config.go`, `reload.go` | the installed sections | reload |

The HTTP handlers of `api/api.go` run concurrently, one goroutine per request; so do
the gRPC handlers, the background sweep and the archive ticker of `main.go`. All of
them reach the queue and the registry through exported methods of the Engine, and
every one of those holds the mutex `e.mu` from its first read to its last write. What
interleaves are whole operations, in any order: a robot's heartbeat overtakes the
answer that gave it a job, a report arrives after its job was given to another
robot, a client removes a robot, a sweep with one timeout follows a sweep with
another. Behaviour is hard where several operations share one piece of state:

* `Robot.Available` is what the robot says of itself and the scheduler's reservation
  at once; heartbeats, dispatches, completions, rollbacks and requeues write it.
* a job's status depends on the statuses of its dependencies, which retries change
  and the archive removes.
* an assignment is abandoned (requeue, fault, silence, acknowledged stop) while its
  robot may still report on it.
* the two writes of an assignment can fail one by one.
* the process may be killed between any two writes and starts from what is on disk.

Beside the queue run goroutines with channels, flags and timers of their own:

* the engine publishes events under its lock and must not wait, so a subscriber that
  falls behind loses its channel while its own goroutine may be about to close it;
* completions put production events into a channel that another goroutine closes;
* the health service probes a queue that may not answer, for callers that may have
  gone, and is stopped while clients are connected and silent;
* `ConfirmTools` asks robots without the lock and uses what it heard with the lock,
  while other calls do the same;
* the state of the queue is published over MQTT messages that nobody confirms.

And the robots themselves are far away: what they report and confirm over HTTP
arrives late, more than once or not at all, and silence does not mean that a robot has
stopped.

What makes each part right, in the terms of the properties below:

* queue: `DependenciesDone`, `DependenciesKnown`, `Acyclic`, `WaitingSettled`,
  `OneJobPerKey`, `PlacesDistinct`, `AttemptCountsDispatches`, `LivesAsPromised`
* reservations: `Reserved`, `OneJobPerRobot`, `Answerable`, `HeldNotOffered`,
  `NotStranded`, `IndexFindsAll`
* dispatch: `NoOvertaking`, `NothingLeftOver`, `KeepsTheBest`, `PassIsOneStep`
* silent robots: `SilenceNoticed`, `OfferedBriefly`
* robots and the queue together: `NeverTwiceAtATime`, `OutcomeIsReal`,
  `ResultsArrive`, `ConfirmedStopCounts`
* refreshBlocked: `EndsSettled`, `OrderDoesNotMatter`, `Ends`
* store: `DiskIsCurrent`, `SameJobs`, `NoAttemptTwice`, `WaitsForSomething`, and the
  properties of the queue over a crash
* events: `NoHole`, `Attended`, `KeepsUp`, `HooksEnd`, `ReplaysWhatIsKept`
* production events: `NeverSendsOnClosed`, `EmptiedWhenStopped`
* state on MQTT: `RetainedCatchesUp`
* health service: `Recovers`, `StopEnds`
* maintenance: `ApprovedInTime`, `RestsBetweenProposals`
* tool confirmation: `LastWord`, `AnswersAreRecent`
* estimates: `PlanFits`, `AgreesWithDispatch`

Most are checked by a run, and all of these that are not liveness properties are proved
as well (section 5). `DependenciesKnown`, `PlacesDistinct`, `Answerable`, `EndsSettled`,
`Attended` and `AttemptCountsDispatches` are proved and in no run: they are parts of, or
steps towards, others that a run checks. `ReplaysWhatIsKept`, `AnswersAreRecent` and
`ConfirmedStopCounts` are what the documents say and the code does not do (section 4).

`PROJECT.json` lists the hazards line by line, with the property that watches each; where a
property covers only a part of its hazard, a note says what is left.

## 2. The modules

```
            RobotChoice              JobStatus           JobLifecycle
            /    |    \              /   |   \           (what clients are promised)
   RobotScan     |   QueuePlanner --/    |   RefreshLoop        ^
                 |                       |                      | LivesAsPromised
                 +------ JobEngine ------+----------------------+ (INSTANCE ... WITH)
                    /      /     \   ^
         RobotBridge      /       \  +--- PassIsOneStep --- DispatchLoop
              |          /         \                (INSTANCE ... WITH)
     MCRobotBridge  MCJobEngine   DurableEngine --- MCDurableEngine

   EventHub, AsyncSink, HealthService, StatePublisher          --- MCServices
   RobotScan, RefreshLoop, DispatchLoop, RobotIndex,
   HeartbeatClock, QueuePlanner, MaintenanceBoard, ToolConfirm --- MCDecisions

JobStatusProofs -> JobEngineProofs -> DependencyProofs -> LifecycleProofs
LifecycleProofs -> DurableProofs (DurableEngine), BridgeProofs (RobotBridge)
JobStatusProofs -> PartProofs (RefreshLoop, RobotScan, RobotIndex, HeartbeatClock,
                               DispatchLoop, QueuePlanner)
ServicesProofs (EventHub, AsyncSink, MaintenanceBoard, ToolConfirm)
```

MCJobEngine and MCDurableEngine give TLC its instances of the queue. MCServices and
MCDecisions hold small instances of parts that share no state: `subject` names the
one that moves in a behaviour, and the others rest in one of their first states, in
which no action assumed fair is enabled. Interleaving them would multiply the states
and show nothing more.

**RobotChoice** has the comparison of two robots: the lower load, then the lower id;
before that a robot at the job's place, or with the cost table the lower known cost.
Robot ids are positive numbers in the order in which Go compares the strings. Costs
are numbers, of which only the order is used.

**JobStatus** has the statuses, `ComputeStatus` (computeStatus) and `Refreshed`, the
set of tables refreshBlocked may leave: those in which every waiting job has the
status its dependencies give it.

**JobEngine** is the queue with the registry. A field of `Job` or `Robot` is a
function from ids, and one action stands for one exported method, with everything it
calls under the lock:

| action | code |
| --- | --- |
| `SubmitJob` = `AddJob` or `RetryJob` | SubmitJob, AddJob, addJobLocked, the retry of a failed or cancelled job |
| `UpdateRobot` = `Register` or `Heartbeat` | UpdateRobot, upsertRobotLocked, including the requeue for a fault |
| `RemoveRobot` | RemoveRobot |
| `DispatchOnce` | one pass: sort, bestRobotFor per job, two writes, rollback |
| `CompleteJobAttempt`, `CancelJob`, `RequeueJob` | the methods of these names, with refreshBlocked |
| `ReplanRobot`, `AckStop`, `SetReplan` | replan.go, stopconfirm.go, a reload |
| `DetectStale` | DetectStaleAssignmentsStop with stopDecisionLocked and markUnknownLocked |
| `ArchiveFinished` | archive.go |
| `FallSilent`, `StopDeadline` | time: -robot-timeout without a heartbeat, stop_ack_timeout |

| variable | code |
| --- | --- |
| `status`, `robotOf`, `attempt`, `deps`, `seq`, `key` | Status, AssignedRobot, Attempt, DependsOn, seq, DedupKey; status "absent": the id is no key of `e.jobs` |
| `ask` | Priority, RequiredTool, Location |
| `known` | the keys of `e.robots` |
| `available`, `load`, `held` | Available, Load, selfReportedUnavailable |
| `body` | Tool, Location, StopCapable |
| `heard` | the last heartbeat is not older than -robot-timeout, nor in the future |
| `stopReq` | stopReq; `due` says that timeoutAt has passed |

A pass of DispatchOnce is stated by its result: `pass` says which robot bestRobotFor
returned for each pending job, given what the earlier jobs of the pass took, and
`refused` are the jobs whose assignment was rolled back. A call that the code refuses
or that finds nothing to do is a stuttering step. Times are abstracted to the two
flags `heard` and `due`. Timestamps, events, logging and answers are left out.

**DurableEngine** is JobEngine with its store. Two variables hold the tables of the
database, and each action of JobEngine gets the writes the method makes:

| written | code |
| --- | --- |
| one transaction (`SavedTogether`) | completion, cancellation, requeue, replan, stop acknowledgement, the requeue for a fault: beginBatchLocked .. commitBatchLocked, SaveBatch |
| two transactions (`DurableStale`) | a sweep: the jobs that go back, then those that become unknown |
| one write per record (`SavedEach`) | a retry and the dependents refreshBlocked changes; a heartbeat |
| one write, refused or done before anything changes | a new job, the removal of a robot, the archive |
| robot, job, and the robot again when the job is refused | an assignment: `DurableDispatch`, `Undone` |

A killed process and its next start are one step, since nothing but the disk
survives: `Started` is NewEngineWithStore on the tables of `LoadAll`. `Crash` kills it
between operations, `CrashInDispatch` after any write of a pass, `CrashInRetry` after
the retried job and some of its dependents; a transaction has no point in between,
and a sweep killed between its two transactions leaves what a smaller sweep leaves.
The configuration is read again, stop requests, StopCapable and
selfReportedUnavailable are gone, and any robot may have become silent meanwhile.
The ghost `told` is the last attempt of each job that a pass returned to its caller.
JobRecord and RobotRecord leave out the columns no property tells apart (timestamps).

**RefreshLoop** and **RobotScan** are the two loops that JobEngine states by their
results, one turn per step, in every order in which Go may iterate over the map:
refreshBlocked and bestRobotFor. They justify `Refreshed` and `BestRobot`.

**DispatchLoop** is the pass of DispatchOnce at its writes: `TakeUp` is the turn of the
loop for the next job (bestRobotFor, the reservation in memory), `SaveRobot` and
`SaveJob` are the two writes with their ways back, `EndDispatch` gives the lock back.
`found` is what the pass found, `made` what it has changed so far. Nobody sees `made`
before the lock is given back, so the mapping to JobEngine shows `found` until then
and `made` afterwards; `PassIsOneStep` says that this is the one step `DispatchOnce`,
for whatever the store refused.

**RobotIndex** is `heldBy`: a job is noted when it gets a robot (`GiveTo`), nothing is
done when it leaves it (`TakeBack`, `ForgetJob`), and who reads the jobs of a robot
(`FindJobs`: jobsHeldByLocked) drops what does not fit. `LoadQueue` is a start.
JobEngine reads the assignments themselves; `IndexFindsAll` says that this is the same.

**HeartbeatClock** is the heartbeat of one robot in numbers. A time that this process
took has a monotonic reading and is compared by it; one from the database
(`LoadRobots`) is compared by the clock of the machine, which may be set (`SetClock`).
`Fresh` is the test of robotEligibleLocked and `Stale` that of the sweep, both with
`FromFuture`. JobEngine's `heard` stands for `Fresh`. A robot whose heartbeat lay in
the future becomes fresh when the clock catches up, for at most the tolerance and the
timeout together: that is what `OfferedBriefly` bounds.

**RobotBridge** puts JobEngine together with what the robots really do. `course` is the
fate of each attempt of each job, which the dispatcher does not see; `calls` are the
reports and stop confirmations on their way. `Begin` and `End` are the robot, `StopRobot`
its bridge (reads GET /jobs/stop-requests, stops the robot, then confirms),
`HandleReport` and `HandleStopAck` the handlers of POST /jobs/complete and
POST /jobs/stop-ack, `HandleSubmit`, `HandleRobot`, `HandleRobotByID`, `HandleCancel`,
`HandleDispatch` and `Sweep` the other routes with their one call. A call whose answer is
lost is made again, a confirmation may get lost, and calls overtake one another.

**StatePublisher** is the loop of mqttstate.go: `LookAtQueue` is a Tick that finds
something to publish, `Published` and `NotPublished` the end of publishOnce,
`AskToStop` and `EndPublisher` Stop, `StartPublisher` a new process, and `Arrive`,
`GetLost` and `Forget` the broker. A document of the state is a name.

**JobLifecycle** is what a client may rely on, without robots, priorities, tools or
heartbeats: a job is given to a robot only when all it needs is done, never again
once done, withdrawn only while no robot has it, retried only when it failed or was
withdrawn, archived only when nothing that stays needs it, and the attempt counts how
often it was given away. JobEngine implements it under the mapping `PhaseOf`.

**EventHub** is the hub with both kinds of subscribers. An event is its id.

| variable | code (`events.go`, `api/events.go`) |
| --- | --- |
| `next`, `ring` | next, ring |
| `subs`, `queue`, `closes` | the keys of subs; the events in a channel; how often it was closed |
| `at` | where the goroutine of a stream or a hook is |
| `replay`, `wire`, `last` | what handleEvents has still to replay; written and not read; the client's Last-Event-ID |
| `event`, `tries`, `closing` | the locals of deliver; done is closed |

`Publish`, `Connect` (Subscribe), `Cancelled` and `Close` each hold the hub's mutex
and are single steps. `Write` and `Leave` are the turns of handleEvents, `Read` and
`Break` the client and the network; `Take`, `Resubscribe`, `Answer`, `AfterPause` and
`HookStop` the turns of startWebhook and deliver. `HubRestart` is a new process: the
ids begin again, the clients keep theirs. The ghosts `got` and `lost` divide the
events of this process into those a client has read and those it was not offered.

**AsyncSink** is `AsyncSink` of production_event.go, at the steps of its RWMutex and
its channel: `Lock`, `Look`, `Send` of enqueue (which holds the lock for reading and
drops the event when the channel is full or stopped), `Enter`, `EnterLate`, `Acquire`,
`CloseChannel`, `Return` of stop (once.Do, the lock for writing, close, wait for the
worker), `TakeEvent`, `HandOver`, `EndWorker` of run.

**HealthService** is package `healthgrpc`. `AskSource` is QueueSource.Report under
`mu`: the kept report, "unhealthy" while a probe is not over, or a probe of its own
(`ProbeAnswers`, `ProbeEnds`: its goroutine; `TimerFires`: the two seconds;
`TakeAnswer`, `GiveUp`: the select; `ReadStore`: LastPersistError, without a timer).
`Check`, `Watch`, `SendReport`, `Tick`, `SeeEnd`, `LeaveStream` are the handlers with
the counter `watchers`, `BeginStop`, `CutOff`, `Stopped` are Stop with its grace.
`Stick`, `WriteEnds`, `ClientStops` and `Age` are the surroundings: a lock of the queue
that is held for long, a store that fails, clients that stop reading or vanish, a kept
report that grows old. The module assumes that one second, the age a report may
reach, is longer than a goroutine that has its answer needs to return, and that a
queue that is not stuck answers within two seconds.

**MaintenanceBoard** is the list of proposals with its methods as actions, which all
hold the mutex of the board; expiry happens inside the next method that looks
(`Tidied` is expireLocked), also after a reload has changed the settings.

**ToolConfirm** is ConfirmTools in its three parts, the list of free robots
(`StartAsking`), one request after the other without a lock (`Ask`), and the keeping
of the answers (`KeepAnswers`), between those of other calls, and the pass of
DispatchOnce that reads them (`Give`, `GiveNothing`; `MayTake` is
toolConfirmedLocked). The ghosts `began` and `words` record which answers there were
and in which pass. In JobEngine, `ToolsChecked` leaves it open which robots pass.

**QueuePlanner** is planLocked, one visit of a waiting job per step: `Begin` reads
the queue and lays out the assigned jobs, `PlaceJob` is the visit of the next job of
the pass, `EndRound` begins another pass or ends the plan. Durations are a table by
tool, in place of the averages and percentiles over past jobs.

The definitions whose comment begins with "Mutant" are plausible faults, one for each
checked property; no specification uses them. `PROJECT.json` names the definition
each one replaces and the property that then fails.

## 3. What the runs check

| run | instance | question | states |
| --- | --- | --- | --- |
| MCChain | 3 jobs in a chain that retries may turn around, 2 keys, 1 robot, 4 submissions that insert, 2 attempts, archive on | dependencies, verdicts and keys | 178,000 |
| MCFleet | 2 jobs of different urgency, one of which needs a tool, 2 robots, faults, stops, sweeps of any timeout, 2 attempts | reservations; fairness of a pass | 484,000 |
| MCSilence | 2 jobs, 1 robot, any write refused, every replanning configuration and reload | rollback of a dispatch; a silent robot's job leaves it | 266,000 |
| MCCrash | 2 jobs one after the other, 2 robots, archive on, replanning, stops, a crash anywhere, 3 submissions that insert, 1 attempt | every operation writes what it changed; what is loaded is a queue in order; refinement of JobLifecycle over a crash | 235,000 |
| MCLostWrites | 1 job, 1 robot, archive on, replanning and its reloads, any write refused, 2 crashes, 3 attempts | the disk has the very jobs of the queue; no attempt told twice | 233,000 |
| MCServices | one subject at a time: 1 stream and 1 hook, channels of 1, a ring of 2, 3 events, 1 restart; 2 producers, 2 stoppers, a queue of 2, 4 events; 1 stream, 1 Check; 2 documents and 2 faults at the broker | events without holes, no send on a closed channel, every goroutine ends or keeps up, the retained state catches up | 76,000 |
| MCDecisions | one subject at a time: 3 robots with loads 0 and 1 and a partial, asymmetric cost table; every acyclic dependency of 3 jobs; the estimates of every queue of 3 jobs and 3 robots; 2 sources and 3 proposals; 1 robot with 2 tools and 2 overlapping calls; passes over 3 jobs and 3 robots; an index of 3 jobs and 3 robots; 10 units of time with a clock 6 behind, right or 3 ahead | choices that do not depend on the order of a Go map; a pass is one step; the index misses nothing; estimates that agree with the dispatch; what is decided on old data | 612,000 |
| MCRobotBridge | 1 job, 2 robots that can confirm a stop, 2 attempts, calls lost, repeated and late | nobody does a job that another one does, outcomes are real, results arrive | 355,000 |
| MCLateStop | the same with 3 attempts and confirmations of any age | a job done twice at a time, violated | |
| MCLostStop | the same, with the present assignment's confirmation | a confirmed stop that does not count, violated | |
| MCResumed | MCServices with the stream alone | the replay after a restart, violated | |
| MCOldAnswer | MCDecisions with one subject | the age of an answer, violated | |

Bounds. `MaxSeq` bounds the submissions that insert a job; with one more than the
number of jobs an id is used again after it was archived. `MaxAttempt` bounds the
dispatches of one job, `MaxCrash` the starts after a crash (without it the places start
again when the archive has taken every job, and nothing would bound a run); one crash
leaves every disk the bounds allow, the second one of MCLostWrites meets the
half-written disk of the first. Two attempts are what a late report or an old stop request
needs. Three jobs give chains, forks, and a retry that closes a cycle through a third
job. Two robots are what a wrong release or a double assignment needs. Loads are
bounded by the dispatches. CHECK_DEADLOCK is off because the queue may be quiet: all
submissions used, nothing to report; the loops, the plan and the services end, too.

In MCServices a channel of one place is full after one event, so that the drop, the
close by Publish and the cancel that follows occur in all orders; a ring of two forgets
the first of three events; two attempts are the least that has a pause between them.
Two producers hold the read lock together while a stopper waits for it, and the second
stopper meets once.Do. The health service has one stream and one Check, which is what
two callers at one probe need; with `MaxWatchers = 1` the stream is never refused,
since a second stream was too many states. In MCDecisions, time runs to 4 on the board
(longer than a cooldown after an expiry), to 2 with a lifetime of 1 in ToolConfirm,
where two passes that end and two calls are what an answer that overtakes another
needs. The estimates are computed for every status of three jobs, every holder, every
start in {0, 2}, all 25 acyclic dependency tables and two tables of durations, one of
which has a length of zero and an unknown one.

In MCRobotBridge, `AskFirst` is the configuration that promises the most: a silent robot
is asked to stop and nothing is handed on unconfirmed. Operators' statements that a
robot is dead (RequeueJob, ReplanRobot, the fault in a heartbeat) are left out, because
nothing could confirm them. `LateStops = FALSE` assumes that no confirmation arrives
when its robot has lost the job or has it in a later attempt; MCLateStop shows that the
assumption is needed. One job is enough because a robot does one thing at a time and the
property is about one job; two attempts are the least with an old and a new one, and the
run of MCLateStop needs three, since the first confirmation must have been accepted. The publisher
meets two faults: a message lost or overtaken, and then a broker that forgets or a
process that starts again. In HeartbeatClock the timeout is 2 and the tolerance 1, and ten
units of time are enough for a clock that is 6 behind to catch up and for the robot to be silent
again.

Robots that never say anything twice, jobs that are not archived and so on are
not assumed: within an instance every operation is possible in every state, in any
order, as often as its guard allows.

Fairness. `SilenceNoticed` is checked under `FairSpec`: the sweep is weakly fair
because `main.go` 316-336 runs it from a ticker for as long as the process lives
whenever -robot-timeout is set, and deadlines are weakly fair because time passes.
Nothing is assumed of clients or robots: a robot may stay silent for ever, be heard
at any time, and nobody need acknowledge a stop. In this run the sweeps of
POST /jobs/detect-stale are off (`RouteSweeps = FALSE`): with them the property does
not hold, since dispatcher.go 1270 withdraws a request whenever a sweep does not find
the robot silent by that sweep's own timeout, and a client that calls the route with a
long timeout often enough withdraws each request before its deadline.
`Ends` of RefreshLoop assumes only that the goroutine that holds the lock runs on
(`LoopFairness`).

`HubFairness`: the goroutines of handlers and workers run on, a client that stays
connected reads what was written (one that does not is covered by `Break`, which may
happen at any time), and a delivery ends because the HTTP client has a timeout. The
end of a worker is strongly fair: its select has the closed hub as one ready case and
Go picks among ready cases at random. `PublisherFairness`: time passes, the ticker
ticks, publishOnce ends within its deadlines, and the broker handles a message that
was not lost; faults are bounded, and `RetainedCatchesUp` speaks of what holds after
the last one. `WorldSpec` assumes only that a report which a robot goes on repeating is
answered at last; robots need not begin, end or stop anything. AsyncSink has no
fairness, as only safety is checked of it.
`HealthFairness`: goroutines run on, timers fire, a kept report grows old; callers are
strongly fair because sync.Mutex hands itself over to one that has waited for a
millisecond, the end of a stream because it is a case of a select that is entered
again and again. Nothing is assumed of clients, of new calls or of the queue: that the
queue answers again is a premise of `Recovers` and of `StopEnds` themselves.

## 4. What the violated runs show

**MCLateStop.** Robot 1 falls silent with a job and is asked to stop; it stops, and its
confirmation is accepted, but the answer is lost, so the bridge will send it again. The
job is given to robot 1 again, it falls silent again and is asked again, while it begins
the job. Now the repeated confirmation arrives: AckStop (stopconfirm.go 144) compares
the attempt of the request with that of the job, which agree, and the message itself
carries no attempt. The job goes back to the queue and to robot 2 while robot 1 does it,
which is what stop requests are there to prevent (API.md 461). An attempt in the
message, as reports have it, would tell the two apart.

**MCLostStop.** The robot has stopped and its confirmation is on the way when a
heartbeat of it arrives. The next sweep withdraws the request (dispatcher.go 1270), and
the confirmation is refused with ErrNoStopRequest: the job stays assigned to a robot
that has stopped it and is heard, so no sweep will ask again. stopconfirm.go 23 says
that an acknowledgement counts also when it is late; API.md 463 says that the job of a
robot that is heard again carries on.

**MCResumed.** Event ids are counted from 1 by each process. A client that read up to
event 2 and reconnects after a restart sends `Last-Event-ID: 2`; Subscribe
(events.go 193) replays only ids above it, so the first two events of the new process
are not sent although the ring holds them. API.md 495 promises what was missed, as far as the
buffer holds it.

**MCOldAnswer.** ConfirmTools dates all answers when the whole pass has ended
(toolconfirm.go 120). With robots that do not answer, the pass is long, and the
answer of the first robot is older than `ttl_seconds` when another call dispatches on
it. API.md 511 says that a robot whose answer is older is not offered the job. What
does hold is `LastWord`.

Three more statements of the documents do not hold literally, and have no run. A
request of an earlier attempt stays listed when the same robot gets the job again
(StopRequests, stopconfirm.go 116, does not compare attempts), until a sweep replaces
it. A sweep with a longer timeout withdraws the request of a robot that was not heard
again (API.md 463 names only that case). And planLocked, which goes over the waiting
jobs in passes, lays a job whose dependency comes after it in dispatch order behind jobs
of lower priority that it found room for earlier (API.md 394 says that jobs are placed
in dispatch order); `PlanFits` and `AgreesWithDispatch` say what does hold of a plan.

What the runs with a store do not claim: with refused writes the disk may hold a job as
assigned and its robot as available (a completion whose transaction failed, then a
heartbeat that was written), so a crash during a broken store may lead to a robot with
two jobs. Likewise, a retry that drops a dependency and whose write is refused keeps
the old one on disk; a retry of the other job, allowed by the tables in memory, then
closes a cycle that the next start loads. The service reports such a store as unhealthy, and MCLostWrites shows what
stays right all the same. API.md line 54 counts the sweep among the operations written
in one transaction; it makes two when it both requeues and marks unknown, which no
property depends on. A job whose assignment was written before the process was killed
and not returned is assigned and told to nobody; `told` shows it, and no document
says anything of it.

## 5. What is proved

All theorems hold for every set of jobs, robots, keys, submissions, reports and
configurations, for every setting of the flags and for every bound. They rest on the
named assumptions of the constants (ids are finite sets, robot ids positive numbers,
no submission names its own id as a dependency, which validateDependencyShape refuses in a
new job; a retry, whose job its key names, could carry another id that it also depends on,
and then does what it does under the id of its job; a ring, a channel and a number of
attempts have at least one place). The planner's are that the ranks of the
jobs are different numbers, that the dependency tables it may be called with have no cycle
(`NeverCyclic` proves it of the queue) and that a duration is unknown or not
negative (durationModelLocked counts only jobs with `CompletedAtMs >= AssignedAtMs`).

Two hypotheses stand in the theorems themselves, because the statement is false without
them (for the theorems about the disk, TLC finds a counterexample to each in the instances
of MCCrash and MCLostWrites with a store that may fail; for `Acyclic`, with retries of both
jobs that turn their order around among the requests); the runs that check the same properties make them by their constants:

* `~StoreMayFail`: no write is refused. A refused write leaves the job pending beside its
  robot, which is what rollbackDispatch is for, and the transactions it aborts leave the
  disk behind memory (section 4). What needs no such hypothesis has none.
* `ConfirmsFirst`: jobs are taken from a robot only by a confirmed stop, and no stop takes
  effect late. It is the configuration of MCRobotBridge; MCLateStop shows what happens
  with late stops.

| theorem | statement | inductive invariant |
| --- | --- | --- |
| `Typed` | TypeOK | itself |
| `PlacesAreDistinct` | PlacesDistinct | with PlacesBounded: no place is above nextSeq |
| `AssignedIsReserved`, `NeverTwoJobs`, `AlwaysAnswerable`, `HeldStaysOut` | Reserved, OneJobPerRobot, Answerable, HeldNotOffered | FleetInv |
| `NoRobotStranded` | NotStranded | itself, with TypeOK |
| `KeysNameTheirJob` | OneJobPerKey | itself, with TypeOK |
| `NobodyOvertaken`, `PassIsThorough` | NoOvertaking, NothingLeftOver, if no write is refused | FleetInv |
| `DependenciesStayKnown`, `DependenciesDoneFirst`, `VerdictsUpToDate` | DependenciesKnown, DependenciesDone, WaitingSettled | QueueInv |
| `NeverCyclic` | Acyclic | QueueInv |
| `EngineLivesAsPromised`, `AttemptsCounted` | the refinement of JobLifecycle; AttemptCountsDispatches | LifeInv |
| `StartsWithItsJobs`, `KeysSurvive`, `AttemptsNotRepeated` | with crashes and refused writes: SameJobs, OneJobPerKey, NoAttemptTwice | BookInv |
| `DiskStaysCurrent` | DiskIsCurrent | BookInv if the store may refuse a write, SafeInv if not |
| `NobodyWaitsInVain`, `ReservedAfterCrash`, `NeverTwoJobsAfterCrash`, `NeverCyclicAfterCrash` | with crashes, if no write is refused: WaitsForSomething, Reserved, OneJobPerRobot, Acyclic | SafeInv |
| `CrashesKeepThePromise` | the refinement of JobLifecycle by the engine with its disk, if no write is refused | SafeInv |
| `WorldRunsTheEngine` | the engine among robots and messages implements the engine alone | - |
| `OutcomesAreReal` | OutcomeIsReal | OutcomeInv |
| `NeverTwiceDone` | NeverTwiceAtATime, under ConfirmsFirst | AloneInv |
| `OneSettledTable` | refreshBlocked has at most one result when dependencies are acyclic | - |
| `LoopEndsSettled`, `OrderIrrelevant` | EndsSettled, OrderDoesNotMatter | LoopInv |
| `PreferredOrder` | the comparison of robots is a strict total order, for any cost table | - |
| `ScanFindsTheBest` | KeepsTheBest | ScanInv |
| `IndexComplete` | IndexFindsAll | IndexInv |
| `SilentIsOfferedBriefly` | OfferedBriefly | ClockInv |
| `PassImplementsOneStep` | PassIsOneStep: every step of the pass maps to DispatchOnce or a stutter | PassInv |
| `PlanHolds` | PlanFits | PlanInv |
| `PlanAgrees` | AgreesWithDispatch | AgreeInv |
| `ChannelsAttended` | Attended | HubInv |
| `EventsReachEverybody` | NoHole | EventsInv |
| `NoSendAfterClose`, `StopEmptiesTheQueue` | NeverSendsOnClosed, EmptiedWhenStopped | SinkInv: LockInv, FifoInv |
| `OnlyApprovedInTime`, `ProposalsRest` | ApprovedInTime, RestsBetweenProposals | BoardInv |
| `GivenByLastWord` | LastWord | ConfirmInv |

*FleetInv.* The four statements about reservations need one another: a completion
frees a robot only when no other job is assigned to it, which keeps `Reserved` only
because of `OneJobPerRobot`, and a pass keeps `OneJobPerRobot` only because a robot
with a job is not available (`Reserved`) and is taken once per pass. The latter needs
that the pass is a total order, hence `PlacesDistinct`. Most operations give no robot
away; one lemma (`NoneGivenSafe`) says what such an operation must respect and each
of them is shown to respect it, so that only `DispatchOnce` needs an argument of its
own (`DispatchSafe`).

*QueueInv.* `WaitingSettled` survives the operations that do not call refreshBlocked
because none of them changes a verdict: a job in flight that goes back to the queue
blocked its dependents before and blocks them after. That it goes back as pending is
`DependenciesDone`. A retry or a submission closes no cycle because
`DependsTransitively` looks at every set closed under dependencies, and a job in the
queue is in no dependency list before it is submitted (`DependenciesKnown`).

A pass overtakes nobody because the jobs it comes to later are offered only what is
left: `NobodyOvertaken` and `PassIsThorough` follow from `FleetInv` and from what
`IsPass` says of the best robot of each job, once no assignment can be taken back.
`NotStranded` needs no other invariant: it goes through all operations and asks of
each robot that is left unavailable what it has to report.

*LifeInv* adds that a job that is not in the queue has run zero times.

*BookInv* is what holds of a queue with a disk whatever the store refuses: the disk has
rows for just the jobs of the queue, with their places, keys and attempts; places are
distinct and bounded, the index names the one job with each key, and of no job a higher
attempt was told than it has. New jobs are written, and archived ones deleted, before
memory changes, or the operation gives up; an attempt counts only when its job was
written. So no refusal can part the two.

*SafeInv* is BookInv, a disk that has what memory has (`Current`), and the invariants of
the queue, except that of the waiting jobs it says only that those with all dependencies
done are pending (`WaitsRight`): a start judges nobody again, so a killed retry may leave
the other verdicts old. The work is in the steps that kill the process. A start after a
pass that was killed finds some jobs assigned whose robots are unavailable on disk,
perhaps one robot that is unavailable and has no job, and all other rows as they were; a
start after a killed retry finds the new row of the retried job, and the old or the new
one of each dependent. In both, what is on disk is shown to have the invariants of the
queue again, and each job of it to have made one of the moves of JobLifecycle or none.

*OutcomeInv*: a report on the way is true of the attempt it names, and a job that has
ended was given to a robot. What has become of an attempt stays, a report of an attempt
other than the present one is refused, and one of the present attempt says how it ended.
`WorldRunsTheEngine` makes the theorems of the engine available here.

*AloneInv*: only the robot that has the job in flight runs it, and only at the attempt the
job is at (`Carried`); an attempt that a report or a confirmation on the way speaks of is
over; the robots that may be asked to stop can (`Able`). With `ConfirmsFirst` the
operations that take a job from a robot are a report of its end and a confirmation, and
both say that it does not run any more.

*HubInv* says of every subscriber that its channel is closed at most once, that it is
open and its goroutine listens while it is registered, and that a goroutine that listens
is registered or finds it closed: `Publish` takes a channel out of `subs` in the step
in which it closes it, so the cancel that comes later leaves it alone.

*EventsInv* adds the events. What a connected stream has read, was not offered, or has
under way are all events up to some number, the latest one while it is registered; those
under way are in order and each once: the wire before the replay, the replay before the
queue, and all of them after what was read. The ring holds the latest events without a
gap, so a subscription that replays it and is registered under the same lock begins where
the replay ends. The queue of a registered hook holds the latest events, all later than
the one it is delivering.

*SinkInv.* LockInv relates the read lock, the flag and the channel: a producer that
is about to send has read `stopped` as false and holds the lock for reading, so the
stopper that would close the channel has not got it. FifoInv says that the accepted
events are the handed ones, the one in the hands of the worker, and those in the
channel, in this order; the worker returns only when the channel is closed and empty,
which leaves the first part.

*LoopInv* says that what the present pass has visited and not changed has the right
verdict as long as `changed` is false, so the pass that ends the loop proves the
table settled. `OneSettledTable` then gives that the order of visits is irrelevant:
the set of jobs on which two settled tables differ would have no first member.

*IndexInv*: a job that names a robot is listed for it, and a job that left the queue
names none, so an entry that no longer fits cannot come to fit again by itself.

*ClockInv*: while a robot is silent, the age of its heartbeat is at least as long as the
robot has been fresh, less the tolerance; it can be fresh only up to an age of the
timeout.

*BoardInv*: the end of a proposal that is no longer open is not after the one kept for its
source (`lastEnd`), which is not in the future, and the jobs ordered are those of the
approved proposals. *ConfirmInv*: what is kept of a robot is one of its answers, with the
time of it, and no pass that began after that pass had ended has revoked it.

*PlanInv* says of a plan half made that its estimates for one robot lie apart, that nobody
starts in the past or before what it depends on has ended, and that a robot is free no
earlier than the ends of what it has. It also says why planLocked never gives up on a job
it could have placed: a job visited in a pass without progress and still open is neither
to be given up nor ready to be placed, so it waits for another one that is open. If such a
pass ended with jobs left over, the first of them by dependencies (there is one, as there
is no cycle) would wait for nobody. *AgreeInv* says of the first pass that it comes to the
jobs ahead of all blocked ones in dispatch order, and that, as long as one of them is
open, the robots free now are just the idle ones that nobody ahead has begun with, which
is what bestRobotFor sees in the next pass of DispatchOnce.

*PassInv* says how far the pass is: the jobs it has come to are before the others in its
order (`InOrder`), the tables hold what the jobs that kept their robots gave them
(`MadeInv`), and each job it has come to was offered just what the one step would
offer it (`PickedWell`). The last part is the point of the proof. JobEngine offers a
job the robots that no earlier job *of those not refused* took, and knows the refused
ones of the whole pass at once; the loop learns of a refusal only when it happens. They
agree because a refusal concerns the last job the pass has come to, which is before none
of those that were offered something already (`EarlierStayPicked`).

## 6. What is only model-checked

`Ends`, `SilenceNoticed`, `KeepsUp`, `HooksEnd`, `ResultsArrive`, `RetainedCatchesUp`,
`Recovers` and `StopEnds` are liveness properties under fairness, which these proofs do not
reach; so is everything that needs ENABLED. HealthService and StatePublisher promise
nothing else that is worth a theorem, so no theorem is about them. What runs with a store
that refuses writes check of the queue (MCLostWrites) is proved; that the
other invariants do not hold there is said in section 4. The type invariants of the
modules other than JobEngine are parts of the inductive invariants where a proof needs
them. No induction over data was needed: sums and longest waits are not spoken of.
There are no recursive operators: transitive dependency, archivability and refreshed
tables are stated as fixed points.

## 7. What is not modelled

* Of the store: the migrations of the schema, the pages of archived jobs, and stores
  other than SQLite (one without transactions).
* Of time: how long a job takes, and the order of events by their timestamps. JobEngine
  has the flags `heard` and `due`; HeartbeatClock has the numbers behind the first. A
  record of a robot from before heartbeats were stored has none until the robot speaks: the
  sweep spares such a robot (dispatcher.go 1269), which HeartbeatClock has (`Stale`) and
  JobEngine, and with it `SilenceNoticed`, leaves out.
* Of the robots: what a robot does without a job, and bridges that confirm without
  having stopped (API.md 461 rules them out).
* Of the HTTP API: the decoding of requests, pages and metrics, and that some handlers
  read the job for their answer in a second call of the engine (`api.go` 477, 543),
  so that an answer may show a later state than the one the call produced.
* Of the publisher: the packets of MQTT and the checks of its configuration.
* Of the events: the filter by type on streams, signatures of webhooks, the detection
  of a client that is silent without being gone.
* The shutdown of the process: `main.go` ends without calling the stop of the
  production queue, Close of the hub or Stop of the health service, which are modelled
  as what they offer to a program that calls them, as the tests do.
* Of the production events: which completions have one, and its text.
* Of the health service: credentials, the limit on connections, the counts in a
  report. LastPersistError (`queue.go` 77) takes the lock of the queue without a timer:
  when the queue sticks between the probe's answer and this call, the report waits as
  long as the queue does. The model has it; the premise of `StopEnds` excludes that it
  lasts for ever, and no property says that a report comes in time.
* Of the estimates: averages and percentiles, the two plans of the ranges (the same
  loop with other tables), the reasons of `GET /dispatch/waiting`.
* Parsing and checking of configuration and requests, signed proposals, server
  identity, the tool catalog, metrics and pages: validation or presentation without
  a state of their own. `addJobLocked` and the retry check the shape of a request
  (no dependency on itself); the requests enumerated here have that shape.
* Generated code under `src/src/healthpb` and the scripts under `src/tools`.

## 8. Plan

Written in this order, the most important behaviour first: JobStatus and RobotChoice,
JobEngine with its invariants, JobLifecycle, RefreshLoop and RobotScan, the proofs,
DurableEngine, EventHub, AsyncSink, MaintenanceBoard, QueuePlanner, ToolConfirm and
HealthService; then DispatchLoop, RobotIndex, HeartbeatClock, StatePublisher and
RobotBridge; then the proofs DurableProofs and BridgeProofs and what was missing in the
others. What follows:

1. RobotBridge over DurableEngine: robots that go on while the dispatcher is down. The
   theorems about the disk and about the robots do not yet say that an outcome
   stays real over a crash.
2. The safety steps behind the liveness properties: in HealthService that the lock is
   always held by somebody who will give it back, in StatePublisher that a message that
   is not the present state is followed by one that is due.
3. What holds of reservations when a write was refused and the process is killed
   afterwards: which robots may then have two jobs.

## 9. Running it

`tlc -config MCChain.cfg MCJobEngine.tla` and likewise for the other runs:

| module | configurations |
| --- | --- |
| MCJobEngine | MCChain, MCFleet, MCSilence |
| MCDurableEngine | MCCrash, MCLostWrites |
| MCServices | MCServices, MCResumed |
| MCDecisions | MCDecisions, MCOldAnswer |
| MCRobotBridge | MCRobotBridge, MCLateStop, MCLostStop |

`tlapm JobEngineProofs.tla` and likewise for the other proof modules.
