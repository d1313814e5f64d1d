------------------------------ MODULE JobEngine ------------------------------
(***************************************************************************)
(* The mission queue of the dispatcher: the Engine of dispatcher.go with   *)
(* replan.go, stopconfirm.go and archive.go.                               *)
(*                                                                         *)
(* Every exported operation of the Engine holds the one mutex e.mu from    *)
(* its first read to its last write, so each operation is one action here. *)
(* A call that is refused, or that finds nothing to do, changes nothing    *)
(* and is a stuttering step.                                               *)
(*                                                                         *)
(* refreshBlocked and the pass of DispatchOnce are loops inside an action. *)
(* They are stated by their results: RefreshLoop and RobotScan take the    *)
(* loops step by step, in every order of the Go maps, and end there.       *)
(***************************************************************************)
EXTENDS RobotChoice, JobStatus, FiniteSets

CONSTANTS
  Tools,         \* tool names
  NoTool,        \* the empty string: no tool attached, or none required
  Keys,          \* dedup keys
  NoKey,         \* the empty string: a submission without a dedup key
  Keep,          \* a field that a heartbeat leaves out (a nil of RobotUpdate)
  Requests,      \* what clients may submit: see RequestType
  Reports,       \* what robots may report about themselves: see ReportType
  ReplanConfigs, \* the "replan" sections a (re)loaded configuration may hold
  FreshnessOn,   \* -robot-timeout > 0: a silent robot is not offered work
  ToolsChecked,  \* the tool confirmation (toolconfirm.go) is switched on
  StoreMayFail,  \* a write to the store may be refused
  ArchiveOn,     \* a database is set and archive.days > 0
  RouteSweeps,   \* clients call POST /jobs/detect-stale with timeouts of their own
  MaxSeq,        \* bound: submissions that insert a job
  MaxAttempt     \* bound: dispatches of one job

AskType == [priority : Nat, tool : Tools \cup {NoTool}, location : Place]
NoAsk   == [priority |-> 0, tool |-> NoTool, location |-> NoLocation]

RequestType == [id : Jobs, key : Keys \cup {NoKey}, ask : AskType, deps : SUBSET Jobs]

BodyType == [tool : Tools \cup {NoTool}, location : Place, stopCapable : BOOLEAN]
NoBody   == [tool |-> NoTool, location |-> NoLocation, stopCapable |-> FALSE]

ReportType == [robot : Robots,
               tool : Tools \cup {NoTool, Keep},
               location : Place \cup {Keep},
               stopCapable : BOOLEAN \cup {Keep},
               available : BOOLEAN \cup {Keep}]

ReplanType == [enabled : BOOLEAN, onStale : BOOLEAN, onFault : BOOLEAN,
               allowUnconfirmed : BOOLEAN]

\* A stop request; "due" says that its timeoutAt has passed.
StopType == [robot : Robots \cup {NoRobot}, attempt : Nat,
             due : BOOLEAN, expired : BOOLEAN]
NoStop   == [robot |-> NoRobot, attempt |-> 0, due |-> FALSE, expired |-> FALSE]

ASSUME RobotsPositive == Robots \subseteq Nat \ {0} /\ IsFiniteSet(Robots)
ASSUME NoKeyFresh == NoKey \notin Keys
ASSUME KeepFresh ==
  Keep \notin Tools /\ Keep # NoTool /\ Keep \notin Place /\ Keep \notin BOOLEAN
ASSUME RequestsTyped ==
  /\ Requests \subseteq RequestType
  /\ \A q \in Requests : q.id \notin q.deps
ASSUME ReportsTyped == Reports \subseteq ReportType
ASSUME ReplanTyped == ReplanConfigs \subseteq ReplanType
ASSUME FlagsTyped ==
  {FreshnessOn, ToolsChecked, StoreMayFail, ArchiveOn, RouteSweeps} \subseteq BOOLEAN
ASSUME BoundsTyped == MaxSeq \in Nat /\ MaxAttempt \in Nat

VARIABLES
  \* e.jobs, one function per field of Job
  status, robotOf, attempt, ask, deps, seq, key,
  \* e.nextSeq, e.dedupIndex (a key maps to the set of its at most one job)
  nextSeq, dedupIndex,
  \* e.robots, one function per field of Robot; known is the set of its keys
  known, available, held, load, body, heard,
  \* e.stopReq and e.replan
  stopReq, replan

jobVars   == <<status, robotOf, attempt, ask, deps, seq, key, nextSeq, dedupIndex>>
robotVars == <<known, available, held, load, body, heard>>
vars      == <<jobVars, robotVars, stopReq, replan>>

TypeOK ==
  /\ status \in [Jobs -> Status]
  /\ robotOf \in [Jobs -> Robots \cup {NoRobot}]
  /\ attempt \in [Jobs -> Nat]
  /\ ask \in [Jobs -> AskType]
  /\ deps \in [Jobs -> SUBSET Jobs]
  /\ seq \in [Jobs -> Nat]
  /\ key \in [Jobs -> Keys \cup {NoKey}]
  /\ nextSeq \in Nat
  /\ dedupIndex \in [Keys -> SUBSET Jobs]
  /\ known \in SUBSET Robots
  /\ available \in [Robots -> BOOLEAN]
  /\ held \in [Robots -> BOOLEAN]
  /\ load \in [Robots -> Nat]
  /\ body \in [Robots -> BodyType]
  /\ heard \in [Robots -> BOOLEAN]
  /\ stopReq \in [Jobs -> StopType]
  /\ replan \in ReplanType

\* NewEngine: an empty queue and an empty registry.
Init ==
  /\ status = [j \in Jobs |-> Absent]
  /\ robotOf = [j \in Jobs |-> NoRobot]
  /\ attempt = [j \in Jobs |-> 0]
  /\ ask = [j \in Jobs |-> NoAsk]
  /\ deps = [j \in Jobs |-> {}]
  /\ seq = [j \in Jobs |-> 0]
  /\ key = [j \in Jobs |-> NoKey]
  /\ nextSeq = 0
  /\ dedupIndex = [k \in Keys |-> {}]
  /\ known = {}
  /\ available = [r \in Robots |-> FALSE]
  /\ held = [r \in Robots |-> FALSE]
  /\ load = [r \in Robots |-> 0]
  /\ body = [r \in Robots |-> NoBody]
  /\ heard = [r \in Robots |-> FALSE]
  /\ stopReq = [j \in Jobs |-> NoStop]
  /\ replan \in ReplanConfigs

-----------------------------------------------------------------------------
\* Mutant: the reservation of the scheduler is not looked at.
ActiveNever(r, st) == FALSE

\* robotHasActiveAssignmentLocked, in the table st.
Active(r, st) == \E j \in Jobs : st[j] = "assigned" /\ robotOf[j] = r

\* Mutant: only a direct dependency is refused.
DependsDirectly(D, j) == j \in D

\* dependsTransitivelyLocked: every set that holds the roots D and the
\* dependencies of its members holds j.
DependsTransitively(D, j) ==
  \A R \in SUBSET Jobs :
    (D \subseteq R /\ \A i \in R : deps[i] \subseteq R) => j \in R

-----------------------------------------------------------------------------
\* Submissions.

\* The place of a new job in the order of submission.
NextPlace(q) == nextSeq + 1

\* addJobLocked: a new job, its dependencies in the queue already.  A refused
\* write leaves only the sequence number used up.
AddJob(q) ==
  /\ status[q.id] = Absent
  /\ q.deps \subseteq Live(status) \ {q.id}
  /\ nextSeq < MaxSeq
  /\ nextSeq' = nextSeq + 1
  /\ \/ /\ status' = [status EXCEPT ![q.id] = ComputeStatus(status, q.deps)]
        /\ ask' = [ask EXCEPT ![q.id] = q.ask]
        /\ deps' = [deps EXCEPT ![q.id] = q.deps]
        /\ seq' = [seq EXCEPT ![q.id] = NextPlace(q)]
        /\ key' = [key EXCEPT ![q.id] = q.key]
        /\ dedupIndex' = [k \in Keys |-> IF k = q.key THEN {q.id} ELSE dedupIndex[k]]
        /\ UNCHANGED <<robotOf, attempt>>
     \/ /\ StoreMayFail
        /\ UNCHANGED <<status, ask, deps, seq, key, dedupIndex, robotOf, attempt>>
  /\ UNCHANGED <<robotVars, stopReq, replan>>

\* A submission of the same work may reset a job with this status.
MayRunAgain(st) == st \in {"failed", "cancelled"}

\* The retry q of j is accepted: nothing it depends on is j or waits for j.
MayRetry(q, j) ==
  /\ MayRunAgain(status[j])
  /\ q.deps \subseteq Live(status) \ {j}
  /\ ~DependsTransitively(q.deps, j)

\* SubmitJob with a dedup key that names the job j, which failed or was
\* cancelled: the same job, with the demands of the retry, waits again.
RetryJob(q, j) ==
  /\ MayRetry(q, j)
  /\ ask' = [ask EXCEPT ![j] = q.ask]
  /\ deps' = [deps EXCEPT ![j] = q.deps]
  /\ robotOf' = [robotOf EXCEPT ![j] = NoRobot]
  /\ status' \in Refreshed([status EXCEPT ![j] = ComputeStatus(status, q.deps)], deps')
  /\ UNCHANGED <<attempt, seq, key, nextSeq, dedupIndex, robotVars, stopReq, replan>>

\* The job a submission is a repetition of.
SameWork(q) == IF q.key = NoKey THEN {} ELSE dedupIndex[q.key]

\* SubmitJob; AddJob of POST /jobs is the submission without a dedup key.  A
\* repetition of a job that neither failed nor was cancelled changes nothing.
SubmitJob(q) ==
  \/ SameWork(q) = {} /\ AddJob(q)
  \/ \E j \in SameWork(q) : RetryJob(q, j)

-----------------------------------------------------------------------------
\* Going back to the queue.

\* requeueJobLocked for every job of J: no robot, its status computed again,
\* and the robots they were given to held until their own next heartbeat.  The
\* code computes one job after the other; what J holds cannot depend on J
\* (DependenciesDone), so the table before the step gives the same statuses.
\* extra are the robots held in any case.
RequeueAll(J, extra) ==
  LET off == (known \cap {robotOf[j] : j \in J}) \cup extra
  IN  /\ status' = [j \in Jobs |-> IF j \in J THEN ComputeStatus(status, deps[j])
                                              ELSE status[j]]
      /\ robotOf' = [j \in Jobs |-> IF j \in J THEN NoRobot ELSE robotOf[j]]
      /\ available' = [r \in Robots |-> available[r] /\ r \notin off]
      /\ held' = [r \in Robots |-> held[r] \/ r \in off]

HeldJobs(r, st) == {j \in Jobs : robotOf[j] = r /\ status[j] \in st}

\* RequeueJob: the way out of a job nobody will report on.
RequeueJob(j, r) ==
  /\ status[j] \in InFlight
  /\ r \in {NoRobot, robotOf[j]}
  /\ RequeueAll({j}, {})
  /\ stopReq' = [stopReq EXCEPT ![j] = NoStop]
  /\ UNCHANGED <<attempt, ask, deps, seq, key, nextSeq, dedupIndex>>
  /\ UNCHANGED <<known, load, body, heard, replan>>

\* ReplanRobot: the robot failed or is gone.
ReplanRobot(r) ==
  /\ replan.enabled
  /\ r \in known
  /\ LET J == HeldJobs(r, InFlight)
     IN  /\ RequeueAll(J, {r})
         /\ stopReq' = [j \in Jobs |-> IF j \in J THEN NoStop ELSE stopReq[j]]
  /\ UNCHANGED <<attempt, ask, deps, seq, key, nextSeq, dedupIndex>>
  /\ UNCHANGED <<known, load, body, heard, replan>>

\* AckStop: the robot confirms that it stopped the job.  The message names the
\* robot and the job; the attempt compared is the one the request was made for.
AckStop(r, j) ==
  /\ replan.enabled
  /\ robotOf[j] \in {NoRobot, r}
  /\ status[j] \in InFlight
  /\ stopReq[j].robot = r
  /\ stopReq[j].attempt = attempt[j]
  /\ RequeueAll({j}, {})
  /\ stopReq' = [stopReq EXCEPT ![j] = NoStop]
  /\ UNCHANGED <<attempt, ask, deps, seq, key, nextSeq, dedupIndex>>
  /\ UNCHANGED <<known, load, body, heard, replan>>

-----------------------------------------------------------------------------
\* Robots.

\* Mutant: a field that is left out overwrites.
GivenAlways(field, old) == field

Given(field, old) == IF field = Keep THEN old ELSE field

\* A report laid over what is known of the robot.
Merge(p, old) == [tool        |-> Given(p.tool, old.tool),
                  location    |-> Given(p.location, old.location),
                  stopCapable |-> Given(p.stopCapable, old.stopCapable)]

\* UpdateRobot for a robot the registry does not hold.
Register(p) ==
  /\ p.robot \notin known
  /\ known' = known \cup {p.robot}
  /\ body' = [body EXCEPT ![p.robot] = Merge(p, NoBody)]
  /\ available' = [available EXCEPT ![p.robot] = Given(p.available, FALSE)]
  /\ held' = [held EXCEPT ![p.robot] = FALSE]
  /\ load' = [load EXCEPT ![p.robot] = 0]
  /\ heard' = [heard EXCEPT ![p.robot] = TRUE]
  /\ UNCHANGED <<jobVars, stopReq, replan>>

\* UpdateRobot for a robot of the registry: a heartbeat.  What it says about
\* availability counts only while no job is assigned to the robot; while one
\* is, "not available" is remembered, and requeues the job when replanning
\* takes it for a fault.
Heartbeat(p) ==
  LET r == p.robot
      J == HeldJobs(r, {"assigned"})
      busy == Active(r, status)
      fault == replan.enabled /\ replan.onFault
  IN  /\ r \in known
      /\ body' = [body EXCEPT ![r] = Merge(p, body[r])]
      /\ heard' = [heard EXCEPT ![r] = TRUE]
      /\ \/ /\ p.available = Keep \/ (busy /\ p.available = TRUE)
            /\ UNCHANGED <<status, robotOf, available, held, stopReq>>
         \/ /\ p.available # Keep /\ ~busy
            /\ available' = [available EXCEPT ![r] = p.available]
            /\ held' = [held EXCEPT ![r] = ~p.available]
            /\ UNCHANGED <<status, robotOf, stopReq>>
         \/ /\ p.available = FALSE /\ busy /\ ~fault
            /\ held' = [held EXCEPT ![r] = TRUE]
            /\ UNCHANGED <<status, robotOf, available, stopReq>>
         \/ /\ p.available = FALSE /\ busy /\ fault
            /\ RequeueAll(J, {r})
            /\ stopReq' = [j \in Jobs |-> IF j \in J THEN NoStop ELSE stopReq[j]]
      /\ UNCHANGED <<attempt, ask, deps, seq, key, nextSeq, dedupIndex>>
      /\ UNCHANGED <<known, load, replan>>

UpdateRobot(p) == Register(p) \/ Heartbeat(p)

\* Nobody waits for a report of the robot.
MayGo(r) == HeldJobs(r, InFlight) = {}

\* RemoveRobot: refused while a job is in flight on the robot.  With a store
\* the record is deleted there first; a refused delete changes nothing.
RemoveRobot(r) ==
  /\ r \in known
  /\ MayGo(r)
  /\ known' = known \ {r}
  /\ available' = [available EXCEPT ![r] = FALSE]
  /\ held' = [held EXCEPT ![r] = FALSE]
  /\ load' = [load EXCEPT ![r] = 0]
  /\ body' = [body EXCEPT ![r] = NoBody]
  /\ heard' = [heard EXCEPT ![r] = FALSE]
  /\ UNCHANGED <<jobVars, stopReq, replan>>

-----------------------------------------------------------------------------
\* Dispatching.

Pending == {j \in Jobs : status[j] = "pending"}

\* Mutant: first come, first served.
BeforeByPlace(i, j) == seq[i] < seq[j]

\* The order of the pass: higher priority first, then first submitted.
Before(i, j) ==
  \/ ask[i].priority > ask[j].priority
  \/ ask[i].priority = ask[j].priority /\ seq[i] < seq[j]

\* robotEligibleLocked; confirmed is the set of robots whose controller
\* confirmed the tool the job needs (toolConfirmedLocked).
Eligible(r, j, confirmed) ==
  /\ r \in known
  /\ available[r]
  /\ ask[j].tool # NoTool =>
       /\ body[r].tool = ask[j].tool
       /\ ToolsChecked => r \in confirmed
  /\ FreshnessOn => heard[r]

AsCandidate(r) == [id |-> r, load |-> load[r], location |-> body[r].location]

\* bestRobotFor, among the robots of C.
BestRobot(r, j, C) ==
  r \in C /\ \A s \in C \ {r} :
               Preferred(ask[j].location, AsCandidate(r), AsCandidate(s))

\* Mutant: a robot given to an earlier job of the pass is offered again.
FreeTwice(j, pass, refused, confirmed) == {r \in Robots : Eligible(r, j, confirmed)}

\* Mutant: the pass ends with its first assignment.
FreeOnce(j, pass, refused, confirmed) ==
  {r \in Robots : /\ Eligible(r, j, confirmed)
                  /\ \A i \in Pending : Before(i, j) => pass[i] = NoRobot}

\* Robots the pass may still give to j: those that no earlier job took.  A job
\* of refused gave its robot back, because a write about the two was refused.
Free(j, pass, refused, confirmed) ==
  {r \in Robots : /\ Eligible(r, j, confirmed)
                  /\ \A i \in Pending \ refused : Before(i, j) => pass[i] # r}

\* pass[j] is the robot bestRobotFor returned for j, or NoRobot.
IsPass(pass, refused, confirmed) ==
  \A j \in Pending :
    LET free == Free(j, pass, refused, confirmed)
    IN  \/ free = {} /\ pass[j] = NoRobot
        \/ BestRobot(pass[j], j, free)

Won(pass, refused) == {j \in Pending \ refused : pass[j] # NoRobot}

\* Mutant: a refused write leaves the robot reserved.
ReservedByAll(pass, refused) == {pass[j] : j \in Pending}

\* The robots reserved by the pass.
ReservedBy(pass, refused) == {pass[j] : j \in Won(pass, refused)}

\* Attempt++ for the jobs that were given to a robot.
Counted(won) == [j \in Jobs |-> IF j \in won THEN attempt[j] + 1 ELSE attempt[j]]

\* The effect of a pass: robots reserved, jobs assigned and counted.
Assign(pass, refused, confirmed) ==
  LET won == Won(pass, refused)
  IN  /\ IsPass(pass, refused, confirmed)
      /\ \A j \in won : attempt[j] < MaxAttempt
      /\ status' = [j \in Jobs |-> IF j \in won THEN "assigned" ELSE status[j]]
      /\ robotOf' = [j \in Jobs |-> IF j \in won THEN pass[j] ELSE robotOf[j]]
      /\ attempt' = Counted(won)
      /\ available' = [r \in Robots |-> available[r] /\ r \notin ReservedBy(pass, refused)]
      /\ UNCHANGED <<ask, deps, seq, key, nextSeq, dedupIndex>>
      /\ UNCHANGED <<known, held, load, body, heard, stopReq, replan>>

Passes == [Pending -> Robots \cup {NoRobot}]

\* DispatchOnce.  refused are the jobs whose assignment was rolled back.
DispatchOnce(refused, confirmed) == \E pass \in Passes : Assign(pass, refused, confirmed)

\* Mutant: a completion means that the robot is well.
ComesBackAlways(r, st) == ~Active(r, st)

\* Whether a robot is offered again once one of its jobs ended: not while
\* another job is assigned to it, nor after it said it is not available.
ComesBack(r, st) == ~Active(r, st) /\ ~held[r]

\* CompleteJobAttempt: the report of robot r about attempt n (0: not stated).
CompleteJobAttempt(j, r, n, success) ==
  LET end == [status EXCEPT ![j] = IF success THEN "done" ELSE "failed"]
  IN  /\ status[j] \in InFlight
      /\ robotOf[j] = r
      /\ n \in {0, attempt[j]}
      /\ r \in known
      /\ load' = [load EXCEPT ![r] = @ + 1]
      /\ available' = [available EXCEPT ![r] = @ \/ ComesBack(r, end)]
      /\ status' \in Refreshed(end, deps)
      /\ UNCHANGED <<robotOf, attempt, ask, deps, seq, key, nextSeq, dedupIndex>>
      /\ UNCHANGED <<known, held, body, heard, stopReq, replan>>

\* CancelJob: only a job that no robot has been given.
CancelJob(j) ==
  /\ status[j] \in Waiting
  /\ robotOf' = [robotOf EXCEPT ![j] = NoRobot]
  /\ status' \in Refreshed([status EXCEPT ![j] = "cancelled"], deps)
  /\ UNCHANGED <<attempt, ask, deps, seq, key, nextSeq, dedupIndex>>
  /\ UNCHANGED <<robotVars, stopReq, replan>>

-----------------------------------------------------------------------------
\* Silent robots.

\* Mutant: every sweep asks again.
AskedNever(j) == FALSE

\* The request made for the assignment the job has now.
Asked(j) == stopReq[j].robot = robotOf[j] /\ stopReq[j].attempt = attempt[j]

\* Mutant: a stop nobody confirmed in time is taken for granted.
TakenForGrantedAlways == TRUE

\* Whether a stop that was not confirmed by its deadline is taken for granted.
TakenForGranted == replan.allowUnconfirmed

\* DetectStaleAssignmentsStop, where S are the robots whose last heartbeat is
\* older than the timeout of this call (or lies in the future).  A robot in the
\* registry has sent one: the zero time of a record from before the column was
\* added, which the sweep spares, is in HeartbeatClock (Stale).
DetectStale(S) ==
  LET assigned == {j \in Jobs : status[j] = "assigned" /\ robotOf[j] \in known}
      stale    == {j \in assigned : robotOf[j] \in S}
      \* stopDecisionLocked, while replanning for silent robots is on
      replans  == replan.enabled /\ replan.onStale
      asked    == {j \in stale : replans /\ body[robotOf[j]].stopCapable}
      current  == {j \in asked : Asked(j)}
      late     == {j \in current : stopReq[j].due}
      requeue  == IF ~replans THEN {}
                  ELSE (stale \ asked) \cup (IF TakenForGranted THEN late ELSE {})
      unknown  == IF ~replans THEN stale
                  ELSE IF TakenForGranted THEN {} ELSE late
      off      == {robotOf[j] : j \in requeue}
  IN  /\ stopReq' = [j \in Jobs |->
            IF j \in (assigned \ stale) \cup requeue THEN NoStop
            ELSE IF j \in asked \ current
                 THEN [robot |-> robotOf[j], attempt |-> attempt[j],
                       due |-> FALSE, expired |-> FALSE]
            ELSE IF j \in late THEN [stopReq[j] EXCEPT !.expired = TRUE]
            ELSE stopReq[j]]
      /\ status' = [j \in Jobs |->
            IF j \in unknown THEN "unknown"
            ELSE IF j \in requeue THEN ComputeStatus(status, deps[j])
            ELSE status[j]]
      /\ robotOf' = [j \in Jobs |-> IF j \in requeue THEN NoRobot ELSE robotOf[j]]
      /\ available' = [r \in Robots |-> available[r] /\ r \notin off]
      /\ held' = [r \in Robots |-> held[r] \/ r \in off]
      /\ UNCHANGED <<attempt, ask, deps, seq, key, nextSeq, dedupIndex>>
      /\ UNCHANGED <<known, load, body, heard, replan>>

\* The robots that have been silent for longer than -robot-timeout.
Silent == {r \in known : ~heard[r]}

-----------------------------------------------------------------------------
\* The archive.

\* The jobs of old that no job outside them depends on: what is left when the
\* loop of ArchiveFinished has put back every other one.
Archivable(old) ==
  UNION {C \in SUBSET old : \A i \in Live(status) \ C : deps[i] \cap C = {}}

\* Mutant: the keys of archived jobs stay taken.
IndexKept(C) == dedupIndex

\* The dedup index without the jobs of C.
IndexWithout(C) == [k \in Keys |-> dedupIndex[k] \ {j \in C : key[j] = k}]

\* ArchiveFinished, where old are jobs that ended before the cutoff.
ArchiveFinished(old) ==
  LET C == Archivable(old)
  IN  /\ ArchiveOn
      /\ C # {}
      /\ status' = [j \in Jobs |-> IF j \in C THEN Absent ELSE status[j]]
      /\ robotOf' = [j \in Jobs |-> IF j \in C THEN NoRobot ELSE robotOf[j]]
      /\ attempt' = [j \in Jobs |-> IF j \in C THEN 0 ELSE attempt[j]]
      /\ ask' = [j \in Jobs |-> IF j \in C THEN NoAsk ELSE ask[j]]
      /\ deps' = [j \in Jobs |-> IF j \in C THEN {} ELSE deps[j]]
      /\ seq' = [j \in Jobs |-> IF j \in C THEN 0 ELSE seq[j]]
      /\ key' = [j \in Jobs |-> IF j \in C THEN NoKey ELSE key[j]]
      /\ dedupIndex' = IndexWithout(C)
      /\ stopReq' = [j \in Jobs |-> IF j \in C THEN NoStop ELSE stopReq[j]]
      /\ UNCHANGED <<nextSeq, robotVars, replan>>

-----------------------------------------------------------------------------
\* What happens around the engine.

\* -robot-timeout passes without a heartbeat of r.
FallSilent(r) ==
  /\ FreshnessOn
  /\ r \in known /\ heard[r]
  /\ heard' = [heard EXCEPT ![r] = FALSE]
  /\ UNCHANGED <<jobVars, known, available, held, load, body, stopReq, replan>>

\* The time given to acknowledge a stop request passes.
StopDeadline(j) ==
  /\ stopReq[j].robot # NoRobot /\ ~stopReq[j].due
  /\ stopReq' = [stopReq EXCEPT ![j].due = TRUE]
  /\ UNCHANGED <<jobVars, robotVars, replan>>

\* SetReplan, from a reload of the configuration file.
SetReplan(c) ==
  /\ c # replan
  /\ replan' = c
  /\ UNCHANGED <<jobVars, robotVars, stopReq>>

-----------------------------------------------------------------------------
Refusals == IF StoreMayFail THEN SUBSET Pending ELSE {{}}
Confirmations == IF ToolsChecked THEN SUBSET known ELSE {{}}

\* What a sweep may find silent: the background sweep of main.go judges by
\* -robot-timeout, a call of the route by any timeout, and clocks may step.
Sweeps == IF RouteSweeps THEN SUBSET known ELSE {Silent}

Next ==
  \/ \E q \in Requests : SubmitJob(q)
  \/ \E p \in Reports : UpdateRobot(p)
  \/ \E r \in Robots : RemoveRobot(r)
  \/ \E refused \in Refusals, confirmed \in Confirmations :
       DispatchOnce(refused, confirmed)
  \/ \E j \in Jobs, r \in Robots, n \in 0 .. MaxAttempt, success \in BOOLEAN :
       CompleteJobAttempt(j, r, n, success)
  \/ \E j \in Jobs : CancelJob(j)
  \/ \E j \in Jobs, r \in Robots \cup {NoRobot} : RequeueJob(j, r)
  \/ \E r \in Robots : ReplanRobot(r)
  \/ \E r \in Robots, j \in Jobs : AckStop(r, j)
  \/ \E S \in Sweeps : DetectStale(S)
  \/ \E old \in SUBSET {j \in Jobs : status[j] \in Finished} : ArchiveFinished(old)
  \/ \E r \in Robots : FallSilent(r)
  \/ \E j \in Jobs : StopDeadline(j)
  \/ \E c \in ReplanConfigs : SetReplan(c)

Spec == Init /\ [][Next]_vars

\* The background sweep of main.go runs every -robot-timeout / 2 for as long as
\* the service does, and time passes.  Nothing is assumed of clients or robots.
FairSpec ==
  /\ Spec
  /\ WF_vars(DetectStale(Silent))
  /\ \A j \in Jobs : WF_vars(StopDeadline(j))

-----------------------------------------------------------------------------
\* Invariants.

\* A job that is assigned has its robot reserved: the robot is in the registry
\* and is not offered to any other job.  The heartbeat that races a dispatch
\* (upsertRobotLocked), the late report about another job of the same robot
\* (CompleteJobAttempt) and the removal of a robot must all leave it so.
Reserved ==
  \A j \in Jobs : status[j] = "assigned" =>
    robotOf[j] \in known /\ ~available[robotOf[j]]

\* A robot is never given a second job while one is assigned to it.
OneJobPerRobot ==
  \A i, j \in Jobs :
    (status[i] = "assigned" /\ status[j] = "assigned" /\ robotOf[i] = robotOf[j]) => i = j

\* A job whose outcome is still open has a robot to report it: RemoveRobot
\* cannot take that robot away, and every other job has none to answer for.
Answerable ==
  \A j \in Jobs : /\ status[j] \in InFlight => robotOf[j] \in known
                  /\ status[j] \in Waiting \cup {"cancelled"} => robotOf[j] = NoRobot

\* A job that was ever given to a robot since it was (re)submitted was given
\* only after everything it depends on had succeeded, and this stays true
\* whatever is retried, requeued or archived meanwhile.
DependenciesDone ==
  \A j \in Jobs : status[j] \in InFlight \cup {"done", "failed"} =>
    \A d \in deps[j] : status[d] = "done"

\* Between two operations every waiting job has the status its dependencies
\* give it now.  refreshBlocked runs only after a completion, a cancellation
\* and a retry, so no other operation may change a verdict.
WaitingSettled == Settled(WaitingIn(status), status, deps)

\* A dependency of a job of the queue is in the queue: the archive never takes
\* a job that another one depends on.
DependenciesKnown ==
  \A j \in Jobs : /\ status[j] # Absent => deps[j] \subseteq Live(status)
                  /\ status[j] = Absent => deps[j] = {}

\* No job depends on itself through others, whatever retries change: a cycle
\* would be blocked for ever, and refreshBlocked would depend on the map order.
Acyclic == AcyclicIn(deps)

\* A robot that declared itself not available, or lost its job to a requeue, is
\* not offered to jobs until its own next heartbeat: no completion and no
\* rollback of a dispatch brings it back.
HeldNotOffered == \A r \in Robots : held[r] => ~available[r]

\* The scheduler never strands a robot: one that it made unavailable still has
\* a job in flight to report, or waits for a heartbeat of its own.  (A robot
\* that registers as not available has finished nothing yet.)
NotStranded ==
  \A r \in known : (~available[r] /\ ~held[r] /\ HeldJobs(r, InFlight) = {}) => load[r] = 0

\* The dedup index names exactly the job of the queue that has the key, and
\* there is at most one: a repeated submission can find its job.
OneJobPerKey ==
  \A k \in Keys : /\ dedupIndex[k] = {j \in Live(status) : key[j] = k}
                  /\ \A i, j \in dedupIndex[k] : i = j

\* Two jobs of the queue never share a place in the order of submission, so
\* the order of a dispatch pass does not depend on the order of a Go map.
PlacesDistinct ==
  \A i, j \in Live(status) : seq[i] = seq[j] => i = j

\* What StopRequests lists (GET /jobs/stop-requests).
Listed(j) ==
  status[j] \in InFlight /\ stopReq[j].robot # NoRobot /\ robotOf[j] = stopReq[j].robot

-----------------------------------------------------------------------------
\* Action properties.

\* The attempt number that tells a late report from a current one only grows,
\* by one and only when the job is given to a robot, until the job is archived.
AttemptCountsDispatches ==
  [][\A j \in Jobs : attempt'[j] # attempt[j] =>
       \/ /\ status[j] = "pending" /\ status'[j] = "assigned"
          /\ attempt'[j] = attempt[j] + 1
       \/ status[j] \in Finished /\ status'[j] = Absent]_vars

GivenBy(j) == status[j] = "pending" /\ status'[j] = "assigned"

\* The robot may take the job, whatever the tool controllers confirm.
SurelyEligible(r, j) == Eligible(r, j, {})

\* No overtaking: when one pass gives a robot to j and leaves i waiting,
\* although i has the higher priority or, at the same priority, was submitted
\* first, then i could not have used that robot.  (A store that refuses the
\* write about i and that robot makes an exception.)
NoOvertaking ==
  [][\A i, j \in Jobs :
       (/\ GivenBy(j) /\ status[i] = "pending" /\ status'[i] = "pending"
        /\ \/ ask[i].priority > ask[j].priority
           \/ ask[i].priority = ask[j].priority /\ seq[i] < seq[j])
         => ~SurelyEligible(robotOf'[j], i)]_vars

\* A pass leaves no eligible job next to a robot that could take it, unless the
\* store refused the write about the two.
NothingLeftOver ==
  [][(\E j \in Jobs : GivenBy(j)) =>
       \A i \in Pending', r \in Robots : ~SurelyEligible(r, i)']_vars

\* The job of a robot that stays silent does not stay assigned to it: a sweep
\* marks it unknown or sends it back to the queue, after the time given to
\* confirm a stop when the robot can confirm one.
SilenceNoticed ==
  \A j \in Jobs, r \in Robots :
    (status[j] = "assigned" /\ robotOf[j] = r /\ r \in Silent)
      ~> (status[j] # "assigned" \/ robotOf[j] # r \/ r \notin Silent)

-----------------------------------------------------------------------------
\* What clients are promised.

PhaseOf(st) == IF st \in Waiting THEN "waiting"
               ELSE IF st \in InFlight THEN "running"
               ELSE st

Lifecycle == INSTANCE JobLifecycle WITH
               phase <- [j \in Jobs |-> PhaseOf(status[j])],
               runs  <- attempt,
               needs <- deps

\* Every job lives the life JobLifecycle promises: given to a robot only when
\* what it needs is done, never again once done, withdrawn only while no robot
\* has it, retried only when it failed or was withdrawn, and archived only
\* when no job that stays needs it.
LivesAsPromised == Lifecycle!LifeSpec
=============================================================================
