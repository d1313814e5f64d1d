---------------------------- MODULE DispatchLoop ----------------------------
(***************************************************************************)
(* The pass of DispatchOnce (dispatcher.go) job by job and write by write. *)
(* It runs with e.mu held, so what others see is what it leaves: the pass  *)
(* is shown to be one step DispatchOnce of JobEngine, whatever the store   *)
(* refuses on the way.                                                     *)
(***************************************************************************)
EXTENDS RobotChoice, JobStatus, FiniteSets

CONSTANTS
  Fittings,    \* tool names
  NoFitting,   \* the empty string: no tool attached, or none required
  LastAttempt, \* bound: dispatches of one job
  Situations   \* bound: the queues and fleets that a pass may find

AskType  == [priority : Nat, tool : Fittings \cup {NoFitting}, location : Place]
BodyType == [tool : Fittings \cup {NoFitting}, location : Place, stopCapable : BOOLEAN]

SituationType ==
  [status : [Jobs -> Status], robotOf : [Jobs -> Robots \cup {NoRobot}],
   attempt : [Jobs -> Nat], ask : [Jobs -> AskType], seq : [Jobs -> Nat],
   known : SUBSET Robots, available : [Robots -> BOOLEAN], load : [Robots -> Nat],
   body : [Robots -> BodyType], heard : [Robots -> BOOLEAN], confirmed : SUBSET Robots]

ASSUME PassAssumption ==
  /\ Robots \subseteq Nat \ {0}
  /\ LastAttempt \in Nat
  /\ Situations \subseteq SituationType
  /\ \A s \in Situations, i, j \in Jobs :
       (s.status[i] = "pending" /\ s.status[j] = "pending" /\ s.seq[i] = s.seq[j]) => i = j
  /\ \A s \in Situations, j \in Jobs :
       s.status[j] = "pending" => s.robotOf[j] = NoRobot /\ s.attempt[j] < LastAttempt

VARIABLES
  found,   \* queue and registry as the pass found them
  made,    \* what it has made of status, robotOf, attempt and available
  line,    \* eligible: the jobs that it has not come to
  given,   \* the job and the robot being written
  at,      \* "next", "robot", "job", "ended": what is done next
  picked,  \* ghost: what bestRobotFor returned for each job
  refused  \* ghost: the jobs with a write that was refused

passVars == <<found, made, line, given, at, picked, refused>>

Nobody == [job |-> "none", robot |-> NoRobot]

Found(s) == [status |-> s.status, robotOf |-> s.robotOf,
             attempt |-> s.attempt, available |-> s.available]

PassInit ==
  /\ found \in Situations
  /\ made = Found(found)
  /\ line = {j \in Jobs : found.status[j] = "pending"}
  /\ given = Nobody
  /\ at = "next"
  /\ picked = [j \in line |-> NoRobot]
  /\ refused = {}

-----------------------------------------------------------------------------
\* The comparison that eligible is sorted with.
ComesFirst(i, j) ==
  \/ found.ask[i].priority > found.ask[j].priority
  \/ found.ask[i].priority = found.ask[j].priority /\ found.seq[i] < found.seq[j]

\* robotEligibleLocked, with the freshness and the tool confirmation switched on.
MayHave(r, j) ==
  /\ r \in found.known
  /\ made.available[r]
  /\ found.ask[j].tool # NoFitting =>
       found.body[r].tool = found.ask[j].tool /\ r \in found.confirmed
  /\ found.heard[r]

Suited(j) == {r \in Robots : MayHave(r, j)}

ToCompare(r) == [id |-> r, load |-> found.load[r], location |-> found.body[r].location]

\* bestRobotFor, whose scan is RobotScan.
Fittest(r, j) ==
  /\ r \in Suited(j)
  /\ \A s \in Suited(j) \ {r} :
       Preferred(found.ask[j].location, ToCompare(r), ToCompare(s))

\* The next job of the loop finds a robot, which is reserved at once, or none.
TakeUp(j) ==
  /\ at = "next" /\ j \in line
  /\ \A i \in line \ {j} : ComesFirst(j, i)
  /\ line' = line \ {j}
  /\ \/ /\ Suited(j) = {}
        /\ UNCHANGED <<made, given, at, picked>>
     \/ \E r \in Robots :
          /\ Fittest(r, j)
          /\ made' = [made EXCEPT !.available[r] = FALSE]
          /\ given' = [job |-> j, robot |-> r]
          /\ picked' = [picked EXCEPT ![j] = r]
          /\ at' = "robot"
  /\ UNCHANGED <<found, refused>>

\* Mutant: a refused job leaves its robot reserved.
UndoneJobOnly(m) == [m EXCEPT !.status[given.job] = "pending",
                              !.robotOf[given.job] = NoRobot,
                              !.attempt[given.job] = @ - 1]

\* The way back when the job is refused.  Its robot was available before.
Undone(m) == [m EXCEPT !.status[given.job] = "pending",
                       !.robotOf[given.job] = NoRobot,
                       !.attempt[given.job] = @ - 1,
                       !.available[given.robot] = TRUE]

\* The write of the robot; the job is assigned only after it.
SaveRobot(taken) ==
  /\ at = "robot"
  /\ IF taken
     THEN /\ made' = [made EXCEPT !.status[given.job] = "assigned",
                                  !.robotOf[given.job] = given.robot,
                                  !.attempt[given.job] = @ + 1]
          /\ at' = "job"
          /\ UNCHANGED refused
     ELSE /\ made' = [made EXCEPT !.available[given.robot] = TRUE]
          /\ at' = "next"
          /\ refused' = refused \cup {given.job}
  /\ UNCHANGED <<found, line, given, picked>>

\* The write of the job.  What comes of the compensating write of the robot
\* changes nothing here.
SaveJob(taken) ==
  /\ at = "job"
  /\ at' = "next"
  /\ IF taken
     THEN UNCHANGED <<made, refused>>
     ELSE made' = Undone(made) /\ refused' = refused \cup {given.job}
  /\ UNCHANGED <<found, line, given, picked>>

\* The pass returns and gives the lock back.
EndDispatch ==
  /\ at = "next" /\ line = {}
  /\ at' = "ended"
  /\ UNCHANGED <<found, made, line, given, picked, refused>>

PassNext ==
  \/ \E j \in Jobs : TakeUp(j)
  \/ \E taken \in BOOLEAN : SaveRobot(taken) \/ SaveJob(taken)
  \/ EndDispatch

PassSpec == PassInit /\ [][PassNext]_passVars

-----------------------------------------------------------------------------
\* What others see: nothing of the pass before it has ended.
Seen == IF at = "ended" THEN made ELSE Found(found)

Engine == INSTANCE JobEngine WITH
  Tools <- Fittings, NoTool <- NoFitting, Keys <- {}, NoKey <- "no key", Keep <- "keep",
  Requests <- {}, Reports <- {}, ReplanConfigs <- {},
  FreshnessOn <- TRUE, ToolsChecked <- TRUE, StoreMayFail <- TRUE,
  ArchiveOn <- FALSE, RouteSweeps <- FALSE,
  MaxSeq <- 0, MaxAttempt <- LastAttempt,
  status <- Seen.status, robotOf <- Seen.robotOf, attempt <- Seen.attempt,
  ask <- found.ask, deps <- [j \in Jobs |-> {}], seq <- found.seq,
  key <- [j \in Jobs |-> "no key"], nextSeq <- 0, dedupIndex <- <<>>,
  known <- found.known, available <- Seen.available,
  held <- [r \in Robots |-> FALSE], load <- found.load,
  body <- found.body, heard <- found.heard,
  stopReq <- <<>>, replan <- <<>>

\* The loop is the one step that JobEngine states by its result: whatever mix
\* of writes is refused, each job is offered what the earlier ones really took.
PassIsOneStep ==
  [][Engine!DispatchOnce(refused, found.confirmed)]_(Engine!vars)
=============================================================================
