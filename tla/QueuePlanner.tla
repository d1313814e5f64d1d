---------------------------- MODULE QueuePlanner ----------------------------
(***************************************************************************)
(* The estimates of GET /dispatch/eta (eta.go): planLocked lays the jobs   *)
(* that have not ended out in time, one visit of a waiting job per step,   *)
(* with e.mu held over a queue that does not change meanwhile.  Durations  *)
(* come from a table by tool, which stands for the averages and the        *)
(* percentiles of durationModelLocked; the two plans of the ranges are     *)
(* this loop with other tables.                                            *)
(***************************************************************************)
EXTENDS JobStatus, RobotChoice, Integers

CONSTANTS
  Orders,      \* per job [rank, tool, place]; rank 1 is dispatched first
  Bodies,      \* per robot [tool, load, location]
  Dependences, \* bound: the dependency tables looked at, acyclic
  Lengths,     \* bound: the duration tables looked at, in milliseconds per tool
  Starts,      \* bound: when an assigned job was given away
  Now          \* the clock of the engine

NoTool  == "no tool"
Unknown == -1   \* no duration is known; also: no time

ASSUME PlannerAssumption ==
  /\ IsFiniteSet(Robots) /\ Robots \subseteq Nat \ {0}
  /\ \A j, k \in Jobs : Orders[j].rank = Orders[k].rank => j = k
  /\ \A j \in Jobs : Orders[j].rank \in Nat
  /\ \A r \in Robots : Bodies[r].load \in Nat /\ Bodies[r].location \in Place
  /\ Dependences \subseteq {d \in [Jobs -> SUBSET Jobs] : AcyclicIn(d)}
  /\ \A l \in Lengths, j \in Jobs : l[Orders[j].tool] \in Nat \cup {Unknown}
  /\ Now \in Nat /\ Starts \subseteq 0 .. Now

VARIABLES
  phase,   \* "idle", "planning", "planned"
  snap,    \* what the call sees: [st, dp, holder, start, idle, length]
  plan,    \* results: per job [verdict, robot, start, end]
  free,    \* when each robot can take its next job, Unknown: not a key of the map
  unplaced, \* waiting jobs this pass has not visited
  progress \* the loop variable of the code

planVars == <<phase, snap, plan, free, unplaced, progress>>

-----------------------------------------------------------------------------

ToPlace(s) == {j \in Jobs : s.st[j] \in {"pending", "blocked"}}
AssignedIn(s) == {j \in Jobs : s.st[j] = "assigned"}

Fits(j, r) == Orders[j].tool = NoTool \/ Bodies[r].tool = Orders[j].tool

LengthOf(s, j) == s.length[Orders[j].tool]

Without(v) == [verdict |-> v, robot |-> NoRobot, start |-> Unknown, end |-> Unknown]
Estimate(r, from, to) == [verdict |-> "estimated", robot |-> r, start |-> from, end |-> to]
Later(a, b) == IF a > b THEN a ELSE b

\* The jobs that a robot has, those nobody knows about, and the waiting ones, to be placed.
Laid(s) ==
  [j \in Jobs |->
     IF s.st[j] = "unknown" THEN Without("outcome_unknown")
     ELSE IF s.st[j] # "assigned" THEN Without("open")
     ELSE IF LengthOf(s, j) = Unknown THEN Without("no_duration_known")
     ELSE Estimate(s.holder[j], s.start[j], Later(s.start[j] + LengthOf(s, j), Now))]

\* A robot with a job is free when that job ends, any other now if it is idle.
FreeAt(s) ==
  [r \in Robots |->
     IF \E j \in AssignedIn(s) : s.holder[j] = r
     THEN LET j == CHOOSE k \in AssignedIn(s) : s.holder[k] = r
          IN  Later(Laid(s)[j].end, Now)
     ELSE IF r \in s.idle THEN Now ELSE Unknown]

PlanInit ==
  /\ phase = "idle" /\ snap = <<>>
  /\ plan = [j \in Jobs |-> Without("open")]
  /\ free = [r \in Robots |-> Unknown]
  /\ unplaced = {} /\ progress = FALSE

\* A queue the engine can be in: settled, assigned jobs have done dependencies and one
\* robot each, which is not idle.
Begin ==
  /\ phase = "idle"
  /\ \E dp \in Dependences, st \in [Jobs -> Status \ {Absent, "cancelled"}], length \in Lengths :
       LET A == {j \in Jobs : st[j] = "assigned"}
       IN  /\ Settled(WaitingIn(st), st, dp)
           /\ \A j \in Jobs : st[j] \in InFlight => \A d \in dp[j] : st[d] = "done"
           /\ \E holder \in [A -> Robots], start \in [A -> Starts],
                 idle \in SUBSET Robots :
                /\ \A j, k \in A : holder[j] = holder[k] => j = k
                /\ \A j \in A : Fits(j, holder[j]) /\ holder[j] \notin idle
                /\ snap' = [st |-> st, dp |-> dp, holder |-> holder, start |-> start,
                            idle |-> idle, length |-> length]
  /\ phase' = "planning"
  /\ plan' = Laid(snap') /\ free' = FreeAt(snap')
  /\ unplaced' = ToPlace(snap') /\ progress' = FALSE

-----------------------------------------------------------------------------
(* depReady *)

Counting(j) == {d \in snap.dp[j] : snap.st[d] # "done"}

Dead(j) ==
  \E d \in Counting(j) :
    \/ snap.st[d] \in {"failed", "unreachable", "cancelled", "unknown"}
    \/ plan[d].verdict \notin {"open", "estimated"}

Known(j) == \A d \in Counting(j) : plan[d].verdict # "open"

\* Mutant: a job need not wait for what it depends on.
ReadyAtOnce(j) == 0

Ready(j) ==
  IF Counting(j) = {} THEN 0
  ELSE CHOOSE t \in {plan[d].end : d \in Counting(j)} : \A d \in Counting(j) : plan[d].end <= t

-----------------------------------------------------------------------------
(* The choice of the robot. *)

StartOn(j, r) == Later(free[r], Ready(j))

BodyOf(r) == [id |-> r, load |-> Bodies[r].load, location |-> Bodies[r].location]

\* preferLocked.
Prefers(j, r, s) ==
  IF ByCost(Orders[j].place) THEN Closer(Orders[j].place, BodyOf(r), BodyOf(s))
                             ELSE Lighter(BodyOf(r), BodyOf(s))

\* Mutant: robots free at the same time are not compared any further than by their ids.
SoonerOrFirst(j, r, s) ==
  StartOn(j, r) < StartOn(j, s) \/ (StartOn(j, r) = StartOn(j, s) /\ r < s)

Sooner(j, r, s) ==
  StartOn(j, r) < StartOn(j, s) \/ (StartOn(j, r) = StartOn(j, s) /\ Prefers(j, r, s))

Usable(j) == {r \in Robots : Fits(j, r) /\ free[r] # Unknown}

RobotFor(j) == CHOOSE r \in Usable(j) : \A s \in Usable(j) \ {r} : Sooner(j, r, s)

Placed(j) ==
  IF Dead(j) THEN Without("dependency_will_not_finish")
  ELSE IF LengthOf(snap, j) = Unknown THEN Without("no_duration_known")
  ELSE IF Usable(j) = {}
  THEN Without(IF \E r \in Robots : Fits(j, r) THEN "no_robot_available"
                                            ELSE "no_robot_with_required_tool")
  ELSE Estimate(RobotFor(j), StartOn(j, RobotFor(j)), StartOn(j, RobotFor(j)) + LengthOf(snap, j))

-----------------------------------------------------------------------------
(* The passes, in dispatch order. *)

ComesNext(j) == j \in unplaced /\ \A k \in unplaced : Orders[j].rank <= Orders[k].rank

PlaceJob(j) ==
  /\ phase = "planning" /\ ComesNext(j)
  /\ unplaced' = unplaced \ {j}
  /\ IF plan[j].verdict = "open" /\ (Dead(j) \/ Known(j))
     THEN /\ plan' = [plan EXCEPT ![j] = Placed(j)]
          /\ free' = IF Placed(j).verdict = "estimated"
                     THEN [free EXCEPT ![RobotFor(j)] = Placed(j).end] ELSE free
          /\ progress' = TRUE
     ELSE UNCHANGED <<plan, free, progress>>
  /\ UNCHANGED <<phase, snap>>

EndRound ==
  /\ phase = "planning" /\ unplaced = {}
  /\ IF progress THEN unplaced' = ToPlace(snap) /\ UNCHANGED phase
                 ELSE phase' = "planned" /\ UNCHANGED unplaced
  /\ progress' = FALSE
  /\ UNCHANGED <<snap, plan, free>>

PlanNext == Begin \/ EndRound \/ \E j \in Jobs : PlaceJob(j)

PlanSpec == PlanInit /\ [][PlanNext]_planVars

-----------------------------------------------------------------------------

Estimated == {j \in Jobs : plan[j].verdict = "estimated"}

(***************************************************************************)
(* When the plan is laid, every waiting job has an estimate or a reason,   *)
(* and the estimates could come true together: nobody starts in the past   *)
(* or before what it depends on has ended, and no robot has two jobs at    *)
(* one time, those it has now included (planLocked, in passes over jobs    *)
(* that may come before what they depend on).                              *)
(***************************************************************************)
PlanFits ==
  phase = "planned" =>
    /\ \A j \in ToPlace(snap) : plan[j].verdict # "open"
    /\ \A j \in Estimated \cap ToPlace(snap) :
         /\ plan[j].start >= Now
         /\ \A d \in Counting(j) : d \in Estimated /\ plan[d].end <= plan[j].start
    /\ \A j, k \in Estimated :
         j # k /\ plan[j].robot = plan[k].robot =>
           plan[j].end <= plan[k].start \/ plan[k].end <= plan[j].start

\* The pass DispatchOnce would make over this queue, as JobEngine states it.
IsDispatch(given) ==
  \A j \in DOMAIN given :
    LET left == {r \in snap.idle : Fits(j, r)} \
                {given[k] : k \in {i \in DOMAIN given : Orders[i].rank < Orders[j].rank}}
    IN  IF left = {} THEN given[j] = NoRobot
        ELSE given[j] \in left /\ IsBest(Orders[j].place, {BodyOf(r) : r \in left}, BodyOf(given[j]))

\* Nothing is expected to end at this very moment.
NothingEndsNow ==
  /\ \A j \in Jobs : LengthOf(snap, j) > 0
  /\ \A j \in AssignedIn(snap) : plan[j].end > Now

(***************************************************************************)
(* What the estimate says begins now is what the next pass of DispatchOnce *)
(* does, robot by robot, for the jobs that no blocked job precedes (with   *)
(* the cost table, where both compare robots in the same way): planLocked  *)
(* against DispatchOnce.                                                   *)
(***************************************************************************)
AgreesWithDispatch ==
  phase = "planned" /\ NothingEndsNow /\ LocationCosts =>
    LET ahead == {j \in Jobs : snap.st[j] = "pending" /\
                     \A k \in Jobs : snap.st[k] = "blocked" => Orders[j].rank < Orders[k].rank}
    IN  IsDispatch([j \in ahead |->
          IF j \in Estimated /\ plan[j].start = Now THEN plan[j].robot ELSE NoRobot])

=============================================================================
