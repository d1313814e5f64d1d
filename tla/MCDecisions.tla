---------------------------- MODULE MCDecisions ----------------------------
(***************************************************************************)
(* Small instances, for TLC, of decisions taken under a lock on data that  *)
(* does not change meanwhile, or that is read again later: the choice of a *)
(* robot, the verdicts on waiting jobs, the estimates, the maintenance     *)
(* proposals and the confirmed tools.  They share no state here, so one of *)
(* them, the subject, is run from every start, and the others stay at one  *)
(* of theirs.                                                              *)
(***************************************************************************)
EXTENDS RobotScan, RefreshLoop, QueuePlanner, MaintenanceBoard, ToolConfirm,
        DispatchLoop, RobotIndex, HeartbeatClock, TLC

CONSTANT Subjects

VARIABLE subject

vars == <<subject, scanVars, loopVars, planVars, boardVars, confirmVars, passVars,
          indexVars, clockVars>>

ScanAtRest ==
  /\ ScanInit
  /\ place = NoLocation
  /\ load = [r \in Robots |-> 0] /\ location = [r \in Robots |-> NoLocation]

LoopAtRest ==
  /\ dp = [j \in Jobs |-> {}] /\ st = [j \in Jobs |-> "done"] /\ from = st
  /\ todo = {} /\ changed = FALSE /\ ended = TRUE

PassAtRest ==
  /\ found = [(CHOOSE s \in Situations : TRUE) EXCEPT !.status = [j \in Jobs |-> "done"]]
  /\ made = Found(found) /\ line = {} /\ given = Nobody /\ at = "ended"
  /\ picked = <<>> /\ refused = {}

Init ==
  /\ subject \in Subjects
  /\ IF subject = "dispatch" THEN PassInit ELSE PassAtRest
  /\ IF subject = "choice" THEN ScanInit ELSE ScanAtRest
  /\ IF subject = "verdicts" THEN LoopInit ELSE LoopAtRest
  /\ PlanInit /\ BoardInit /\ ConfirmInit /\ IndexInit /\ ClockInit
  /\ subject = "maintenance" \/ ~config.enabled
  /\ subject = "heartbeats" \/ error = 0
  /\ subject = "tools" \/ unconfirmed = "skip"

Next ==
  \/ subject = "choice" /\ ScanNext
       /\ UNCHANGED <<subject, loopVars, planVars, boardVars, confirmVars, passVars,
                      indexVars, clockVars>>
  \/ subject = "verdicts" /\ LoopNext
       /\ UNCHANGED <<subject, scanVars, planVars, boardVars, confirmVars, passVars,
                      indexVars, clockVars>>
  \/ subject = "estimates" /\ PlanNext
       /\ UNCHANGED <<subject, scanVars, loopVars, boardVars, confirmVars, passVars,
                      indexVars, clockVars>>
  \/ subject = "maintenance" /\ BoardNext
       /\ UNCHANGED <<subject, scanVars, loopVars, planVars, confirmVars, passVars,
                      indexVars, clockVars>>
  \/ subject = "tools" /\ ConfirmNext
       /\ UNCHANGED <<subject, scanVars, loopVars, planVars, boardVars, passVars,
                      indexVars, clockVars>>
  \/ subject = "dispatch" /\ PassNext
       /\ UNCHANGED <<subject, scanVars, loopVars, planVars, boardVars, confirmVars,
                      indexVars, clockVars>>
  \/ subject = "index" /\ IndexNext
       /\ UNCHANGED <<subject, scanVars, loopVars, planVars, boardVars, confirmVars,
                      passVars, clockVars>>
  \/ subject = "heartbeats" /\ ClockNext
       /\ UNCHANGED <<subject, scanVars, loopVars, planVars, boardVars, confirmVars,
                      passVars, indexVars>>

Spec == Init /\ [][Next]_vars /\ LoopFairness

-----------------------------------------------------------------------------
\* "near" is declared towards "dock" in one direction only, "dock" and "far" in
\* both with different costs, "near" and "far" not at all.
SomeCosts == << "dock", "near" >> :> 1 @@ << "dock", "far" >> :> 2 @@ << "far", "dock" >> :> 1

\* The most urgent job names a place, and the second one needs no tool.
SomeOrders ==
  "a" :> [rank |-> 1, tool |-> "drill", place |-> "dock"] @@
  "b" :> [rank |-> 2, tool |-> NoTool, place |-> NoLocation] @@
  "c" :> [rank |-> 3, tool |-> "drill", place |-> NoLocation]

\* Of the two with a tool, the one at hand comes later by load and by id.
SomeBodies ==
  1 :> [tool |-> "drill", load |-> 1, location |-> "near"] @@
  2 :> [tool |-> "drill", load |-> 1, location |-> "dock"] @@
  3 :> [tool |-> NoTool, load |-> 0, location |-> NoLocation]

SomeDependences == {d \in [Jobs -> SUBSET Jobs] : AcyclicIn(d)}

Lasting(drill, other) == "drill" :> drill @@ NoTool :> other

SomeLengths == {Lasting(1, 2), Lasting(0, Unknown)}

On(open, cooldown, expire) ==
  [enabled |-> TRUE, maxOpen |-> open, cooldown |-> cooldown, expireAfter |-> expire]

\* A fleet like SomeBodies, and jobs any of which may be urgent, need a tool, or
\* be done already; any robots may be taken, and one controller did not answer.
Parked(tool, spot) == [tool |-> tool, location |-> spot, stopCapable |-> FALSE]

SomeSituations ==
  {[status    |-> [j \in Jobs |-> IF j = over THEN "done" ELSE "pending"],
    robotOf   |-> [j \in Jobs |-> IF j = over THEN 1 ELSE NoRobot],
    attempt   |-> [j \in Jobs |-> 1],
    ask       |-> [j \in Jobs |-> [priority |-> IF j \in urgent THEN 2 ELSE 1,
                                  tool |-> IF j \in fitted THEN "drill" ELSE NoFitting,
                                  location |-> IF j = "b" THEN "dock" ELSE NoLocation]],
    seq       |-> "a" :> 3 @@ "b" :> 1 @@ "c" :> 2,
    known     |-> Robots,
    available |-> [r \in Robots |-> r \in idle],
    load      |-> [r \in Robots |-> IF r = 3 THEN 0 ELSE 1],
    body      |-> 1 :> Parked("drill", "near") @@ 2 :> Parked("drill", "dock")
                    @@ 3 :> Parked(NoFitting, NoLocation),
    heard     |-> [r \in Robots |-> TRUE],
    confirmed |-> confirmed] :
   over \in {"a", "none"}, urgent \in SUBSET Jobs, fitted \in SUBSET Jobs,
   idle \in {{1, 2}, {2, 3}, Robots}, confirmed \in {{1}, {1, 2}}}

\* The clock is right, or far behind or ahead.
SomeErrors == {-6, 0, 3}

\* Limits of one and of none, and switched off.
SomeConfigs == {On(1, 2, 1), On(0, 1, 2), [On(2, 0, 0) EXCEPT !.enabled = FALSE]}
=============================================================================
