----------------------------- MODULE RobotBridge -----------------------------
(***************************************************************************)
(* The queue together with the robots that do its work, as seen over HTTP. *)
(*                                                                         *)
(* A robot takes up the job it was given, ends it and reports the end until *)
(* a call of it is answered.  Its bridge reads a stop request, stops the    *)
(* robot and then confirms the stop.  Calls are in flight for any time, are *)
(* repeated when an answer is lost, and overtake one another.  Silence says *)
(* nothing of a robot: it may go on with its job meanwhile.                 *)
(*                                                                         *)
(* Heartbeats are the reports of JobEngine: any of them at any time, as     *)
(* late or repeated ones arrive.  Left out are the operators' statements    *)
(* that a robot is dead (RequeueJob, ReplanRobot), which nothing here could *)
(* confirm; the configurations are those that hand nothing on unconfirmed.  *)
(***************************************************************************)
EXTENDS JobEngine

CONSTANT LateStops  \* a confirmation may arrive after its job was given away again

VARIABLES
  course,  \* what has really become of attempt n of a job
  calls    \* reports and confirmations on their way

bridgeVars == <<course, calls>>
worldVars  == <<vars, bridgeVars>>

Attempts == 1 .. MaxAttempt

\* An attempt is not begun, on its way on a robot, or has ended there.
FateType == [is : {"idle", "running", "done", "failed", "stopped"},
             on : Robots \cup {NoRobot}]
Over(how) == [is |-> how, on |-> NoRobot]
Idle      == Over("idle")

\* The attempt is no part of a confirmation: it is here to tell late ones from
\* timely ones, and the dispatcher cannot see it.
StopWords   == [robot : Robots, job : Jobs, attempt : Attempts]
ReportWords == [robot : Robots, job : Jobs, attempt : Attempts, success : BOOLEAN]

WorldTypeOK ==
  /\ TypeOK
  /\ course \in [Jobs -> [Attempts -> FateType]]
  /\ calls \subseteq StopWords \cup ReportWords

WorldInit ==
  /\ Init
  /\ course = [j \in Jobs |-> [n \in Attempts |-> Idle]]
  /\ calls = {}

Now(j, r, n) == robotOf[j] = r /\ attempt[j] = n

Running(j, n, r) == course[j][n] = [is |-> "running", on |-> r]

-----------------------------------------------------------------------------
\* What robots do.

\* The robot finds the job among those given to it, and is doing nothing else.
Begin(j) ==
  LET r == robotOf[j]
      n == attempt[j]
  IN  /\ status[j] = "assigned"
      /\ course[j][n] = Idle
      /\ \A i \in Jobs, m \in Attempts : ~Running(i, m, r)
      /\ course' = [course EXCEPT ![j][n] = [is |-> "running", on |-> r]]
      /\ UNCHANGED <<vars, calls>>

\* The robot ends an attempt, well or not, also one it is no longer asked for.
End(j, n, success) ==
  /\ course[j][n].is = "running"
  /\ course' = [course EXCEPT ![j][n] = Over(IF success THEN "done" ELSE "failed")]
  /\ calls' = calls \cup
       {[robot |-> course[j][n].on, job |-> j, attempt |-> n, success |-> success]}
  /\ UNCHANGED vars

\* The bridge reads GET /jobs/stop-requests, stops the robot that the request
\* names, whichever attempt of the job it is at, and only then confirms.  A
\* robot that had not begun the attempt will not begin it.
StopRobot(j) ==
  LET r == robotOf[j]
  IN  /\ Listed(j)
      /\ course' = [course EXCEPT ![j] =
           [n \in Attempts |->
              IF Running(j, n, r) \/ (n = attempt[j] /\ @[n] = Idle)
              THEN Over("stopped") ELSE @[n]]]
      /\ calls' = calls \cup {[robot |-> r, job |-> j, attempt |-> attempt[j]]}
      /\ UNCHANGED vars

\* A confirmation gets lost.
LoseStop(m) ==
  /\ m \in calls \cap StopWords
  /\ calls' = calls \ {m}
  /\ UNCHANGED <<vars, course>>

-----------------------------------------------------------------------------
\* The dispatcher's handlers.

\* A call that was answered is over; one whose answer got lost is repeated.
Answered(m, lost) == calls' = IF lost THEN calls ELSE calls \ {m}

\* Mutant: the attempt that the report names is not passed on.
CompleteUnnumbered(m) == CompleteJobAttempt(m.job, m.robot, 0, m.success)

\* Mutant: only a job that is still assigned can be completed.
CompleteAssigned(m) ==
  status[m.job] = "assigned" /\ CompleteJobAttempt(m.job, m.robot, m.attempt, m.success)

Complete(m) == CompleteJobAttempt(m.job, m.robot, m.attempt, m.success)

\* POST /jobs/complete: an error answers 404 or 409 and changes nothing.
HandleReport(m, lost) ==
  /\ m \in calls \cap ReportWords
  /\ Complete(m) \/ (~ENABLED Complete(m) /\ UNCHANGED vars)
  /\ Answered(m, lost)
  /\ UNCHANGED course

\* Whether a confirmation may still arrive.
InTime(m) == LateStops \/ Now(m.job, m.robot, m.attempt)

\* POST /jobs/stop-ack.
HandleStopAck(m, lost) ==
  /\ m \in calls \cap StopWords /\ InTime(m)
  /\ AckStop(m.robot, m.job) \/ (~ENABLED AckStop(m.robot, m.job) /\ UNCHANGED vars)
  /\ Answered(m, lost)
  /\ UNCHANGED course

\* The other handlers, each with its one call of the queue.  A call that is
\* refused answers 4xx and changes nothing.
HandleSubmit    == \E q \in Requests : SubmitJob(q)
HandleRobot     == \E p \in Reports : UpdateRobot(p)
HandleRobotByID == \E r \in Robots : RemoveRobot(r)
HandleCancel    == \E j \in Jobs : CancelJob(j)
HandleDispatch  == \E refused \in Refusals, confirmed \in Confirmations :
                     DispatchOnce(refused, confirmed)

\* POST /jobs/detect-stale and the ticker of main.go.
Sweep == \E S \in Sweeps : DetectStale(S)

TimePasses == (\E r \in Robots : FallSilent(r)) \/ (\E j \in Jobs : StopDeadline(j))

EngineStep ==
  /\ \/ HandleSubmit \/ HandleRobot \/ HandleRobotByID \/ HandleCancel
     \/ HandleDispatch \/ Sweep \/ TimePasses
  /\ UNCHANGED bridgeVars

WorldNext ==
  \/ EngineStep
  \/ \E j \in Jobs : Begin(j) \/ StopRobot(j)
  \/ \E j \in Jobs, n \in Attempts, success \in BOOLEAN : End(j, n, success)
  \/ \E m \in calls : LoseStop(m)
  \/ \E m \in calls, lost \in BOOLEAN : HandleReport(m, lost) \/ HandleStopAck(m, lost)

WorldSafety == WorldInit /\ [][WorldNext]_worldVars

\* A robot repeats its report until a call is answered, and one is at last.
WorldSpec ==
  /\ WorldSafety
  /\ \A m \in ReportWords : WF_worldVars(HandleReport(m, FALSE))

-----------------------------------------------------------------------------
\* No job is being done twice at a time: a robot that falls silent with a job
\* keeps it until it reports the end, or until it has really stopped.  This is
\* what stop requests, attempts in reports and "unknown" are there for.
NeverTwiceAtATime ==
  \A j \in Jobs, m, n \in Attempts :
    (course[j][m].is = "running" /\ course[j][n].is = "running") => m = n

\* A job counts as done, or as failed, only when the attempt it is at really
\* ended so: no late report of an earlier attempt decides over a later one.
OutcomeIsReal ==
  \A j \in Jobs : status[j] \in {"done", "failed"} => course[j][attempt[j]].is = status[j]

\* A robot that ended a job is not ignored for ever: the job leaves it, also
\* when it was unknown meanwhile, asked to stop, or the robot's answer lost.
ResultsArrive ==
  \A j \in Jobs, n \in Attempts :
    course[j][n].is \in {"done", "failed"} ~> ~(status[j] \in InFlight /\ attempt[j] = n)

\* A confirmed stop counts: when the confirmation for the assignment a job has
\* arrives, while the job is in flight, the job goes back to the queue.
ConfirmedStopCounts ==
  [][\A m \in calls \cap StopWords :
       (/\ HandleStopAck(m, FALSE)
        /\ status[m.job] \in InFlight /\ Now(m.job, m.robot, m.attempt))
         => status'[m.job] \notin InFlight]_worldVars
=============================================================================
