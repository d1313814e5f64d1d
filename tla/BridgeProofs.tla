----------------------------- MODULE BridgeProofs -----------------------------
(***************************************************************************)
(* Theorems about RobotBridge, where calls of robots are late, repeated    *)
(* and out of order: what a job counts as is what became of it, and, under *)
(* the conditions of ConfirmsFirst, no job is done twice at a time.        *)
(***************************************************************************)
EXTENDS RobotBridge, LifecycleProofs

-----------------------------------------------------------------------------
\* The engine among its robots is the engine.

\* What the two handlers for calls of robots do, whatever was answered before.
LEMMA CallsHandled ==
  ASSUME NEW m, NEW lost, HandleReport(m, lost) \/ HandleStopAck(m, lost)
  PROVE  /\ \/ m \in calls \cap ReportWords /\ (Complete(m) \/ UNCHANGED vars)
            \/ /\ m \in calls \cap StopWords /\ InTime(m)
               /\ AckStop(m.robot, m.job) \/ UNCHANGED vars
         /\ UNCHANGED course /\ calls' \subseteq calls
<1>1. CASE HandleReport(m, lost)
  BY <1>1 DEF HandleReport, Answered
<1>2. CASE HandleStopAck(m, lost)
  BY <1>2 DEF HandleStopAck, Answered
<1>3. QED
  BY <1>1, <1>2

\* Robots and their bridges leave the queue alone, and a call is an operation of
\* the engine or nothing.
LEMMA WorldSteps ==
  ASSUME [WorldNext]_worldVars
  PROVE  [Next]_vars
<1>1. CASE EngineStep
  BY <1>1 DEF EngineStep, HandleSubmit, HandleRobot, HandleRobotByID, HandleCancel,
              HandleDispatch, Sweep, TimePasses, Next
<1>2. CASE \/ \E j \in Jobs : Begin(j) \/ StopRobot(j)
           \/ \E j \in Jobs, n \in Attempts, success \in BOOLEAN : End(j, n, success)
           \/ \E m \in calls : LoseStop(m)
           \/ UNCHANGED worldVars
  BY <1>2 DEF Begin, StopRobot, End, LoseStop, worldVars
<1>3. ASSUME NEW m \in calls, NEW lost \in BOOLEAN, HandleReport(m, lost) \/ HandleStopAck(m, lost)
      PROVE  [Next]_vars
  <2>1. CASE m \in ReportWords /\ Complete(m)
    <3>1. m.job \in Jobs /\ m.robot \in Robots /\ m.attempt \in 0 .. MaxAttempt
          /\ m.success \in BOOLEAN
      BY <2>1, BoundsTyped DEF ReportWords, Attempts
    <3>2. QED
      BY <2>1, <3>1 DEF Complete, Next
  <2>2. CASE m \in StopWords /\ AckStop(m.robot, m.job)
    BY <2>2 DEF StopWords, Next
  <2>3. QED
    BY <1>3, <2>1, <2>2, CallsHandled
<1>4. QED
  BY <1>1, <1>2, <1>3 DEF WorldNext

\* Whatever is proved of the engine by itself holds among its robots.
THEOREM WorldRunsTheEngine == WorldSafety => Spec
<1>1. WorldInit => Init
  BY DEF WorldInit
<1>2. [WorldNext]_worldVars => [Next]_vars
  BY WorldSteps
<1>3. QED
  BY <1>1, <1>2, PTL DEF WorldSafety, Spec

-----------------------------------------------------------------------------
\* What has become of an attempt stays.

CourseTyped == course \in [Jobs -> [Attempts -> FateType]]

IsOver(how) == how \notin {"idle", "running"}

\* A report says what happened; a confirmation is sent when the robot stopped.
ReportsReal ==
  \A m \in calls \cap ReportWords :
    course[m.job][m.attempt].is = IF m.success THEN "done" ELSE "failed"
StopsReal == \A m \in calls \cap StopWords : IsOver(course[m.job][m.attempt].is)

\* An attempt only gets on: it begins when the robot has its job, and stays as
\* it ended.
GetsOn(j, n) ==
  \/ course'[j][n] = course[j][n]
  \/ /\ ~IsOver(course[j][n].is)
     /\ \/ IsOver(course'[j][n].is)
        \/ /\ Running(j, n, robotOf[j])'
           /\ status[j] = "assigned" /\ attempt[j] = n /\ UNCHANGED vars

LEMMA CourseNext ==
  ASSUME TypeOK, CourseTyped, [WorldNext]_worldVars
  PROVE  CourseTyped' /\ \A j \in Jobs, n \in Attempts : GetsOn(j, n)
<1>1. CASE UNCHANGED course
  BY <1>1 DEF CourseTyped, GetsOn
<1>2. ASSUME NEW j \in Jobs, Begin(j)
      PROVE  CourseTyped' /\ \A i \in Jobs, n \in Attempts : GetsOn(i, n)
  <2>1. /\ course' = [course EXCEPT ![j][attempt[j]] = [is |-> "running", on |-> robotOf[j]]]
        /\ course[j][attempt[j]] = Idle /\ status[j] = "assigned" /\ UNCHANGED vars
    BY <1>2 DEF Begin
  <2>2. [is |-> "running", on |-> robotOf[j]] \in FateType /\ Idle.is = "idle"
    BY DEF FateType, TypeOK, Idle, Over
  <2>3. CourseTyped'
    BY <2>1, <2>2 DEF CourseTyped
  <2>4. ASSUME NEW i \in Jobs, NEW n \in Attempts
        PROVE  GetsOn(i, n)
    <3>1. CASE i = j /\ n = attempt[j]
      <4>1. course'[i][n] = [is |-> "running", on |-> robotOf[j]]
        BY <2>1, <3>1 DEF CourseTyped
      <4>2. robotOf' = robotOf
        BY <2>1 DEF vars, jobVars
      <4>3. QED
        BY <2>1, <2>2, <3>1, <4>1, <4>2 DEF GetsOn, IsOver, Running
    <3>2. CASE ~(i = j /\ n = attempt[j])
      BY <2>1, <3>2 DEF CourseTyped, GetsOn
    <3>3. QED
      BY <3>1, <3>2
  <2>5. QED
    BY <2>3, <2>4
<1>3. ASSUME NEW j \in Jobs, NEW k \in Attempts, NEW success \in BOOLEAN, End(j, k, success)
      PROVE  CourseTyped' /\ \A i \in Jobs, n \in Attempts : GetsOn(i, n)
  <2> DEFINE how == Over(IF success THEN "done" ELSE "failed")
  <2>1. how \in FateType /\ IsOver(how.is)
    BY DEF FateType, Over, IsOver
  <2>2. course' = [course EXCEPT ![j][k] = how] /\ course[j][k].is = "running"
    BY <1>3 DEF End
  <2> HIDE DEF how
  <2>3. \A i \in Jobs, n \in Attempts :
          course'[i][n] = IF i = j /\ n = k THEN how ELSE course[i][n]
    BY <2>2 DEF CourseTyped
  <2>4. QED
    BY <2>1, <2>2, <2>3 DEF CourseTyped, GetsOn, IsOver
<1>4. ASSUME NEW j \in Jobs, StopRobot(j)
      PROVE  CourseTyped' /\ \A i \in Jobs, n \in Attempts : GetsOn(i, n)
  <2>1. Over("stopped") \in FateType /\ Over("stopped").is = "stopped" /\ Idle.is = "idle"
    BY DEF FateType, Over, Idle
  <2>2. course' = [course EXCEPT ![j] =
          [n \in Attempts |->
             IF Running(j, n, robotOf[j]) \/ (n = attempt[j] /\ course[j][n] = Idle)
             THEN Over("stopped") ELSE course[j][n]]]
    BY <1>4 DEF StopRobot, CourseTyped
  <2>3. \A i \in Jobs, n \in Attempts :
          course'[i][n] = IF i = j /\ (Running(j, n, robotOf[j]) \/ (n = attempt[j] /\ course[j][n] = Idle))
                          THEN Over("stopped") ELSE course[i][n]
    BY <2>2 DEF CourseTyped
  <2>4. \A n : Running(j, n, robotOf[j]) => course[j][n].is = "running"
    BY DEF Running
  <2>5. CourseTyped'
    BY <2>1, <2>2 DEF CourseTyped
  <2>6. \A i \in Jobs, n \in Attempts : GetsOn(i, n)
    BY <2>1, <2>3, <2>4 DEF GetsOn, IsOver
  <2>7. QED
    BY <2>5, <2>6
<1>5. ASSUME NEW m \in calls, NEW lost, HandleReport(m, lost) \/ HandleStopAck(m, lost)
      PROVE  UNCHANGED course
  BY <1>5, CallsHandled
<1>6. QED
  BY <1>1, <1>2, <1>3, <1>4, <1>5 DEF WorldNext, EngineStep, LoseStop, worldVars, bridgeVars

\* A confirmation is no report.
LEMMA StopWordDiffers ==
  ASSUME NEW r, NEW j, NEW n
  PROVE  [robot |-> r, job |-> j, attempt |-> n] \notin ReportWords
BY DEF ReportWords

LEMMA ReportsNext ==
  ASSUME TypeOK, CourseTyped, ReportsReal, [WorldNext]_worldVars
  PROVE  ReportsReal'
<1>1. \A j \in Jobs, n \in Attempts : IsOver(course[j][n].is) => course'[j][n] = course[j][n]
  BY CourseNext DEF GetsOn
<1>2. ASSUME NEW m \in calls \cap ReportWords
      PROVE  course'[m.job][m.attempt].is = IF m.success THEN "done" ELSE "failed"
  <2>1. m.job \in Jobs /\ m.attempt \in Attempts
    BY DEF ReportWords
  <2>2. course[m.job][m.attempt].is = IF m.success THEN "done" ELSE "failed"
    BY DEF ReportsReal
  <2>3. QED
    BY <1>1, <2>1, <2>2 DEF IsOver
<1>3. CASE calls' \cap ReportWords \subseteq calls
  BY <1>2, <1>3 DEF ReportsReal
<1>4. ASSUME NEW j \in Jobs, NEW k \in Attempts, NEW success \in BOOLEAN, End(j, k, success)
      PROVE  ReportsReal'
  <2> DEFINE word == [robot |-> course[j][k].on, job |-> j, attempt |-> k, success |-> success]
  <2>1. calls' = calls \cup {word}
    BY <1>4 DEF End
  <2>2. course'[j][k].is = IF success THEN "done" ELSE "failed"
    BY <1>4 DEF End, CourseTyped, Over
  <2>3. word.job = j /\ word.attempt = k /\ word.success = success
    OBVIOUS
  <2> HIDE DEF word
  <2>4. QED
    BY <1>2, <2>1, <2>2, <2>3 DEF ReportsReal
<1>5. ASSUME NEW j \in Jobs, StopRobot(j)
      PROVE  calls' \cap ReportWords \subseteq calls
  BY <1>5, StopWordDiffers DEF StopRobot
<1>6. ASSUME NEW m \in calls, NEW lost, HandleReport(m, lost) \/ HandleStopAck(m, lost)
      PROVE  calls' \subseteq calls
  BY <1>6, CallsHandled
<1>7. QED
  BY <1>3, <1>4, <1>5, <1>6
     DEF WorldNext, EngineStep, Begin, LoseStop, worldVars, bridgeVars

\* Nothing but a report ends a job as done or failed.
LEMMA OnlyReportsEnd ==
  ASSUME TypeOK,
         \/ EngineStep
         \/ \E r \in Robots, j \in Jobs : AckStop(r, j)
         \/ UNCHANGED vars
  PROVE  \A j \in Jobs : status'[j] \in {"done", "failed"} =>
           status'[j] = status[j] /\ attempt'[j] = attempt[j]
<1>1. \A j \in Jobs : ComputeStatus(status, deps[j]) \in Waiting
  BY VerdictWaits
<1>2. ASSUME NEW q \in Requests, SubmitJob(q)
      PROVE  \A j \in Jobs : status'[j] \in {"done", "failed"} => status'[j] = status[j]
  <2>1. CASE AddJob(q)
    <3>1. ComputeStatus(status, q.deps) \in Waiting
      BY VerdictWaits
    <3>2. QED
      BY <2>1, <3>1 DEF AddJob, TypeOK, Waiting
  <2>2. ASSUME NEW j \in SameWork(q), RetryJob(q, j)
        PROVE  \A i \in Jobs : status'[i] \in {"done", "failed"} => status'[i] = status[i]
    <3>1. j \in Jobs
      BY RequestsTyped DEF SameWork, TypeOK, RequestType
    <3>2. /\ status' \in Refreshed([status EXCEPT ![j] = ComputeStatus(status, q.deps)], deps')
          /\ ComputeStatus(status, q.deps) \in Waiting /\ ComputeStatus(status, q.deps) \in Status
      BY <2>2, VerdictWaits DEF RetryJob, Status
    <3>3. /\ status'[j] \in Waiting
          /\ \A i \in Jobs : i # j => (status[i] \in Waiting <=> status'[i] \in Waiting)
          /\ \A i \in Jobs : i # j /\ status[i] \notin Waiting => status'[i] = status[i]
      BY <3>1, <3>2, RefreshedStep
    <3>4. QED
      BY <3>3 DEF Waiting
  <2>3. QED
    BY <1>2, <2>1, <2>2 DEF SubmitJob
<1>3. ASSUME NEW j \in Jobs, CancelJob(j)
      PROVE  \A i \in Jobs : status'[i] \in {"done", "failed"} => status'[i] = status[i]
  <2>1. status' \in Refreshed([status EXCEPT ![j] = "cancelled"], deps)
        /\ "cancelled" \in Status /\ "cancelled" \notin Waiting
    BY <1>3 DEF CancelJob, Status, Finished, Waiting
  <2>2. /\ status'[j] = "cancelled"
        /\ \A i \in Jobs : i # j => (status[i] \in Waiting <=> status'[i] \in Waiting)
        /\ \A i \in Jobs : i # j /\ status[i] \notin Waiting => status'[i] = status[i]
    BY <2>1, RefreshedStep
  <2>3. QED
    BY <2>2 DEF Waiting
<1>4. ASSUME NEW J, NEW extra, RequeueAll(J, extra)
      PROVE  \A i \in Jobs : status'[i] \in {"done", "failed"} => status'[i] = status[i]
  BY <1>1, <1>4 DEF RequeueAll, Waiting
<1>5. ASSUME NEW S, DetectStale(S)
      PROVE  \A i \in Jobs : status'[i] \in {"done", "failed"} => status'[i] = status[i]
  BY <1>1, <1>5 DEF DetectStale, Waiting
<1>6. ASSUME NEW refused, NEW confirmed, DispatchOnce(refused, confirmed)
      PROVE  \A i \in Jobs : status'[i] \in {"done", "failed"} => status'[i] = status[i]
  BY <1>6 DEF DispatchOnce, Assign
<1>7. ASSUME NEW p \in Reports, UpdateRobot(p)
      PROVE  \A i \in Jobs : status'[i] \in {"done", "failed"} => status'[i] = status[i]
  BY <1>4, <1>7 DEF UpdateRobot, Register, Heartbeat, jobVars
<1>8. \A j \in Jobs : status'[j] \in {"done", "failed"} => status'[j] = status[j]
  <2>1. CASE \/ \E r \in Robots : RemoveRobot(r)
             \/ TimePasses
             \/ UNCHANGED vars
    BY <2>1 DEF RemoveRobot, TimePasses, FallSilent, StopDeadline, vars, jobVars
  <2>2. CASE \E r \in Robots, j \in Jobs : AckStop(r, j)
    BY <1>4, <2>2 DEF AckStop
  <2>3. QED
    BY <1>2, <1>3, <1>5, <1>6, <1>7, <2>1, <2>2
       DEF EngineStep, HandleSubmit, HandleRobot, HandleRobotByID, HandleCancel, HandleDispatch, Sweep
<1>9. [Next]_vars
  BY DEF EngineStep, HandleSubmit, HandleRobot, HandleRobotByID, HandleCancel,
         HandleDispatch, Sweep, TimePasses, Next
<1>10. \A j \in Jobs : Lives(j)
  BY <1>9, EveryStepLives
<1>11. QED
  BY <1>8, <1>10 DEF Lives, Enters, Starts, Ends, Withdraws, Retries, Goes, Stays, SameWorkload,
                     Waiting, InFlight, Absent

\* A report ends the one job it names, at the attempt it names.
LEMMA ReportEnds ==
  ASSUME TypeOK, NEW m \in ReportWords, Complete(m)
  PROVE  /\ attempt' = attempt /\ robotOf' = robotOf
         /\ status[m.job] \in InFlight /\ attempt[m.job] = m.attempt
         /\ status'[m.job] = IF m.success THEN "done" ELSE "failed"
         /\ \A i \in Jobs : i # m.job =>
              \/ status'[i] = status[i]
              \/ status[i] \in Waiting /\ status'[i] \in Waiting
<1> DEFINE new == IF m.success THEN "done" ELSE "failed"
<1>1. m.job \in Jobs /\ m.attempt \in Attempts /\ 0 \notin Attempts
  BY DEF ReportWords, Attempts
<1>2. /\ status' \in Refreshed([status EXCEPT ![m.job] = new], deps)
      /\ attempt' = attempt /\ robotOf' = robotOf
      /\ status[m.job] \in InFlight /\ attempt[m.job] = m.attempt
  BY <1>1 DEF Complete, CompleteJobAttempt
<1>3. new \in Status /\ new \notin Waiting
  BY DEF Status, Finished, Waiting
<1> HIDE DEF new
<1>4. /\ status'[m.job] = new
      /\ \A i \in Jobs : i # m.job => (status[i] \in Waiting <=> status'[i] \in Waiting)
      /\ \A i \in Jobs : i # m.job /\ status[i] \notin Waiting => status'[i] = status[i]
  BY <1>1, <1>2, <1>3, RefreshedStep
<1>5. QED
  BY <1>2, <1>4 DEF new

\* Whoever ended was given to a robot.
EndedWasGiven == \A j \in Jobs : status[j] \in {"done", "failed"} => attempt[j] \in Attempts

OutcomeInv == TypeOK /\ CourseTyped /\ ReportsReal /\ EndedWasGiven /\ OutcomeIsReal

LEMMA OutcomeInit == WorldInit => OutcomeInv
<1> SUFFICES ASSUME WorldInit
             PROVE  OutcomeInv
  OBVIOUS
<1>1. TypeOK
  BY TypedInit DEF WorldInit
<1>2. Idle \in FateType
  BY DEF Idle, Over, FateType
<1>3. CourseTyped
  BY <1>2 DEF WorldInit, CourseTyped
<1>4. ReportsReal /\ EndedWasGiven /\ OutcomeIsReal
  BY DEF WorldInit, Init, ReportsReal, EndedWasGiven, OutcomeIsReal, Absent
<1>5. QED
  BY <1>1, <1>3, <1>4 DEF OutcomeInv

LEMMA OutcomeNext == OutcomeInv /\ [WorldNext]_worldVars => OutcomeInv'
<1> SUFFICES ASSUME OutcomeInv, [WorldNext]_worldVars
             PROVE  OutcomeInv'
  OBVIOUS
<1>1. TypeOK' /\ CourseTyped' /\ ReportsReal'
  BY WorldSteps, TypedNext, CourseNext, ReportsNext DEF OutcomeInv
<1>2. \A j \in Jobs, n \in Attempts : IsOver(course[j][n].is) => course'[j][n] = course[j][n]
  BY CourseNext DEF GetsOn, OutcomeInv
<1>3. CASE \A j \in Jobs : status'[j] \in {"done", "failed"} =>
             status'[j] = status[j] /\ attempt'[j] = attempt[j]
  <2>1. ASSUME NEW j \in Jobs, status'[j] \in {"done", "failed"}
        PROVE  attempt'[j] \in Attempts /\ course'[j][attempt'[j]].is = status'[j]
    <3>1. /\ status'[j] = status[j] /\ attempt'[j] = attempt[j]
          /\ attempt[j] \in Attempts /\ course[j][attempt[j]].is = status[j]
      BY <1>3, <2>1 DEF OutcomeInv, EndedWasGiven, OutcomeIsReal
    <3>2. QED
      BY <1>2, <2>1, <3>1 DEF IsOver
  <2>2. QED
    BY <1>1, <2>1 DEF OutcomeInv, EndedWasGiven, OutcomeIsReal
<1>4. ASSUME NEW m \in calls \cap ReportWords, Complete(m)
      PROVE  EndedWasGiven' /\ OutcomeIsReal'
  <2>1. m.job \in Jobs /\ m.attempt \in Attempts
    BY DEF ReportWords
  <2>2. /\ attempt' = attempt /\ attempt[m.job] = m.attempt
        /\ status'[m.job] = IF m.success THEN "done" ELSE "failed"
        /\ \A i \in Jobs : i # m.job =>
             \/ status'[i] = status[i]
             \/ status[i] \in Waiting /\ status'[i] \in Waiting
    BY <1>4, ReportEnds DEF OutcomeInv
  <2>3. course'[m.job][m.attempt].is = status'[m.job]
    BY <1>2, <2>1, <2>2 DEF OutcomeInv, ReportsReal, IsOver
  <2>4. ASSUME NEW j \in Jobs, j # m.job, status'[j] \in {"done", "failed"}
        PROVE  attempt'[j] \in Attempts /\ course'[j][attempt'[j]].is = status'[j]
    <3>1. status'[j] = status[j] /\ attempt'[j] = attempt[j]
      BY <2>2, <2>4 DEF Waiting
    <3>2. attempt[j] \in Attempts /\ course[j][attempt[j]].is = status[j]
      BY <2>4, <3>1 DEF OutcomeInv, EndedWasGiven, OutcomeIsReal
    <3>3. QED
      BY <1>2, <2>4, <3>1, <3>2 DEF IsOver
  <2>5. QED
    BY <2>1, <2>2, <2>3, <2>4 DEF EndedWasGiven, OutcomeIsReal
<1>5. CASE \/ EngineStep
           \/ \E r \in Robots, j \in Jobs : AckStop(r, j)
           \/ UNCHANGED vars
  BY <1>1, <1>3, <1>5, OnlyReportsEnd DEF OutcomeInv
<1>6. ASSUME NEW m \in calls, NEW lost, HandleReport(m, lost) \/ HandleStopAck(m, lost)
      PROVE  OutcomeInv'
  <2>1. CASE m \in ReportWords /\ Complete(m)
    BY <1>1, <1>4, <2>1 DEF OutcomeInv
  <2>2. CASE m \in StopWords /\ AckStop(m.robot, m.job)
    BY <1>5, <2>2 DEF StopWords
  <2>3. QED
    BY <1>5, <1>6, <2>1, <2>2, CallsHandled
<1>7. QED
  BY <1>5, <1>6 DEF WorldNext, Begin, StopRobot, End, LoseStop, worldVars

\* A job counts as done or failed only when the attempt it is at really ended so,
\* however late reports arrive, and whatever was requeued or repeated meanwhile.
THEOREM OutcomesAreReal == WorldSafety => []OutcomeIsReal
<1>1. OutcomeInv => OutcomeIsReal
  BY DEF OutcomeInv
<1>2. QED
  BY <1>1, OutcomeInit, OutcomeNext, PTL DEF WorldSafety

-----------------------------------------------------------------------------
\* No job is done twice at a time.

\* What that rests on: no confirmation of an earlier assignment arrives late, and
\* no configuration takes a job from a robot that may still be doing it.  Such a
\* configuration leaves silent robots their jobs, or has them stop first and
\* waits for the confirmation, which every robot then has to be able to give.
ConfirmsFirst ==
  /\ ~LateStops
  /\ \A c \in ReplanConfigs : c.enabled =>
       /\ ~c.onFault /\ ~c.allowUnconfirmed
       /\ c.onStale => \A p \in Reports : p.stopCapable = TRUE

\* The robots that may be asked to stop can.
Able ==
  /\ replan \in ReplanConfigs
  /\ replan.enabled /\ replan.onStale => \A r \in known : body[r].stopCapable

\* Only the robot that has the job is doing it, at the attempt the job is at.
Carried ==
  \A j \in Jobs, n \in Attempts : course[j][n].is = "running" =>
    status[j] \in InFlight /\ attempt[j] = n /\ course[j][n].on = robotOf[j]

IdleNowhere == \A j \in Jobs, n \in Attempts : course[j][n].is = "idle" => course[j][n] = Idle

LEMMA AbleNext ==
  ASSUME ConfirmsFirst, TypeOK, Able, [WorldNext]_worldVars
  PROVE  Able'
<1>1. CASE UNCHANGED <<replan, known, body>>
  BY <1>1 DEF Able
<1>2. ASSUME NEW p \in Reports, UpdateRobot(p)
      PROVE  Able'
  <2>1. p.robot \in Robots /\ TRUE # Keep
    BY ReportsTyped, KeepFresh DEF ReportType
  <2>2. replan' = replan /\ known' = known \cup {p.robot}
    BY <1>2 DEF UpdateRobot, Register, Heartbeat
  <2>3. \E old : body' = [body EXCEPT ![p.robot] = Merge(p, old)]
    BY <1>2 DEF UpdateRobot, Register, Heartbeat
  <2>4. PICK old : body' = [body EXCEPT ![p.robot] = Merge(p, old)]
    BY <2>3
  <2>5. \A r \in Robots : body'[r] = IF r = p.robot THEN Merge(p, old) ELSE body[r]
    BY <2>1, <2>4 DEF TypeOK
  <2>6. p.stopCapable = TRUE => Merge(p, old).stopCapable
    BY <2>1 DEF Merge, Given
  <2>7. known \subseteq Robots
    BY DEF TypeOK
  <2>8. replan.enabled /\ replan.onStale => p.stopCapable = TRUE
    BY DEF ConfirmsFirst, Able
  <2>9. QED
    BY <2>1, <2>2, <2>5, <2>6, <2>7, <2>8 DEF Able
<1>3. ASSUME NEW r \in Robots, RemoveRobot(r)
      PROVE  Able'
  <2>1. replan' = replan /\ known' = known \ {r} /\ body' = [body EXCEPT ![r] = NoBody]
    BY <1>3 DEF RemoveRobot
  <2>2. \A s \in known' : s \in known /\ body'[s] = body[s]
    BY <2>1 DEF TypeOK
  <2>3. QED
    BY <2>1, <2>2 DEF Able
<1>4. ASSUME \/ \E q \in Requests : SubmitJob(q)
             \/ \E j \in Jobs : CancelJob(j)
             \/ \E refused, confirmed : DispatchOnce(refused, confirmed)
             \/ \E S : DetectStale(S)
             \/ TimePasses
      PROVE  UNCHANGED <<replan, known, body>>
  BY <1>4 DEF SubmitJob, AddJob, RetryJob, CancelJob, DispatchOnce, Assign, DetectStale,
              TimePasses, FallSilent, StopDeadline, robotVars
<1>5. CASE EngineStep
  BY <1>1, <1>2, <1>3, <1>4, <1>5
     DEF EngineStep, HandleSubmit, HandleRobot, HandleRobotByID, HandleCancel, HandleDispatch, Sweep
<1>6. CASE UNCHANGED vars
  BY <1>1, <1>6 DEF vars, robotVars
<1>7. ASSUME NEW m \in calls, NEW lost, HandleReport(m, lost) \/ HandleStopAck(m, lost)
      PROVE  UNCHANGED <<replan, known, body>>
  BY <1>7, CallsHandled DEF Complete, CompleteJobAttempt, AckStop, vars, robotVars
<1>8. QED
  BY <1>1, <1>5, <1>6, <1>7 DEF WorldNext, Begin, StopRobot, End, LoseStop, worldVars

\* Nothing but a call of its robot takes a job from a robot.
KeepsItsRobot(j) ==
  status[j] \in InFlight =>
    status'[j] \in InFlight /\ attempt'[j] = attempt[j] /\ robotOf'[j] = robotOf[j]

LEMMA EngineTakesNothing ==
  ASSUME ConfirmsFirst, TypeOK, Able, EngineStep, NEW j \in Jobs
  PROVE  KeepsItsRobot(j)
<1>1. /\ \A st \in InFlight : st \notin Waiting /\ ~MayRunAgain(st) /\ st # "pending" /\ st # Absent
      /\ "unknown" \in InFlight /\ "assigned" \in InFlight
  BY DEF InFlight, Waiting, Absent, MayRunAgain
<1>2. ASSUME NEW q \in Requests, SubmitJob(q)
      PROVE  KeepsItsRobot(j)
  <2>1. CASE AddJob(q)
    BY <1>1, <2>1 DEF AddJob, KeepsItsRobot, TypeOK
  <2>2. ASSUME NEW i \in SameWork(q), RetryJob(q, i)
        PROVE  KeepsItsRobot(j)
    <3>1. i \in Jobs /\ status[i] \notin InFlight
      BY <1>1, <2>2, RequestsTyped DEF SameWork, TypeOK, RequestType, RetryJob, MayRetry
    <3>2. /\ status' \in Refreshed([status EXCEPT ![i] = ComputeStatus(status, q.deps)], deps')
          /\ ComputeStatus(status, q.deps) \in Status
          /\ attempt' = attempt /\ robotOf' = [robotOf EXCEPT ![i] = NoRobot]
      BY <2>2, VerdictWaits DEF RetryJob, Status
    <3>3. i # j /\ status[j] \notin Waiting => status'[j] = status[j]
      BY <3>1, <3>2, RefreshedStep
    <3>4. QED
      BY <1>1, <3>1, <3>2, <3>3 DEF KeepsItsRobot, TypeOK
  <2>3. QED
    BY <1>2, <2>1, <2>2 DEF SubmitJob
<1>3. ASSUME NEW i \in Jobs, CancelJob(i)
      PROVE  KeepsItsRobot(j)
  <2>1. /\ status' \in Refreshed([status EXCEPT ![i] = "cancelled"], deps) /\ "cancelled" \in Status
        /\ attempt' = attempt /\ robotOf' = [robotOf EXCEPT ![i] = NoRobot]
        /\ status[i] \in Waiting
    BY <1>3 DEF CancelJob, Status, Finished
  <2>2. i # j /\ status[j] \notin Waiting => status'[j] = status[j]
    BY <2>1, RefreshedStep
  <2>3. QED
    BY <1>1, <2>1, <2>2 DEF KeepsItsRobot, TypeOK
<1>4. ASSUME NEW refused, NEW confirmed, DispatchOnce(refused, confirmed)
      PROVE  KeepsItsRobot(j)
  BY <1>1, <1>4 DEF DispatchOnce, Assign, Won, Pending, Counted, KeepsItsRobot
<1>5. ASSUME NEW p \in Reports, UpdateRobot(p)
      PROVE  KeepsItsRobot(j)
  <2>1. ~(replan.enabled /\ replan.onFault)
    BY DEF ConfirmsFirst, Able
  <2>2. status' = status /\ attempt' = attempt /\ robotOf' = robotOf
    BY <1>5, <2>1 DEF UpdateRobot, Register, Heartbeat, jobVars
  <2>3. QED
    BY <2>2 DEF KeepsItsRobot
<1>6. ASSUME NEW S, DetectStale(S)
      PROVE  KeepsItsRobot(j)
  <2>1. replan.enabled => ~replan.allowUnconfirmed
    BY DEF ConfirmsFirst, Able
  <2>2. /\ status'[j] \in {"unknown", status[j]} /\ robotOf'[j] = robotOf[j]
        /\ attempt' = attempt
    BY <1>6, <2>1 DEF DetectStale, TakenForGranted, Able
  <2>3. QED
    BY <1>1, <2>2 DEF KeepsItsRobot
<1>7. CASE (\E r \in Robots : RemoveRobot(r)) \/ TimePasses
  BY <1>7 DEF RemoveRobot, TimePasses, FallSilent, StopDeadline, jobVars, KeepsItsRobot
<1>8. QED
  BY <1>2, <1>3, <1>4, <1>5, <1>6, <1>7
     DEF EngineStep, HandleSubmit, HandleRobot, HandleRobotByID, HandleCancel, HandleDispatch, Sweep

AloneInv ==
  TypeOK /\ CourseTyped /\ IdleNowhere /\ Able /\ ReportsReal /\ StopsReal /\ Carried

LEMMA AloneInit == WorldInit => AloneInv
<1> SUFFICES ASSUME WorldInit
             PROVE  AloneInv
  OBVIOUS
<1>1. TypeOK
  BY TypedInit DEF WorldInit
<1>2. Idle \in FateType /\ Idle.is = "idle"
  BY DEF Idle, Over, FateType
<1>3. CourseTyped
  BY <1>2 DEF WorldInit, CourseTyped
<1>4. IdleNowhere /\ ReportsReal /\ StopsReal /\ Carried
  BY <1>2 DEF WorldInit, IdleNowhere, ReportsReal, StopsReal, Carried
<1>5. Able
  BY DEF WorldInit, Init, Able
<1>6. QED
  BY <1>1, <1>3, <1>4, <1>5 DEF AloneInv

\* An attempt that is over is not idle again, and one that runs is not idle.
LEMMA IdleNext ==
  ASSUME TypeOK, CourseTyped, IdleNowhere, [WorldNext]_worldVars
  PROVE  IdleNowhere'
<1>1. ASSUME NEW j \in Jobs, NEW n \in Attempts, course'[j][n].is = "idle"
      PROVE  course'[j][n] = Idle
  <2>1. GetsOn(j, n)
    BY CourseNext
  <2>2. course'[j][n] = course[j][n]
    BY <1>1, <2>1 DEF GetsOn, IsOver, Running
  <2>3. QED
    BY <1>1, <2>2 DEF IdleNowhere
<1>2. QED
  BY <1>1 DEF IdleNowhere

\* A stopped robot does not go on, and one that had not begun does not begin.
LEMMA StopEnds ==
  ASSUME AloneInv, NEW j \in Jobs, StopRobot(j), attempt[j] \in Attempts
  PROVE  IsOver(course'[j][attempt[j]].is)
<1>1. /\ course' = [course EXCEPT ![j] =
           [n \in Attempts |->
              IF Running(j, n, robotOf[j]) \/ (n = attempt[j] /\ course[j][n] = Idle)
              THEN Over("stopped") ELSE course[j][n]]]
      /\ CourseTyped
  BY DEF StopRobot, CourseTyped, AloneInv
<1>2. course'[j][attempt[j]] =
        IF Running(j, attempt[j], robotOf[j]) \/ course[j][attempt[j]] = Idle
        THEN Over("stopped") ELSE course[j][attempt[j]]
  BY <1>1 DEF CourseTyped
<1>3. course[j][attempt[j]].is = "idle" => course[j][attempt[j]] = Idle
  BY DEF AloneInv, IdleNowhere
<1>4. course[j][attempt[j]].is = "running" => Running(j, attempt[j], robotOf[j])
  <2>1. course[j][attempt[j]] \in FateType
    BY <1>1 DEF CourseTyped
  <2>2. course[j][attempt[j]].is = "running" => course[j][attempt[j]].on = robotOf[j]
    BY DEF AloneInv, Carried
  <2>3. QED
    BY <2>1, <2>2 DEF FateType, Running
<1>5. Over("stopped").is = "stopped"
  BY DEF Over
<1>6. QED
  BY <1>2, <1>3, <1>4, <1>5 DEF IsOver

LEMMA StopsNext ==
  ASSUME AloneInv, [WorldNext]_worldVars
  PROVE  StopsReal'
<1>1. \A j \in Jobs, n \in Attempts : IsOver(course[j][n].is) => course'[j][n] = course[j][n]
  BY CourseNext DEF GetsOn, AloneInv
<1>2. ASSUME NEW m \in calls \cap StopWords
      PROVE  IsOver(course'[m.job][m.attempt].is)
  <2>1. m.job \in Jobs /\ m.attempt \in Attempts
    BY DEF StopWords
  <2>2. QED
    BY <1>1, <1>2, <2>1 DEF StopsReal, AloneInv
<1>3. CASE calls' \cap StopWords \subseteq calls
  BY <1>2, <1>3 DEF StopsReal
<1>4. ASSUME NEW j \in Jobs, NEW k \in Attempts, NEW success \in BOOLEAN, End(j, k, success)
      PROVE  calls' \cap StopWords \subseteq calls
  <2>1. [robot |-> course[j][k].on, job |-> j, attempt |-> k, success |-> success] \notin StopWords
    BY DEF StopWords
  <2>2. QED
    BY <1>4, <2>1 DEF End
<1>5. ASSUME NEW j \in Jobs, StopRobot(j)
      PROVE  StopsReal'
  <2> DEFINE word == [robot |-> robotOf[j], job |-> j, attempt |-> attempt[j]]
  <2>1. calls' = calls \cup {word}
    BY <1>5 DEF StopRobot
  <2>2. word.job = j /\ word.attempt = attempt[j] /\ (word \in StopWords => attempt[j] \in Attempts)
    BY DEF StopWords
  <2> HIDE DEF word
  <2>3. QED
    BY <1>2, <1>5, <2>1, <2>2, StopEnds DEF StopsReal
<1>6. ASSUME NEW m \in calls, NEW lost, HandleReport(m, lost) \/ HandleStopAck(m, lost)
      PROVE  calls' \subseteq calls
  BY <1>6, CallsHandled
<1>7. QED
  BY <1>3, <1>4, <1>5, <1>6
     DEF WorldNext, EngineStep, Begin, LoseStop, worldVars, bridgeVars

\* A call of a robot about a job whose attempt is over, and no attempt runs then.
LEMMA CallsEndWhatIsOver ==
  ASSUME ConfirmsFirst, AloneInv, NEW m \in calls, NEW lost,
         HandleReport(m, lost) \/ HandleStopAck(m, lost),
         NEW j \in Jobs, NEW n \in Attempts, course[j][n].is = "running"
  PROVE  KeepsItsRobot(j)
<1>1. status[j] \in InFlight /\ attempt[j] = n
  BY DEF AloneInv, Carried
<1>2. CASE m \in ReportWords /\ Complete(m)
  <2>1. /\ attempt' = attempt /\ robotOf' = robotOf
        /\ attempt[m.job] = m.attempt
        /\ \A i \in Jobs : i # m.job =>
             \/ status'[i] = status[i]
             \/ status[i] \in Waiting /\ status'[i] \in Waiting
    BY <1>2, ReportEnds DEF AloneInv
  <2>2. m.job \in Jobs /\ m.attempt \in Attempts
    BY <1>2 DEF ReportWords
  <2>3. course[m.job][m.attempt].is # "running"
    BY <1>2 DEF AloneInv, ReportsReal
  <2>4. j # m.job
    BY <1>1, <2>1, <2>3
  <2>5. QED
    BY <1>1, <2>1, <2>4 DEF KeepsItsRobot, InFlight, Waiting
<1>3. CASE m \in StopWords /\ InTime(m) /\ AckStop(m.robot, m.job)
  <2>1. attempt[m.job] = m.attempt
    BY <1>3 DEF InTime, Now, ConfirmsFirst
  <2>2. IsOver(course[m.job][m.attempt].is)
    BY <1>3 DEF AloneInv, StopsReal
  <2>3. j # m.job
    BY <1>1, <2>1, <2>2 DEF IsOver
  <2>4. status'[j] = status[j] /\ attempt'[j] = attempt[j] /\ robotOf'[j] = robotOf[j]
    BY <1>3, <2>3 DEF AckStop, RequeueAll
  <2>5. QED
    BY <1>1, <2>4 DEF KeepsItsRobot
<1>4. CASE UNCHANGED vars
  BY <1>4 DEF vars, jobVars, KeepsItsRobot
<1>5. QED
  BY <1>2, <1>3, <1>4, CallsHandled

LEMMA CarriedNext ==
  ASSUME ConfirmsFirst, AloneInv, [WorldNext]_worldVars
  PROVE  Carried'
<1> SUFFICES ASSUME NEW j \in Jobs, NEW n \in Attempts, course'[j][n].is = "running"
             PROVE  status'[j] \in InFlight /\ attempt'[j] = n /\ course'[j][n].on = robotOf'[j]
  BY DEF Carried
<1>1. GetsOn(j, n)
  BY CourseNext DEF AloneInv
<1>2. CASE course'[j][n] = course[j][n]
  <2>1. /\ course[j][n].is = "running"
        /\ status[j] \in InFlight /\ attempt[j] = n /\ course[j][n].on = robotOf[j]
    BY <1>2 DEF AloneInv, Carried
  <2>2. CASE EngineStep
    BY <1>2, <2>1, <2>2, EngineTakesNothing DEF AloneInv, KeepsItsRobot
  <2>3. CASE UNCHANGED vars
    BY <1>2, <2>1, <2>3 DEF vars, jobVars
  <2>4. ASSUME NEW m \in calls, NEW lost, HandleReport(m, lost) \/ HandleStopAck(m, lost)
        PROVE  KeepsItsRobot(j)
    BY <2>1, <2>4, CallsEndWhatIsOver
  <2>5. QED
    BY <1>2, <2>1, <2>2, <2>3, <2>4
       DEF WorldNext, Begin, StopRobot, End, LoseStop, worldVars, KeepsItsRobot
<1>3. CASE /\ Running(j, n, robotOf[j])'
           /\ status[j] = "assigned" /\ attempt[j] = n /\ UNCHANGED vars
  <2>1. status' = status /\ attempt' = attempt /\ course'[j][n].on = robotOf'[j]
    BY <1>3 DEF vars, jobVars, Running
  <2>2. QED
    BY <1>3, <2>1 DEF InFlight
<1>4. QED
  BY <1>1, <1>2, <1>3 DEF GetsOn, IsOver

LEMMA AloneNext == ConfirmsFirst /\ AloneInv /\ [WorldNext]_worldVars => AloneInv'
BY WorldSteps, TypedNext, CourseNext, IdleNext, AbleNext, ReportsNext, StopsNext, CarriedNext
   DEF AloneInv

\* No job is being done twice at a time, however long a robot is silent with it and
\* however late its reports are, when no job is taken from a robot unconfirmed.
THEOREM NeverTwiceDone ==
  ASSUME ConfirmsFirst
  PROVE  WorldSafety => []NeverTwiceAtATime
<1>1. AloneInv => NeverTwiceAtATime
  BY DEF AloneInv, Carried, NeverTwiceAtATime
<1>2. AloneInv /\ [WorldNext]_worldVars => AloneInv'
  BY AloneNext
<1>3. QED
  BY <1>1, <1>2, AloneInit, PTL DEF WorldSafety
=============================================================================
