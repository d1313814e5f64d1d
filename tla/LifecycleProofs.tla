--------------------------- MODULE LifecycleProofs ---------------------------
(***************************************************************************)
(* JobEngine implements JobLifecycle: every operation of the engine moves  *)
(* every job as the abstract specification allows, or leaves it where it   *)
(* is.                                                                     *)
(***************************************************************************)
EXTENDS DependencyProofs

\* The attempts of an id start again when it comes back from the archive.
AbsentNeverRan == \A j \in Jobs : status[j] = Absent => attempt[j] = 0

LifeInv == TypeOK /\ DepsInv /\ AbsentNeverRan

-----------------------------------------------------------------------------
\* The moves of JobLifecycle in terms of the statuses of the engine.

SameWorkload(j) == attempt'[j] = attempt[j] /\ deps'[j] = deps[j]

Enters(j) == /\ status[j] = Absent /\ status'[j] \in Waiting
             /\ attempt'[j] = attempt[j]
             /\ deps'[j] \subseteq Live(status) \ {j}

Starts(j) == /\ status[j] = "pending" /\ status'[j] = "assigned"
             /\ attempt'[j] = attempt[j] + 1 /\ deps'[j] = deps[j]

Ends(j) == /\ status[j] \in InFlight /\ status'[j] \in {"done", "failed"} \cup Waiting
           /\ SameWorkload(j)

Withdraws(j) == status[j] \in Waiting /\ status'[j] = "cancelled" /\ SameWorkload(j)

Retries(j) == /\ status[j] \in {"failed", "cancelled"} /\ status'[j] \in Waiting
              /\ attempt'[j] = attempt[j]
              /\ deps'[j] \subseteq Live(status) \ {j}

Goes(j) == /\ status[j] \in Finished /\ status'[j] = Absent
           /\ attempt'[j] = 0 /\ deps'[j] = {}
           /\ \A i \in Jobs : status'[i] # Absent => j \notin deps'[i]

Stays(j) == /\ \/ status'[j] = status[j]
               \/ status[j] \in Waiting /\ status'[j] \in Waiting
               \/ status[j] \in InFlight /\ status'[j] \in InFlight
            /\ SameWorkload(j)

Lives(j) == \/ Enters(j) \/ Starts(j) \/ Ends(j) \/ Withdraws(j)
            \/ Retries(j) \/ Goes(j) \/ Stays(j)

LEMMA LivesAbstractly ==
  ASSUME LifeInv, TypeOK', \A j \in Jobs : Lives(j)
  PROVE  Lifecycle!LifeNext
<1> DEFINE phase == [j \in Jobs |-> PhaseOf(status[j])]
<1>1. \A s : /\ s \in Waiting => PhaseOf(s) = "waiting"
             /\ s \in InFlight => PhaseOf(s) = "running"
             /\ s \in Finished \cup {Absent} => PhaseOf(s) = s
  BY DEF PhaseOf, Waiting, InFlight, Finished, Absent
<1>2. \A j \in Jobs : phase[j] = PhaseOf(status[j]) /\ phase'[j] = PhaseOf(status'[j])
  OBVIOUS
<1>3. \A j \in Jobs : deps[j] \subseteq Jobs /\ deps'[j] \subseteq Jobs
  BY DEF LifeInv, TypeOK
<1>4. \A j \in Jobs : /\ (phase[j] = "absent") <=> (status[j] = Absent)
                      /\ (phase'[j] = "absent") <=> (status'[j] = Absent)
                      /\ (status[j] = "done") => (phase[j] = "done")
  <2>1. \A j \in Jobs : status[j] \in Status /\ status'[j] \in Status
    BY DEF LifeInv, TypeOK
  <2>2. QED
    BY <1>1, <1>2, <2>1 DEF Status, Finished, Absent
<1>5. Lifecycle!Present = Live(status)
  BY <1>4 DEF Lifecycle!Present, Live
<1> SUFFICES ASSUME NEW j \in Jobs
             PROVE  Lifecycle!Stay(j) \/ Lifecycle!Move(j)
  BY DEF Lifecycle!LifeNext
<1>6. CASE Enters(j)
  <2>1. attempt'[j] = 0
    BY <1>6 DEF Enters, LifeInv, AbsentNeverRan
  <2>2. Lifecycle!Enter(j)
    BY <1>1, <1>2, <1>4, <1>5, <1>6, <2>1 DEF Enters, Lifecycle!Enter
  <2>3. QED
    BY <2>2 DEF Lifecycle!Move
<1>7. CASE Starts(j)
  <2>1. \A d \in deps[j] : status[d] = "done"
    BY <1>7 DEF Starts, LifeInv, DepsInv, WaitsRight, Waiting
  <2>2. Lifecycle!Start(j)
    BY <1>1, <1>2, <1>3, <1>4, <1>7, <2>1 DEF Starts, Waiting, InFlight, Lifecycle!Start
  <2>3. QED
    BY <2>2 DEF Lifecycle!Move
<1>8. CASE Ends(j)
  <2>1. Lifecycle!End(j) \/ Lifecycle!GiveUp(j)
    BY <1>1, <1>2, <1>8 DEF Ends, SameWorkload, Finished, Lifecycle!End, Lifecycle!GiveUp
  <2>2. QED
    BY <2>1 DEF Lifecycle!Move
<1>9. CASE Withdraws(j)
  <2>1. Lifecycle!Withdraw(j)
    BY <1>1, <1>2, <1>9 DEF Withdraws, SameWorkload, Finished, Lifecycle!Withdraw
  <2>2. QED
    BY <2>1 DEF Lifecycle!Move
<1>10. CASE Retries(j)
  <2>1. Lifecycle!Retry(j)
    BY <1>1, <1>2, <1>5, <1>10 DEF Retries, Finished, Lifecycle!Retry
  <2>2. QED
    BY <2>1 DEF Lifecycle!Move
<1>11. CASE Goes(j)
  <2>1. Lifecycle!Forget(j)
    BY <1>1, <1>2, <1>4, <1>11 DEF Goes, Finished, Absent, Lifecycle!Forget
  <2>2. QED
    BY <2>1 DEF Lifecycle!Move
<1>12. CASE Stays(j)
  BY <1>1, <1>2, <1>12 DEF Stays, SameWorkload, Lifecycle!Stay
<1>13. QED
  BY <1>6, <1>7, <1>8, <1>9, <1>10, <1>11, <1>12 DEF Lives

-----------------------------------------------------------------------------
\* The operations of the engine, job by job.

LEMMA RequeueLives ==
  ASSUME NEW J \in SUBSET Jobs, NEW extra, RequeueAll(J, extra),
         \A j \in J : status[j] \in InFlight, UNCHANGED <<attempt, deps>>
  PROVE  \A j \in Jobs : Lives(j)
<1>1. \A j \in J : Ends(j)
  BY VerdictWaits DEF RequeueAll, Ends, SameWorkload
<1>2. \A j \in Jobs \ J : Stays(j)
  BY DEF RequeueAll, Stays, SameWorkload
<1>3. QED
  BY <1>1, <1>2 DEF Lives

\* refreshBlocked moves no job out of the waiting ones and none in.
LEMMA RefreshLives ==
  ASSUME TypeOK, NEW j \in Jobs, NEW new \in Status, NEW dp,
         status' \in Refreshed([status EXCEPT ![j] = new], dp),
         \A i \in Jobs : i # j => SameWorkload(i)
  PROVE  \A i \in Jobs : i # j => Lives(i)
<1>1. \A i \in Jobs : i # j => /\ status[i] \in Waiting <=> status'[i] \in Waiting
                               /\ status[i] \notin Waiting => status'[i] = status[i]
  BY RefreshedStep
<1>2. QED
  BY <1>1 DEF Lives, Stays

LEMMA SubmitLives ==
  ASSUME TypeOK, NEW q \in Requests, SubmitJob(q)
  PROVE  \A j \in Jobs : Lives(j)
<1>0. /\ TypeOK /\ q.id \in Jobs /\ SameWork(q) \subseteq Jobs
      /\ ComputeStatus(status, q.deps) \in Waiting
  BY VerdictWaits, RequestsTyped DEF RequestType, SameWork, TypeOK
<1>1. CASE AddJob(q) /\ UNCHANGED <<status, deps>>
  BY <1>1 DEF AddJob, Lives, Stays, SameWorkload
<1>2. CASE /\ AddJob(q)
           /\ status' = [status EXCEPT ![q.id] = ComputeStatus(status, q.deps)]
           /\ deps' = [deps EXCEPT ![q.id] = q.deps]
  <2>1. /\ status[q.id] = Absent /\ q.deps \subseteq Live(status) \ {q.id}
        /\ UNCHANGED attempt
    BY <1>2 DEF AddJob
  <2>2. /\ status'[q.id] = ComputeStatus(status, q.deps) /\ deps'[q.id] = q.deps
        /\ \A i \in Jobs : i # q.id => status'[i] = status[i] /\ deps'[i] = deps[i]
    BY <1>0, <1>2 DEF TypeOK
  <2>3. Enters(q.id)
    BY <1>0, <2>1, <2>2 DEF Enters
  <2>4. \A i \in Jobs : i # q.id => Stays(i)
    BY <2>1, <2>2 DEF Stays, SameWorkload
  <2>5. QED
    BY <2>3, <2>4 DEF Lives
<1>3. ASSUME NEW j \in SameWork(q), RetryJob(q, j)
      PROVE  \A i \in Jobs : Lives(i)
  <2>1. /\ status[j] \in {"failed", "cancelled"} /\ q.deps \subseteq Live(status) \ {j}
        /\ status' \in Refreshed([status EXCEPT ![j] = ComputeStatus(status, q.deps)], deps')
        /\ UNCHANGED attempt
    BY <1>3 DEF RetryJob, MayRetry, MayRunAgain
  <2>2. deps'[j] = q.deps /\ \A i \in Jobs : i # j => deps'[i] = deps[i]
    BY <1>0, <1>3 DEF RetryJob, MayRetry, TypeOK
  <2>3. ComputeStatus(status, q.deps) \in Status
    BY <1>0 DEF Status
  <2>4. status'[j] \in Waiting
    BY <1>0, <2>1, <2>3, RefreshedStep
  <2>5. Retries(j)
    BY <2>1, <2>2, <2>4 DEF Retries
  <2>6. \A i \in Jobs : i # j => Lives(i)
    BY <1>0, <2>1, <2>2, <2>3, RefreshLives DEF SameWorkload
  <2>7. QED
    BY <2>5, <2>6 DEF Lives
<1>4. QED
  BY <1>1, <1>2, <1>3 DEF SubmitJob, AddJob

LEMMA WayBackLives ==
  ASSUME \/ \E j \in Jobs, r \in Robots \cup {NoRobot} : RequeueJob(j, r)
         \/ \E r \in Robots : ReplanRobot(r)
         \/ \E r \in Robots, j \in Jobs : AckStop(r, j)
         \/ \E p \in Reports : UpdateRobot(p)
  PROVE  \A j \in Jobs : Lives(j)
<1>1. ASSUME NEW j \in Jobs, NEW r, RequeueJob(j, r) \/ AckStop(r, j)
      PROVE  \A i \in Jobs : Lives(i)
  BY <1>1, RequeueLives DEF RequeueJob, AckStop
<1>2. ASSUME NEW r, NEW st \in {InFlight, {"assigned"}}, NEW extra,
             RequeueAll(HeldJobs(r, st), extra), UNCHANGED <<attempt, deps>>
      PROVE  \A j \in Jobs : Lives(j)
  <2>1. /\ HeldJobs(r, st) \in SUBSET Jobs
        /\ \A j \in HeldJobs(r, st) : status[j] \in InFlight
    BY DEF HeldJobs, InFlight
  <2>2. QED
    BY <1>2, <2>1, RequeueLives
<1>3. ASSUME NEW r \in Robots, ReplanRobot(r)
      PROVE  \A j \in Jobs : Lives(j)
  BY <1>2, <1>3 DEF ReplanRobot
<1>4. ASSUME NEW p \in Reports, UpdateRobot(p)
      PROVE  \A j \in Jobs : Lives(j)
  <2>1. CASE UNCHANGED <<status, attempt, deps>>
    BY <2>1 DEF Lives, Stays, SameWorkload
  <2>2. CASE /\ RequeueAll(HeldJobs(p.robot, {"assigned"}), {p.robot})
             /\ UNCHANGED <<attempt, deps>>
    BY <1>2, <2>2
  <2>3. QED
    BY <1>4, <2>1, <2>2 DEF UpdateRobot, Register, Heartbeat, jobVars
<1>5. QED
  BY <1>1, <1>3, <1>4

\* A pass gives out pending jobs only.
LEMMA DispatchLives ==
  ASSUME NEW refused, NEW confirmed, DispatchOnce(refused, confirmed)
  PROVE  \A j \in Jobs : Lives(j)
<1>1. PICK pass :
        /\ status' = [j \in Jobs |-> IF j \in Won(pass, refused) THEN "assigned" ELSE status[j]]
        /\ attempt' = Counted(Won(pass, refused))
  BY DEF DispatchOnce, Assign
<1>2. UNCHANGED deps
  BY DEF DispatchOnce, Assign
<1>3. \A j \in Jobs : j \in Won(pass, refused) => Starts(j)
  BY <1>1, <1>2 DEF Won, Pending, Starts, Counted
<1>4. \A j \in Jobs : j \notin Won(pass, refused) => Stays(j)
  BY <1>1, <1>2 DEF Stays, SameWorkload, Counted
<1>5. QED
  BY <1>3, <1>4 DEF Lives

LEMMA CompleteLives ==
  ASSUME TypeOK, NEW j \in Jobs, NEW r, NEW n, NEW success, CompleteJobAttempt(j, r, n, success)
  PROVE  \A i \in Jobs : Lives(i)
<1> DEFINE new == IF success THEN "done" ELSE "failed"
<1>1. new \in Status \ Waiting /\ new \in {"done", "failed"}
  BY DEF Status, Finished, Waiting
<1>2. /\ status' \in Refreshed([status EXCEPT ![j] = new], deps)
      /\ status[j] \in InFlight /\ UNCHANGED <<attempt, deps>>
  BY DEF CompleteJobAttempt
<1>3. \A i \in Jobs : SameWorkload(i)
  BY <1>2 DEF SameWorkload
<1> HIDE DEF new
<1>4. status'[j] = new
  BY <1>1, <1>2, <1>3, RefreshedStep
<1>5. \A i \in Jobs : i # j => Lives(i)
  BY <1>1, <1>2, <1>3, RefreshLives
<1>6. QED
  BY <1>1, <1>2, <1>3, <1>4, <1>5 DEF Lives, Ends

LEMMA CancelLives ==
  ASSUME TypeOK, NEW j \in Jobs, CancelJob(j)
  PROVE  \A i \in Jobs : Lives(i)
<1>1. "cancelled" \in Status \ Waiting
  BY DEF Status, Finished, Waiting
<1>2. /\ status' \in Refreshed([status EXCEPT ![j] = "cancelled"], deps)
      /\ status[j] \in Waiting /\ UNCHANGED <<attempt, deps>>
  BY DEF CancelJob
<1>3. \A i \in Jobs : SameWorkload(i)
  BY <1>2 DEF SameWorkload
<1>4. status'[j] = "cancelled"
  BY <1>1, <1>2, <1>3, RefreshedStep
<1>5. \A i \in Jobs : i # j => Lives(i)
  BY <1>1, <1>2, <1>3, RefreshLives
<1>6. QED
  BY <1>2, <1>3, <1>4, <1>5 DEF Lives, Withdraws

LEMMA StaleLives ==
  ASSUME NEW S, DetectStale(S)
  PROVE  \A j \in Jobs : Lives(j)
<1>1. \A j \in Jobs : ComputeStatus(status, deps[j]) \in Waiting
  BY VerdictWaits
<1>2. \A j \in Jobs :
        \/ status'[j] = status[j]
        \/ status[j] = "assigned" /\ status'[j] = "unknown"
        \/ status[j] = "assigned" /\ status'[j] \in Waiting
  BY <1>1 DEF DetectStale
<1>3. \A j \in Jobs : SameWorkload(j)
  BY DEF DetectStale, SameWorkload
<1>4. QED
  BY <1>2, <1>3 DEF Lives, Stays, Ends, InFlight

\* old are jobs that ended, as Next says.
LEMMA ArchiveLives ==
  ASSUME NEW old \in SUBSET {j \in Jobs : status[j] \in Finished},
         ArchiveFinished(old)
  PROVE  \A j \in Jobs : Lives(j)
<1> DEFINE C == Archivable(old)
<1>1. \A j \in Jobs : /\ status'[j] = IF j \in C THEN Absent ELSE status[j]
                      /\ attempt'[j] = IF j \in C THEN 0 ELSE attempt[j]
                      /\ deps'[j] = IF j \in C THEN {} ELSE deps[j]
  BY DEF ArchiveFinished
<1>2. /\ \A j \in C : status[j] \in Finished
      /\ \A i \in Live(status) \ C : deps[i] \cap C = {}
  BY ArchivableAlone
<1> HIDE DEF C
<1>3. \A j \in Jobs : j \in C => Goes(j)
  <2>1. \A i \in Jobs : status'[i] # Absent => deps'[i] \cap C = {}
    BY <1>1, <1>2 DEF Live
  <2>2. QED
    BY <1>1, <1>2, <2>1 DEF Goes
<1>4. \A j \in Jobs : j \notin C => Stays(j)
  BY <1>1 DEF Stays, SameWorkload
<1>5. QED
  BY <1>3, <1>4 DEF Lives

LEMMA EveryStepLives ==
  ASSUME TypeOK, [Next]_vars
  PROVE  \A j \in Jobs : Lives(j)
<1>1. CASE \/ \E r \in Robots : RemoveRobot(r) \/ FallSilent(r)
           \/ \E j \in Jobs : StopDeadline(j)
           \/ \E c \in ReplanConfigs : SetReplan(c)
           \/ UNCHANGED vars
  <2>1. UNCHANGED <<status, attempt, deps>>
    BY <1>1 DEF RemoveRobot, FallSilent, StopDeadline, SetReplan, vars, jobVars
  <2>2. QED
    BY <2>1 DEF Lives, Stays, SameWorkload
<1>2. QED
  BY <1>1, SubmitLives, WayBackLives, DispatchLives, CompleteLives, CancelLives,
     StaleLives, ArchiveLives DEF Next

\* Only the archive makes a job absent, and it forgets the attempts with it.
LEMMA AbsentNeverRanNext ==
  ASSUME LifeInv, TypeOK', \A j \in Jobs : Lives(j)
  PROVE  AbsentNeverRan'
<1>1. ASSUME NEW j \in Jobs, status'[j] = Absent
      PROVE  attempt'[j] = 0
  <2>1. Goes(j) \/ (status[j] = Absent /\ SameWorkload(j))
    BY <1>1 DEF Lives, Enters, Starts, Ends, Withdraws, Retries, Stays, Waiting, InFlight, Absent
  <2>2. QED
    BY <2>1 DEF Goes, SameWorkload, LifeInv, AbsentNeverRan
<1>2. QED
  BY <1>1 DEF AbsentNeverRan

-----------------------------------------------------------------------------
LEMMA LifeInvInit == Init => LifeInv
BY QueueInit DEF QueueInv, LifeInv, Init, AbsentNeverRan

LEMMA LifeInvNext ==
  ASSUME LifeInv, [Next]_vars
  PROVE  LifeInv' /\ TypeOK' /\ \A j \in Jobs : Lives(j)
<1>1. TypeOK' /\ DepsInv'
  BY TypedNext, DepsNext DEF LifeInv, Keeps
<1>2. \A j \in Jobs : Lives(j)
  BY EveryStepLives DEF LifeInv
<1>3. AbsentNeverRan'
  BY <1>1, <1>2, AbsentNeverRanNext
<1>4. QED
  BY <1>1, <1>2, <1>3 DEF LifeInv

\* Every job lives the life JobLifecycle promises: given to a robot only when
\* what it needs is done, never again once done, withdrawn only while no robot
\* has it, and archived only when no job that stays needs it.
THEOREM EngineLivesAsPromised == Spec => LivesAsPromised
<1>1. Init => Lifecycle!LifeInit
  BY DEF Init, Lifecycle!LifeInit, PhaseOf, Waiting, InFlight, Absent
<1>2. LifeInv /\ [Next]_vars => LifeInv' /\ Lifecycle!LifeNext
  BY LifeInvNext, LivesAbstractly
<1>3. QED
  BY <1>1, <1>2, LifeInvInit, PTL DEF Spec, LivesAsPromised, Lifecycle!LifeSpec

\* The attempt of a job, which tells a late report from a current one, grows by
\* one when the job is given to a robot and changes at no other time, until the
\* job is archived: a requeue, a retry and a rolled back dispatch leave it.
THEOREM AttemptsCounted == Spec => AttemptCountsDispatches
<1> DEFINE Step ==
      \A j \in Jobs : attempt'[j] # attempt[j] =>
        \/ /\ status[j] = "pending" /\ status'[j] = "assigned"
           /\ attempt'[j] = attempt[j] + 1
        \/ status[j] \in Finished /\ status'[j] = Absent
<1>1. LifeInv /\ [Next]_vars => LifeInv' /\ Step
  <2> SUFFICES ASSUME LifeInv, [Next]_vars
               PROVE  LifeInv' /\ Step
    OBVIOUS
  <2>1. LifeInv' /\ \A j \in Jobs : Lives(j)
    BY LifeInvNext
  <2>2. Step
    BY <2>1 DEF Lives, Enters, Starts, Ends, Withdraws, Retries, Goes, Stays, SameWorkload
  <2>3. QED
    BY <2>1, <2>2
<1> HIDE DEF Step
<1>2. QED
  BY <1>1, LifeInvInit, PTL DEF Spec, AttemptCountsDispatches, Step
=============================================================================
