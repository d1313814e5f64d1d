------------------------------ MODULE RobotIndex ------------------------------
(***************************************************************************)
(* heldBy of the Engine (dispatcher.go): for each robot the jobs that name *)
(* it, so that they are found without walking the queue.  An entry is made *)
(* when a job gets a robot and is taken out only when somebody reads the   *)
(* entries of that robot and finds that it no longer fits.                 *)
(***************************************************************************)
EXTENDS RobotChoice, JobStatus

ASSUME IndexAssumption == NoRobot \notin Robots

VARIABLES
  queued,  \* the keys of e.jobs
  named,   \* AssignedRobot of each job, also of one that has ended
  heldBy   \* per robot a set of job ids

indexVars == <<queued, named, heldBy>>

IndexInit ==
  /\ queued = {}
  /\ named = [j \in Jobs |-> NoRobot]
  /\ heldBy = [r \in Robots |-> {}]

\* noteAssignedLocked for one job.
Noted(j, r) == [heldBy EXCEPT ![r] = @ \cup {j}]

\* The jobs of jobsHeldByLocked.
FoundFor(r) == {j \in heldBy[r] : j \in queued /\ named[j] = r}

\* addJobLocked: a new job names no robot.
InsertJob(j) ==
  /\ j \notin queued
  /\ queued' = queued \cup {j}
  /\ UNCHANGED <<named, heldBy>>

\* A pass gives the job to r.  When the write of the job is refused the job
\* goes back and its entry stays.
GiveTo(j, r, taken) ==
  /\ j \in queued /\ named[j] = NoRobot
  /\ named' = [named EXCEPT ![j] = IF taken THEN r ELSE NoRobot]
  /\ heldBy' = Noted(j, r)
  /\ UNCHANGED queued

\* A requeue, a retry, a cancellation: nothing is done about the entry.
TakeBack(j) ==
  /\ j \in queued
  /\ named' = [named EXCEPT ![j] = NoRobot]
  /\ UNCHANGED <<queued, heldBy>>

\* ArchiveFinished: nor here.
ForgetJob(j) ==
  /\ j \in queued
  /\ queued' = queued \ {j}
  /\ named' = [named EXCEPT ![j] = NoRobot]
  /\ UNCHANGED heldBy

\* jobsHeldByLocked, for a heartbeat, the removal of a robot, a completion, a
\* replan of the robot or GET /jobs?robot=: what does not fit is dropped.
FindJobs(r) ==
  /\ heldBy' = [heldBy EXCEPT ![r] = FoundFor(r)]
  /\ UNCHANGED <<queued, named>>

\* Mutant: nothing is noted when the queue is loaded.
LoadedNone == [r \in Robots |-> {}]

\* NewEngineWithStore notes every job that it loads.
Loaded == [r \in Robots |-> {j \in queued : named[j] = r}]

LoadQueue ==
  /\ heldBy' = Loaded
  /\ UNCHANGED <<queued, named>>

IndexNext ==
  \/ \E j \in Jobs : InsertJob(j) \/ TakeBack(j) \/ ForgetJob(j)
  \/ \E j \in Jobs, r \in Robots, taken \in BOOLEAN : GiveTo(j, r, taken)
  \/ \E r \in Robots : FindJobs(r)
  \/ LoadQueue

IndexSpec == IndexInit /\ [][IndexNext]_indexVars

-----------------------------------------------------------------------------
\* Reading the index finds what a walk over the queue would find: no job is
\* missed after any mix of rolled-back assignments, requeues, ids used again,
\* reads that prune and restarts.  Reserved, RemoveRobot and replanning rest on it.
IndexFindsAll ==
  \A r \in Robots : FoundFor(r) = {j \in queued : named[j] = r}
=============================================================================
