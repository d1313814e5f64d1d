--------------------------- MODULE DependencyProofs ---------------------------
(***************************************************************************)
(* Theorems about the dependencies of JobEngine: no cycle, no dependency   *)
(* lost to the archive, no job given to a robot too early, no verdict that *)
(* is out of date.                                                         *)
(*                                                                         *)
(* They need each other.  A pass gives a robot to a job because its status *)
(* says pending, so that what it depends on is done needs that no status   *)
(* says pending too early; and the verdicts stay up to date after a        *)
(* requeue, which calls no refreshBlocked, because a job that had a robot  *)
(* depends on jobs that are done, and comes back as pending: its           *)
(* dependents were blocked and are.                                        *)
(*                                                                         *)
(* The inductive invariant is DepsInv.  It asks less of waiting jobs than  *)
(* that their verdicts are up to date: a crash in the middle of a retry    *)
(* leaves some that are not (DurableEngine), and DepsInv survives it.      *)
(***************************************************************************)
EXTENDS JobEngineProofs

\* Of the waiting jobs, those are pending whose dependencies are all done.
WaitsRight ==
  \A j \in Jobs : status[j] \in Waiting =>
    (status[j] = "pending" <=> \A d \in deps[j] : status[d] = "done")

DepsInv == DependenciesKnown /\ DependenciesDone /\ WaitsRight

\* What every operation keeps.
Keeps == DepsInv' /\ (WaitingSettled => WaitingSettled')

\* A job with the verdict of a table in which its dependencies are, waits right.
LEMMA VerdictWaitsRight ==
  ASSUME NEW st, NEW D, \A d \in D : st[d] # Absent
  PROVE  ComputeStatus(st, D) = "pending" <=> \A d \in D : st[d] = "done"
BY PendingWhenPassed DEF Passed

-----------------------------------------------------------------------------
\* The archive.

\* No job that stays depends on one that goes.
LEMMA ArchivableAlone ==
  ASSUME NEW old
  PROVE  /\ Archivable(old) \subseteq old
         /\ \A i \in Live(status) \ Archivable(old) : deps[i] \cap Archivable(old) = {}
BY DEF Archivable

-----------------------------------------------------------------------------
\* No cycle.

\* A new job closes no cycle: nothing in the queue depends on it yet.
LEMMA AddAcyclic ==
  ASSUME TypeOK, DependenciesKnown, Acyclic, NEW q \in Requests, AddJob(q)
  PROVE  Acyclic'
<1> DEFINE j == q.id
<1>1. j \in Jobs /\ j \notin q.deps
  BY RequestsTyped DEF RequestType
<1>2. \A i \in Jobs : j \notin deps[i]
  BY DEF AddJob, DependenciesKnown, Live
<1>3. CASE deps' = [deps EXCEPT ![j] = q.deps]
  <2> SUFFICES ASSUME NEW S \in SUBSET Jobs, S # {}
               PROVE  \E i \in S : deps'[i] \cap S = {}
    BY DEF Acyclic, AcyclicIn
  <2>1. \A i \in Jobs : deps'[i] = IF i = j THEN q.deps ELSE deps[i]
    BY <1>1, <1>3 DEF TypeOK
  <2>2. CASE S = {j}
    BY <1>1, <2>1, <2>2
  <2>3. CASE S # {j}
    <3>1. S \ {j} # {} /\ S \ {j} \in SUBSET Jobs
      BY <2>3
    <3>2. PICK i \in S \ {j} : deps[i] \cap (S \ {j}) = {}
      BY <3>1 DEF Acyclic, AcyclicIn
    <3>3. deps'[i] \cap S = {}
      BY <1>2, <2>1, <3>2
    <3>4. QED
      BY <3>2, <3>3
  <2>4. QED
    BY <2>2, <2>3
<1>4. CASE UNCHANGED deps
  BY <1>4 DEF Acyclic
<1>5. QED
  BY <1>3, <1>4 DEF AddJob

\* Neither does a retry: the set dependsTransitivelyLocked walked through is
\* closed under the dependencies and does not hold the job.
LEMMA RetryAcyclic ==
  ASSUME TypeOK, Acyclic, NEW q, NEW j \in Jobs, MayRetry(q, j),
         \A i \in Jobs : deps'[i] = IF i = j THEN q.deps ELSE deps[i]
  PROVE  Acyclic'
<1>1. PICK R \in SUBSET Jobs :
        q.deps \subseteq R /\ (\A i \in R : deps[i] \subseteq R) /\ j \notin R
  BY DEF MayRetry, DependsTransitively
<1>2. \A i \in Jobs : deps'[i] = IF i = j THEN q.deps ELSE deps[i]
  OBVIOUS
<1> SUFFICES ASSUME NEW S \in SUBSET Jobs, S # {}
             PROVE  \E i \in S : deps'[i] \cap S = {}
  BY DEF Acyclic, AcyclicIn
<1>3. CASE S \cap R # {}
  <2>1. PICK i \in S \cap R : deps[i] \cap (S \cap R) = {}
    BY <1>3 DEF Acyclic, AcyclicIn
  <2>2. deps'[i] \cap S = {}
    BY <1>1, <1>2, <2>1
  <2>3. QED
    BY <2>1, <2>2
<1>4. CASE S \cap R = {} /\ j \in S
  BY <1>1, <1>2, <1>4
<1>5. CASE j \notin S
  <2>1. PICK i \in S : deps[i] \cap S = {}
    BY DEF Acyclic, AcyclicIn
  <2>2. QED
    BY <1>2, <1>5, <2>1
<1>6. QED
  BY <1>3, <1>4, <1>5

LEMMA AcyclicNext ==
  ASSUME TypeOK, DependenciesKnown, Acyclic, [Next]_vars
  PROVE  Acyclic'
<1>1. CASE UNCHANGED deps
  BY <1>1 DEF Acyclic
<1>2. ASSUME NEW q \in Requests, SubmitJob(q)
      PROVE  Acyclic'
  <2>1. SameWork(q) \subseteq Jobs
    BY RequestsTyped DEF SameWork, TypeOK, RequestType
  <2>2. ASSUME NEW j \in Jobs, RetryJob(q, j)
        PROVE  Acyclic'
    <3>1. MayRetry(q, j) /\ \A i \in Jobs : deps'[i] = IF i = j THEN q.deps ELSE deps[i]
      BY <2>2 DEF RetryJob, TypeOK
    <3>2. QED
      BY <3>1, RetryAcyclic
  <2>3. QED
    BY <1>2, <2>1, <2>2, AddAcyclic DEF SubmitJob
<1>3. ASSUME NEW old, ArchiveFinished(old)
      PROVE  Acyclic'
  <2>1. \A i \in Jobs : deps'[i] \subseteq deps[i]
    BY <1>3 DEF ArchiveFinished
  <2>2. QED
    BY <2>1 DEF Acyclic, AcyclicIn
<1>4. QED
  BY <1>1, <1>2, <1>3 DEF Next, UpdateRobot, Register, Heartbeat, RemoveRobot, DispatchOnce, Assign,
     CompleteJobAttempt, CancelJob, RequeueJob, ReplanRobot, AckStop, DetectStale,
     FallSilent, StopDeadline, SetReplan, vars, jobVars

-----------------------------------------------------------------------------
\* Dependencies in the queue, done before the job starts, and up to date.

\* The moves of a job between pending, assigned and unknown.
GivenOrBack(j) ==
  \/ status'[j] = status[j]
  \/ status[j] \in InFlight /\ status'[j] \in {"pending", "unknown"}
  \/ status[j] = "pending" /\ status'[j] = "assigned"

\* They need no refreshBlocked: the dependents of the job were blocked and are.
LEMMA GivenOrBackKeeps ==
  ASSUME TypeOK, DepsInv, UNCHANGED deps, \A j \in Jobs : GivenOrBack(j)
  PROVE  Keeps
<1> USE DEF DepsInv
<1>1. \A j \in Jobs : /\ Passed(status[j]) <=> Passed(status'[j])
                      /\ Broken(status[j]) <=> Broken(status'[j])
                      /\ status[j] = Absent <=> status'[j] = Absent
                      /\ status[j] = "done" <=> status'[j] = "done"
  BY DEF GivenOrBack, Passed, Broken, InFlight, Absent
<1>2. \A j \in Jobs : deps[j] \subseteq Jobs
  BY DEF TypeOK
<1>3. DependenciesKnown'
  BY <1>1 DEF DependenciesKnown, Live
<1>4. DependenciesDone'
  BY <1>1, <1>2 DEF DependenciesDone, WaitsRight, GivenOrBack, InFlight, Waiting
<1>5. WaitsRight'
  BY <1>1, <1>2 DEF DependenciesDone, WaitsRight, GivenOrBack, InFlight, Waiting
<1>6. ASSUME WaitingSettled
      PROVE  WaitingSettled'
  <2> SUFFICES ASSUME NEW j \in Jobs, status'[j] \in Waiting
               PROVE  status'[j] = ComputeStatus(status', deps[j])
    BY DEF WaitingSettled, Settled, WaitingIn
  <2>1. ComputeStatus(status, deps[j]) = ComputeStatus(status', deps[j])
    BY <1>1, <1>2, SameVerdict
  <2>2. CASE status'[j] = status[j]
    BY <1>6, <2>1, <2>2 DEF WaitingSettled, Settled, WaitingIn
  <2>3. CASE status[j] \in InFlight /\ status'[j] = "pending"
    <3>1. \A d \in deps[j] : Passed(status[d])
      BY <2>3 DEF DependenciesDone, Passed
    <3>2. QED
      BY <2>1, <2>3, <3>1, PendingWhenPassed
  <2>4. QED
    BY <2>2, <2>3 DEF GivenOrBack, Waiting
<1>7. QED
  BY <1>3, <1>4, <1>5, <1>6 DEF Keeps

\* A requeued job comes back as pending.
LEMMA RequeueKeeps ==
  ASSUME TypeOK, DepsInv, NEW J \in SUBSET Jobs, NEW extra, RequeueAll(J, extra),
         \A j \in J : status[j] \in InFlight, UNCHANGED deps
  PROVE  Keeps
<1>1. \A j \in J : ComputeStatus(status, deps[j]) = "pending"
  <2>1. \A j \in J : \A d \in deps[j] : Passed(status[d])
    BY DEF DepsInv, DependenciesDone, Passed
  <2>2. QED
    BY <2>1, PendingWhenPassed
<1>2. \A j \in Jobs : GivenOrBack(j)
  BY <1>1 DEF RequeueAll, GivenOrBack
<1>3. QED
  BY <1>2, GivenOrBackKeeps

\* An operation that gives job j the status new, and perhaps other dependencies,
\* and calls refreshBlocked.
LEMMA RefreshKeeps ==
  ASSUME TypeOK, DepsInv,
         NEW j \in Jobs, status[j] \notin {"done", Absent},
         NEW new \in Status \ (InFlight \cup {Absent}),
         new \in {"done", "failed"} => status[j] \in InFlight /\ deps'[j] = deps[j],
         status' \in Refreshed([status EXCEPT ![j] = new], deps'),
         deps'[j] \subseteq Live(status),
         \A i \in Jobs : i # j => deps'[i] = deps[i]
  PROVE  Keeps
<1> USE DEF DepsInv
<1>1. /\ \A i \in Jobs : i # j => (status[i] \in Waiting <=> status'[i] \in Waiting)
      /\ \A i \in Jobs : i # j /\ status[i] \notin Waiting => status'[i] = status[i]
      /\ new \in Waiting => status'[j] \in Waiting
      /\ new \notin Waiting => status'[j] = new
      /\ Settled(WaitingIn(status'), status', deps')
  BY RefreshedStep
<1>2. \A i \in Jobs : status[i] = Absent <=> status'[i] = Absent
  BY <1>1 DEF Waiting, Absent
<1>3. DependenciesKnown'
  BY <1>2 DEF DependenciesKnown, Live
<1>4. DependenciesDone'
  <2> SUFFICES ASSUME NEW i \in Jobs, status'[i] \in InFlight \cup {"done", "failed"},
                      NEW d \in deps'[i]
               PROVE  status'[d] = "done"
    BY DEF DependenciesDone
  <2>1. status[i] \in InFlight \cup {"done", "failed"} /\ deps'[i] = deps[i]
    <3>1. CASE i = j
      BY <1>1, <3>1 DEF Waiting, InFlight
    <3>2. CASE i # j
      BY <1>1, <3>2 DEF Waiting, InFlight
    <3>3. QED
      BY <3>1, <3>2
  <2>2. status[d] = "done" /\ d \in Jobs
    BY <2>1 DEF DependenciesDone, TypeOK
  <2>3. QED
    BY <1>1, <2>2 DEF Waiting
<1>5. WaitingSettled'
  BY <1>1 DEF WaitingSettled
<1>6. WaitsRight'
  <2> SUFFICES ASSUME NEW i \in Jobs, status'[i] \in Waiting
               PROVE  status'[i] = "pending" <=> \A d \in deps'[i] : status'[d] = "done"
    BY DEF WaitsRight
  <2>1. status'[i] = ComputeStatus(status', deps'[i])
    BY <1>1 DEF Settled, WaitingIn
  <2>2. \A d \in deps'[i] : status'[d] # Absent
    BY <1>3 DEF DependenciesKnown, Live, Waiting, Absent
  <2>3. QED
    BY <2>1, <2>2, VerdictWaitsRight
<1>7. QED
  BY <1>3, <1>4, <1>5, <1>6 DEF Keeps

LEMMA SubmitKeeps ==
  ASSUME TypeOK, DepsInv, NEW q \in Requests, SubmitJob(q)
  PROVE  Keeps
<1>0. q.id \in Jobs /\ SameWork(q) \subseteq Jobs
  BY RequestsTyped DEF RequestType, SameWork, TypeOK
<1>1. CASE AddJob(q) /\ UNCHANGED <<status, deps>>
  BY <1>1 DEF Keeps, DepsInv, DependenciesKnown, DependenciesDone, WaitsRight, WaitingSettled
<1>2. CASE /\ AddJob(q)
           /\ status' = [status EXCEPT ![q.id] = ComputeStatus(status, q.deps)]
           /\ deps' = [deps EXCEPT ![q.id] = q.deps]
  <2> DEFINE j == q.id
  <2>1. /\ status[j] = Absent /\ q.deps \subseteq Live(status) \ {j}
        /\ status'[j] = ComputeStatus(status, q.deps) /\ deps'[j] = q.deps
        /\ \A i \in Jobs : i # j => status'[i] = status[i] /\ deps'[i] = deps[i]
    BY <1>0, <1>2 DEF AddJob, TypeOK
  <2>2. ComputeStatus(status, q.deps) \in Waiting
    BY VerdictWaits
  <2>3. \A i \in Jobs : j \notin deps'[i]
    BY <2>1 DEF DepsInv, DependenciesKnown, Live
  <2>4. \A i \in Jobs : deps'[i] \subseteq Jobs
    BY <2>1 DEF TypeOK, Live
  <2> HIDE DEF j
  <2>5. DependenciesKnown'
    BY <1>0, <2>1, <2>2 DEF DepsInv, DependenciesKnown, Live, Waiting, Absent, j
  <2>6. DependenciesDone'
    <3>1. \A i \in Jobs : status'[i] \in InFlight \cup {"done", "failed"} => i # j
      BY <2>1, <2>2 DEF Waiting, InFlight
    <3>2. QED
      BY <2>1, <2>3, <2>4, <3>1 DEF DepsInv, DependenciesDone
  <2>7. ASSUME NEW i \in Jobs
        PROVE  \A d \in deps'[i] : status'[d] = status[d]
    BY <2>1, <2>3, <2>4
  <2>8. WaitsRight'
    <3>1. ASSUME NEW i \in Jobs, i # j, status'[i] \in Waiting
          PROVE  status'[i] = "pending" <=> \A d \in deps'[i] : status'[d] = "done"
      BY <2>1, <2>7, <3>1 DEF DepsInv, WaitsRight
    <3>2. status'[j] = "pending" <=> \A d \in deps'[j] : status'[d] = "done"
      <4>1. status'[j] = "pending" <=> \A d \in q.deps : status[d] = "done"
        BY <2>1, VerdictWaitsRight DEF Live
      <4>2. QED
        BY <1>0, <2>1, <2>7, <4>1 DEF j
    <3>3. QED
      BY <3>1, <3>2 DEF WaitsRight
  <2>9. ASSUME WaitingSettled
        PROVE  WaitingSettled'
    <3>1. \A i \in Jobs : ComputeStatus(status, deps'[i]) = ComputeStatus(status', deps'[i])
      BY <2>7, SameVerdict
    <3>2. \A i \in Jobs : status'[i] \in Waiting => status'[i] = ComputeStatus(status, deps'[i])
      BY <2>1, <2>9 DEF WaitingSettled, Settled, WaitingIn
    <3>3. QED
      BY <3>1, <3>2 DEF WaitingSettled, Settled, WaitingIn
  <2>10. QED
    BY <2>5, <2>6, <2>8, <2>9 DEF Keeps, DepsInv
<1>3. ASSUME NEW j \in SameWork(q), RetryJob(q, j)
      PROVE  Keeps
  <2>1. status[j] \notin {"done", Absent}
    BY <1>3 DEF RetryJob, MayRetry, MayRunAgain, Absent
  <2>2. /\ ComputeStatus(status, q.deps) \in Status \ (InFlight \cup {Absent})
        /\ ComputeStatus(status, q.deps) \notin {"done", "failed"}
    BY VerdictWaits DEF Status, InFlight, Waiting, Absent
  <2>3. /\ status' \in Refreshed([status EXCEPT ![j] = ComputeStatus(status, q.deps)], deps')
        /\ deps'[j] \subseteq Live(status)
        /\ \A i \in Jobs : i # j => deps'[i] = deps[i]
    BY <1>0, <1>3 DEF RetryJob, MayRetry, TypeOK
  <2>4. QED
    BY <1>0, <2>1, <2>2, <2>3, RefreshKeeps
<1>4. QED
  BY <1>1, <1>2, <1>3 DEF SubmitJob, AddJob

\* RequeueJob, ReplanRobot, AckStop, and a heartbeat that is taken for a fault.
LEMMA WayBackKeeps ==
  ASSUME TypeOK, DepsInv,
         \/ \E j \in Jobs, r \in Robots \cup {NoRobot} : RequeueJob(j, r)
         \/ \E r \in Robots : ReplanRobot(r)
         \/ \E r \in Robots, j \in Jobs : AckStop(r, j)
         \/ \E p \in Reports : UpdateRobot(p)
  PROVE  Keeps
<1>1. ASSUME NEW j \in Jobs, NEW r, RequeueJob(j, r) \/ AckStop(r, j)
      PROVE  Keeps
  BY <1>1, RequeueKeeps DEF RequeueJob, AckStop
<1>2. ASSUME NEW r, NEW st \in {InFlight, {"assigned"}}, NEW extra,
             RequeueAll(HeldJobs(r, st), extra), UNCHANGED deps
      PROVE  Keeps
  <2>1. /\ HeldJobs(r, st) \in SUBSET Jobs
        /\ \A j \in HeldJobs(r, st) : status[j] \in InFlight
    BY DEF HeldJobs, InFlight
  <2>2. QED
    BY <1>2, <2>1, RequeueKeeps
<1>3. ASSUME NEW r \in Robots, ReplanRobot(r)
      PROVE  Keeps
  BY <1>2, <1>3 DEF ReplanRobot
<1>4. ASSUME NEW p \in Reports, UpdateRobot(p)
      PROVE  Keeps
  <2>1. CASE UNCHANGED <<status, deps>>
    BY <2>1, GivenOrBackKeeps DEF GivenOrBack
  <2>2. CASE RequeueAll(HeldJobs(p.robot, {"assigned"}), {p.robot}) /\ UNCHANGED deps
    BY <1>2, <2>2
  <2>3. QED
    BY <1>4, <2>1, <2>2 DEF UpdateRobot, Register, Heartbeat, jobVars
<1>5. QED
  BY <1>1, <1>3, <1>4

LEMMA DispatchKeeps ==
  ASSUME TypeOK, DepsInv, NEW refused, NEW confirmed, DispatchOnce(refused, confirmed)
  PROVE  Keeps
<1>1. PICK pass :
        status' = [j \in Jobs |-> IF j \in Won(pass, refused) THEN "assigned" ELSE status[j]]
  BY DEF DispatchOnce, Assign
<1>2. \A j \in Won(pass, refused) : status[j] = "pending"
  BY DEF Won, Pending
<1>3. UNCHANGED deps
  BY DEF DispatchOnce, Assign
<1>4. QED
  BY <1>1, <1>2, <1>3, GivenOrBackKeeps DEF GivenOrBack

LEMMA StaleKeeps ==
  ASSUME TypeOK, DepsInv, NEW S, DetectStale(S)
  PROVE  Keeps
<1>1. \A j \in Jobs : status[j] = "assigned" => ComputeStatus(status, deps[j]) = "pending"
  <2>1. \A j \in Jobs : status[j] = "assigned" => \A d \in deps[j] : Passed(status[d])
    BY DEF DepsInv, DependenciesDone, Passed, InFlight
  <2>2. QED
    BY <2>1, PendingWhenPassed
<1>2. \A j \in Jobs :
        \/ status'[j] = status[j]
        \/ status[j] = "assigned" /\ status'[j] = "unknown"
        \/ status[j] = "assigned" /\ status'[j] = ComputeStatus(status, deps[j])
  BY DEF DetectStale
<1>3. UNCHANGED deps
  BY DEF DetectStale
<1>4. \A j \in Jobs : GivenOrBack(j)
  BY <1>1, <1>2 DEF GivenOrBack, InFlight
<1>5. QED
  BY <1>3, <1>4, GivenOrBackKeeps

LEMMA CompleteKeeps ==
  ASSUME TypeOK, DepsInv, NEW j \in Jobs, NEW r, NEW n, NEW success,
         CompleteJobAttempt(j, r, n, success)
  PROVE  Keeps
<1> DEFINE new == IF success THEN "done" ELSE "failed"
<1>1. new \in Status \ (InFlight \cup {Absent})
  BY DEF Status, Finished, InFlight, Absent
<1>2. status[j] \in InFlight /\ status[j] \notin {"done", Absent}
  BY DEF CompleteJobAttempt, InFlight, Absent
<1>3. /\ status' \in Refreshed([status EXCEPT ![j] = new], deps')
      /\ \A i \in Jobs : deps'[i] = deps[i]
  BY DEF CompleteJobAttempt
<1>4. deps'[j] \subseteq Live(status)
  BY <1>2, <1>3 DEF DepsInv, DependenciesKnown
<1>5. QED
  BY <1>1, <1>2, <1>3, <1>4, RefreshKeeps

LEMMA CancelKeeps ==
  ASSUME TypeOK, DepsInv, NEW j \in Jobs, CancelJob(j)
  PROVE  Keeps
<1>1. "cancelled" \in Status \ (InFlight \cup {Absent}) /\ "cancelled" \notin {"done", "failed"}
  BY DEF Status, Finished, InFlight, Absent
<1>2. status[j] \notin {"done", Absent}
  BY DEF CancelJob, Waiting, Absent
<1>3. /\ status' \in Refreshed([status EXCEPT ![j] = "cancelled"], deps')
      /\ \A i \in Jobs : deps'[i] = deps[i]
  BY DEF CancelJob
<1>4. deps'[j] \subseteq Live(status)
  BY <1>2, <1>3 DEF DepsInv, DependenciesKnown
<1>5. QED
  BY <1>1, <1>2, <1>3, <1>4, RefreshKeeps

\* The jobs that stay depend on none that goes: they see the same statuses.
LEMMA ArchiveKeeps ==
  ASSUME TypeOK, DepsInv, NEW old, ArchiveFinished(old)
  PROVE  Keeps
<1> DEFINE C == Archivable(old)
<1>1. \A i \in Jobs : /\ status'[i] = IF i \in C THEN Absent ELSE status[i]
                      /\ deps'[i] = IF i \in C THEN {} ELSE deps[i]
  BY DEF ArchiveFinished
<1>2. \A i \in Jobs : deps[i] \cap C = {} \/ i \in C
  BY ArchivableAlone DEF DepsInv, DependenciesKnown, Live
<1> HIDE DEF C
<1>3. \A i \in Jobs : i \notin C => \A d \in deps[i] : d \in Jobs /\ status'[d] = status[d]
  BY <1>1, <1>2 DEF TypeOK
<1>4. DependenciesKnown'
  BY <1>1, <1>3 DEF DepsInv, DependenciesKnown, Live
<1>5. DependenciesDone'
  BY <1>1, <1>3 DEF DepsInv, DependenciesDone, InFlight, Absent
<1>6. WaitsRight'
  BY <1>1, <1>3 DEF DepsInv, WaitsRight, Waiting, Absent
<1>7. ASSUME WaitingSettled
      PROVE  WaitingSettled'
  <2>1. \A i \in Jobs : i \notin C => ComputeStatus(status, deps[i]) = ComputeStatus(status', deps'[i])
    BY <1>1, <1>3, SameVerdict
  <2>2. \A i \in Jobs : status'[i] \in Waiting => i \notin C
    BY <1>1 DEF Waiting, Absent
  <2>3. QED
    BY <1>1, <1>7, <2>1, <2>2 DEF WaitingSettled, Settled, WaitingIn
<1>8. QED
  BY <1>4, <1>5, <1>6, <1>7 DEF Keeps, DepsInv

LEMMA DepsNext ==
  ASSUME TypeOK, DepsInv, [Next]_vars
  PROVE  Keeps
<1>1. CASE \/ \E r \in Robots : RemoveRobot(r) \/ FallSilent(r)
           \/ \E j \in Jobs : StopDeadline(j)
           \/ \E c \in ReplanConfigs : SetReplan(c)
           \/ UNCHANGED vars
  <2>1. UNCHANGED <<status, deps>>
    BY <1>1 DEF RemoveRobot, FallSilent, StopDeadline, SetReplan, vars, jobVars
  <2>2. QED
    BY <2>1, GivenOrBackKeeps DEF GivenOrBack
<1>2. QED
  BY <1>1, SubmitKeeps, WayBackKeeps, DispatchKeeps, CompleteKeeps, CancelKeeps,
     StaleKeeps, ArchiveKeeps DEF Next

-----------------------------------------------------------------------------
QueueInv == TypeOK /\ DepsInv /\ Acyclic /\ WaitingSettled

LEMMA QueueInit == Init => QueueInv
<1>1. Init => TypeOK
  BY TypedInit
<1>2. Init => DepsInv /\ WaitingSettled
  BY DEF Init, DepsInv, DependenciesKnown, DependenciesDone, WaitsRight, WaitingSettled,
     Settled, WaitingIn, Waiting, InFlight, Absent
<1>3. Init => Acyclic
  BY DEF Init, Acyclic, AcyclicIn
<1>4. QED
  BY <1>1, <1>2, <1>3 DEF QueueInv

LEMMA QueueNext == QueueInv /\ [Next]_vars => QueueInv'
<1>1. QueueInv => DependenciesKnown
  BY DEF QueueInv, DepsInv
<1>2. QED
  BY <1>1, TypedNext, DepsNext, AcyclicNext DEF QueueInv, Keeps

LEMMA QueueHolds == Spec => []QueueInv
BY QueueInit, QueueNext, PTL DEF Spec

\* What a job depends on stays in the queue as long as the job does: the archive
\* never takes it, and no retry names a job that is not there.
THEOREM DependenciesStayKnown == Spec => []DependenciesKnown
<1>1. QueueInv => DependenciesKnown
  BY DEF QueueInv, DepsInv
<1>2. QED
  BY <1>1, QueueHolds, PTL

\* No job is given to a robot before everything it depends on is done, and none
\* of that is undone later, although DispatchOnce looks only at the status.
THEOREM DependenciesDoneFirst == Spec => []DependenciesDone
<1>1. QueueInv => DependenciesDone
  BY DEF QueueInv, DepsInv
<1>2. QED
  BY <1>1, QueueHolds, PTL

\* The verdict of every waiting job is up to date between two operations,
\* although only three of them call refreshBlocked.
THEOREM VerdictsUpToDate == Spec => []WaitingSettled
<1>1. QueueInv => WaitingSettled
  BY DEF QueueInv
<1>2. QED
  BY <1>1, QueueHolds, PTL

\* No job ever depends on itself through others, although a retry may replace
\* the dependencies of a job that others depend on.
THEOREM NeverCyclic == Spec => []Acyclic
<1>1. QueueInv => Acyclic
  BY DEF QueueInv
<1>2. QED
  BY <1>1, QueueHolds, PTL
=============================================================================
