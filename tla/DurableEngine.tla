---------------------------- MODULE DurableEngine ----------------------------
(***************************************************************************)
(* JobEngine with its store (dispatcher.go Store and BatchStore, and       *)
(* sqlitestore.go): what each operation writes, writes that are refused, a *)
(* crash before, after or between the writes of an operation, and the next *)
(* start, which loads what is on disk (NewEngineWithStore).                *)
(*                                                                         *)
(* A crash loses everything in memory, so a crash and the start after it   *)
(* are one step: the memory becomes what the disk then holds.  An          *)
(* operation that writes nothing, one record, or one transaction has no    *)
(* point in between.                                                       *)
(***************************************************************************)
EXTENDS JobEngine

CONSTANTS
  MaxCrash   \* bound: times the process is killed and started again

ASSUME CrashTyped == MaxCrash \in Nat

VARIABLES
  diskJobs, diskRobots,  \* the tables "jobs" (rows that are not archived) and "robots"
  crashes,               \* how often the process was started again
  told                   \* ghost: the last attempt of each job that was told to a robot

durableVars == <<vars, diskJobs, diskRobots, crashes, told>>

\* Mutant: the column "attempt" is forgotten.
JobRecordUncounted(j) ==
  [status |-> status[j], robotOf |-> robotOf[j], attempt |-> 0, ask |-> ask[j],
   deps |-> deps[j], seq |-> seq[j], key |-> key[j]]

\* A row of "jobs": saveJob.  A job that is not in the queue has no live row.
JobRecord(j) ==
  [status |-> status[j], robotOf |-> robotOf[j], attempt |-> attempt[j], ask |-> ask[j],
   deps |-> deps[j], seq |-> seq[j], key |-> key[j]]

\* A row of "robots": saveRobot.  selfReportedUnavailable and StopCapable have
\* no column.
RobotRecord(r) ==
  [known |-> r \in known, available |-> available[r], load |-> load[r],
   tool |-> body[r].tool, location |-> body[r].location]

DurableInit ==
  /\ Init
  /\ diskJobs = [j \in Jobs |-> JobRecord(j)]
  /\ diskRobots = [r \in Robots |-> RobotRecord(r)]
  /\ crashes = 0
  /\ told = [j \in Jobs |-> 0]

-----------------------------------------------------------------------------
\* Writing.

\* The rows of J and R hold what the operation leaves in memory.
Saved(J, R) ==
  /\ diskJobs' = [j \in Jobs |-> IF j \in J THEN JobRecord(j)' ELSE diskJobs[j]]
  /\ diskRobots' = [r \in Robots |-> IF r \in R THEN RobotRecord(r)' ELSE diskRobots[r]]
  /\ UNCHANGED crashes

\* Mutant: a batch is written one record at a time.
SavedTogetherOneByOne(J, R) ==
  \E J2 \in SUBSET J, R2 \in SUBSET R : Saved(J2, R2)

\* commitBatchLocked with a BatchStore: all of it, or nothing when it fails.
SavedTogether(J, R) ==
  \/ Saved(J, R)
  \/ StoreMayFail /\ Saved({}, {})

\* One write per record, each of which may fail by itself.
SavedEach(J, R) ==
  \E J2 \in SUBSET J, R2 \in SUBSET R :
    /\ StoreMayFail \/ (J2 = J /\ R2 = R)
    /\ Saved(J2, R2)

Moved == {j \in Jobs : status'[j] # status[j]}

\* The robots that lost a job in this step.
RobotsLeft == {robotOf[j] : j \in {i \in Jobs : robotOf'[i] # robotOf[i]}} \ {NoRobot}

-----------------------------------------------------------------------------
\* The operations with their writes.

\* The write of a new job decides whether it exists; a retry has been decided.
DurableSubmit(q) ==
  /\ \/ SameWork(q) = {} /\ AddJob(q) /\ Saved({q.id}, {})
     \/ \E j \in SameWork(q) : RetryJob(q, j) /\ SavedEach({j} \cup Moved, {})
  /\ UNCHANGED told

\* A fault is a batch, and the heartbeat writes the robot once more.
DurableUpdate(p) ==
  /\ UpdateRobot(p)
  /\ \/ Moved # {} /\ SavedTogether(Moved, {p.robot})
     \/ (Moved = {} \/ StoreMayFail) /\ SavedEach({}, {p.robot})
  /\ UNCHANGED told

DurableRemove(r) ==
  /\ RemoveRobot(r) /\ Saved({}, {r})
  /\ UNCHANGED told

\* What a rolled back assignment leaves of its robot on disk: nothing when the
\* robot was refused, else the record as it was before the pass, or, when the
\* write that takes the reservation back is refused too, the reservation.
Undone(pass, refused) ==
  LET tried == {pass[j] : j \in Pending \cap refused} \ {NoRobot}
  IN  \E left \in [tried -> {"untouched", "given back", "reserved"}] :
        diskRobots' = [r \in Robots |->
          IF r \in ReservedBy(pass, refused) THEN RobotRecord(r)'
          ELSE IF r \notin tried \/ left[r] = "untouched" THEN diskRobots[r]
          ELSE IF left[r] = "given back" THEN RobotRecord(r)
          ELSE [RobotRecord(r) EXCEPT !.available = FALSE]]

\* The pass; the assignments it returns are told to the robots.
DurableDispatch(refused, confirmed) ==
  \E pass \in Passes :
    LET won == Won(pass, refused)
    IN  /\ Assign(pass, refused, confirmed)
        /\ diskJobs' = [j \in Jobs |-> IF j \in won THEN JobRecord(j)' ELSE diskJobs[j]]
        /\ Undone(pass, refused)
        /\ told' = [j \in Jobs |-> IF j \in won THEN attempt'[j] ELSE told[j]]
        /\ UNCHANGED crashes

DurableComplete(j, r, n, success) ==
  CompleteJobAttempt(j, r, n, success) /\ SavedTogether(Moved, {r}) /\ UNCHANGED told

DurableCancel(j) == CancelJob(j) /\ SavedTogether(Moved, {}) /\ UNCHANGED told

\* Mutant: the robots of the jobs are not written.
DurableWayBackJobs(R) == SavedTogether(Moved, {}) /\ UNCHANGED told

\* RequeueJob, ReplanRobot and AckStop: the jobs and their robots in one batch.
DurableWayBack(R) ==
  SavedTogether(Moved, (RobotsLeft \cap known) \cup R) /\ UNCHANGED told

\* A sweep makes two batches: the jobs that go back, then those now unknown.
DurableStale(S) ==
  LET back    == {j \in Jobs : robotOf'[j] # robotOf[j]}
      unknown == Moved \ back
  IN  /\ DetectStale(S)
      /\ \E B, U \in BOOLEAN :
           /\ StoreMayFail \/ (B /\ U)
           /\ Saved((IF B THEN back ELSE {}) \cup (IF U THEN unknown ELSE {}),
                    IF B THEN RobotsLeft ELSE {})
      /\ UNCHANGED told

\* Mutant: archived jobs stay in the table of the queue.
DurableArchiveMemory(old) ==
  /\ ArchiveFinished(old)
  /\ Saved({}, {})
  /\ told' = [j \in Jobs |-> IF j \in Archivable(old) THEN 0 ELSE told[j]]

\* The archive is written first, in one transaction.
DurableArchive(old) ==
  /\ ArchiveFinished(old)
  /\ Saved(Archivable(old), {})
  /\ told' = [j \in Jobs |-> IF j \in Archivable(old) THEN 0 ELSE told[j]]

-----------------------------------------------------------------------------
\* Crashes.

IndexLoaded(rows) == [k \in Keys |-> {j \in Jobs : rows[j].status # Absent /\ rows[j].key = k}]

NextLoaded(rows) ==
  LET live == {j \in Jobs : rows[j].status # Absent}
  IN  IF live = {} THEN 0
      ELSE (CHOOSE n \in {rows[j].seq : j \in live} : \A j \in live : rows[j].seq <= n) + 1

\* NewEngineWithStore on the tables rows and robots, and the configuration of
\* the file.  Robots may have fallen silent while the service was down.
Started(rows, robots) ==
  /\ crashes < MaxCrash /\ crashes' = crashes + 1
  /\ diskJobs' = rows /\ diskRobots' = robots
  /\ status' = [j \in Jobs |-> rows[j].status]
  /\ robotOf' = [j \in Jobs |-> rows[j].robotOf]
  /\ attempt' = [j \in Jobs |-> rows[j].attempt]
  /\ ask' = [j \in Jobs |-> rows[j].ask]
  /\ deps' = [j \in Jobs |-> rows[j].deps]
  /\ seq' = [j \in Jobs |-> rows[j].seq]
  /\ key' = [j \in Jobs |-> rows[j].key]
  /\ nextSeq' = NextLoaded(rows)
  /\ dedupIndex' = IndexLoaded(rows)
  /\ known' = {r \in Robots : robots[r].known}
  /\ available' = [r \in Robots |-> robots[r].available]
  /\ held' = [r \in Robots |-> FALSE]
  /\ load' = [r \in Robots |-> robots[r].load]
  /\ body' = [r \in Robots |-> [tool |-> robots[r].tool, location |-> robots[r].location,
                                stopCapable |-> FALSE]]
  /\ \E silent \in IF FreshnessOn THEN SUBSET Robots ELSE {{}} :
       heard' = [r \in Robots |-> heard[r] /\ r \in known' \ silent]
  /\ stopReq' = [j \in Jobs |-> NoStop]
  /\ replan' \in ReplanConfigs
  /\ UNCHANGED told

Crash == Started(diskJobs, diskRobots)

\* Mutant: the job is written before its robot.
WrittenJobFirst(pass, won, k, whole) ==
  [jobs   |-> {j \in won : j = k \/ Before(j, k)},
   robots |-> {pass[j] : j \in {i \in won : Before(i, k) \/ (whole /\ i = k)}}]

\* What is on disk when the pass is killed while it gives k away: all earlier
\* assignments, and of this one the robot, then the job as well.
Written(pass, won, k, whole) ==
  [jobs   |-> {j \in won : Before(j, k) \/ (whole /\ j = k)},
   robots |-> {pass[j] : j \in {i \in won : i = k \/ Before(i, k)}}]

\* The pass is killed: no robot is told of any assignment.
CrashInDispatch(refused, confirmed) ==
  \E pass \in Passes, whole \in BOOLEAN :
    \E k \in Won(pass, refused) :
      LET done == Written(pass, Won(pass, refused), k, whole)
      IN  /\ IsPass(pass, refused, confirmed)
          /\ \A j \in done.jobs : attempt[j] < MaxAttempt
          /\ Started(
               [j \in Jobs |-> IF j \in done.jobs
                  THEN [JobRecord(j) EXCEPT !.status = "assigned", !.robotOf = pass[j],
                                            !.attempt = attempt[j] + 1]
                  ELSE diskJobs[j]],
               [r \in Robots |-> IF r \in done.robots
                  THEN [RobotRecord(r) EXCEPT !.available = FALSE]
                  ELSE diskRobots[r]])

\* The retry q of j is killed after j was written, with some of its dependents.
CrashInRetry(q, j) ==
  LET judged == [status EXCEPT ![j] = ComputeStatus(status, q.deps)]
  IN  /\ MayRetry(q, j)
      /\ \E st \in Refreshed(judged, [deps EXCEPT ![j] = q.deps]) :
         \E J \in SUBSET {i \in Jobs \ {j} : st[i] # status[i]} :
           Started(
             [i \in Jobs |->
                IF i = j THEN [JobRecord(j) EXCEPT !.ask = q.ask, !.deps = q.deps,
                                                   !.robotOf = NoRobot, !.status = st[j]]
                ELSE IF i \in J THEN [JobRecord(i) EXCEPT !.status = st[i]]
                ELSE diskJobs[i]],
             diskRobots)

-----------------------------------------------------------------------------
DurableNext ==
  \/ \E q \in Requests : DurableSubmit(q)
  \/ \E p \in Reports : DurableUpdate(p)
  \/ \E r \in Robots : DurableRemove(r)
  \/ \E refused \in Refusals, confirmed \in Confirmations :
       DurableDispatch(refused, confirmed)
  \/ \E j \in Jobs, r \in Robots, n \in 0 .. MaxAttempt, success \in BOOLEAN :
       DurableComplete(j, r, n, success)
  \/ \E j \in Jobs : DurableCancel(j)
  \/ \E j \in Jobs : RequeueJob(j, NoRobot) /\ DurableWayBack({})
  \/ \E r \in Robots : ReplanRobot(r) /\ DurableWayBack({r})
  \/ \E r \in Robots, j \in Jobs : AckStop(r, j) /\ DurableWayBack({})
  \/ \E S \in Sweeps : DurableStale(S)
  \/ \E old \in SUBSET {j \in Jobs : status[j] \in Finished} : DurableArchive(old)
  \/ /\ \/ \E r \in Robots : FallSilent(r)
        \/ \E j \in Jobs : StopDeadline(j)
        \/ \E c \in ReplanConfigs : SetReplan(c)
     /\ UNCHANGED <<diskJobs, diskRobots, crashes, told>>
  \/ Crash
  \/ \E refused \in Refusals, confirmed \in Confirmations :
       CrashInDispatch(refused, confirmed)
  \/ \E q \in Requests : \E j \in SameWork(q) : CrashInRetry(q, j)

DurableSpec == DurableInit /\ [][DurableNext]_durableVars

-----------------------------------------------------------------------------
\* With a store that works, the disk holds the queue and the registry between
\* any two operations: no operation forgets to write a record it changed, and a
\* start puts the next job behind all those it finds (NewEngineWithStore).
DiskIsCurrent ==
  /\ ~StoreMayFail => /\ diskJobs = [j \in Jobs |-> JobRecord(j)]
                      /\ diskRobots = [r \in Robots |-> RobotRecord(r)]
  /\ \A j \in Live(status) : seq[j] <= nextSeq

\* Whatever writes are refused, the disk holds the very jobs of the queue, with
\* their places, keys and attempts: a start neither loses nor revives a job, and
\* it finds each by its key.
SameJobs ==
  \A j \in Jobs : /\ diskJobs[j].status = Absent <=> status[j] = Absent
                  /\ diskJobs[j].seq = seq[j]
                  /\ diskJobs[j].key = key[j]
                  /\ diskJobs[j].attempt = attempt[j]

\* No attempt of a job is told to a robot twice: a late report of an attempt
\* that was given up can be told from the current one, after any crash and any
\* refused write, until the job is archived.
NoAttemptTwice ==
  [][\A j \in Jobs : (GivenBy(j) /\ crashes' = crashes) => attempt'[j] > told[j]]_durableVars

\* No job waits for dependencies that are all done, whatever a crash left of a
\* completion or of a retry: a start judges nobody again (NewEngineWithStore), so
\* such a job would wait until some other job of the queue ends.
WaitsForSomething ==
  \A j \in Jobs : status[j] \in {"blocked", "unreachable"} => \E d \in deps[j] : status[d] # "done"

=============================================================================
