---------------------------- MODULE DurableProofs ----------------------------
(***************************************************************************)
(* Theorems about DurableEngine: what is on disk when the process is       *)
(* killed at any point, and what the next start makes of it.               *)
(*                                                                         *)
(* The first part holds whatever writes the store refuses.  The second is  *)
(* about a store that takes every write, and lets the process be killed    *)
(* between the writes of a pass and of a retry.                            *)
(***************************************************************************)
EXTENDS DurableEngine, LifecycleProofs, FiniteSetTheorems

-----------------------------------------------------------------------------
\* A finite set of places has a last one: the sets of those above each of its
\* members are ordered by inclusion, and a smallest one of them is empty.
LEMMA LastPlace ==
  ASSUME NEW S \in SUBSET Nat, S # {}, IsFiniteSet(S)
  PROVE  \E n \in S : \A m \in S : m <= n
<1> DEFINE Above(n) == {m \in S : n < m}
           T == {Above(n) : n \in S}
           R == StrictSubsetOrdering(S)
           FS == FiniteSubsetsOf(S)
<1>1. IsWellFoundedOn(R, FS)
  BY FS_StrictSubsetOrderingWellFounded
<1>2. T \subseteq FS /\ T # {}
  <2>1. \A n \in S : Above(n) \subseteq S /\ IsFiniteSet(Above(n))
    BY FS_Subset
  <2>2. QED
    BY <2>1 DEF FiniteSubsetsOf
<1> HIDE DEF R, FS, T
<1>3. PICK x \in T : \A y \in T : ~(<<y, x>> \in R)
  BY <1>1, <1>2, WFMin
<1>4. PICK n \in S : x = Above(n)
  BY DEF T
<1>5. ASSUME NEW m \in S, n < m
      PROVE  FALSE
  <2>1. Above(m) \in T
    BY DEF T
  <2>2. Above(m) \subseteq Above(n)
    <3>1. n \in Nat /\ m \in Nat /\ \A k \in S : k \in Nat
      OBVIOUS
    <3>2. \A k \in S : m < k => n < k
      BY <1>5, <3>1
    <3>3. QED
      BY <3>2
  <2>3. m \in Above(n) /\ m \notin Above(m)
    BY <1>5
  <2>4. <<Above(m), Above(n)>> \in R
    BY <2>2, <2>3 DEF R, StrictSubsetOrdering
  <2>5. QED
    BY <1>3, <1>4, <2>1, <2>4
<1>6. QED
  BY <1>5

-----------------------------------------------------------------------------
\* Rows.

JobRow == [status : Status, robotOf : Robots \cup {NoRobot}, attempt : Nat, ask : AskType,
           deps : SUBSET Jobs, seq : Nat, key : Keys \cup {NoKey}]

RobotRow == [known : BOOLEAN, available : BOOLEAN, load : Nat,
             tool : Tools \cup {NoTool}, location : Place]

DiskTyped ==
  /\ diskJobs \in [Jobs -> JobRow] /\ diskRobots \in [Robots -> RobotRow]
  /\ crashes \in Nat /\ told \in [Jobs -> Nat]

LEMMA RecordsTyped ==
  /\ TypeOK => /\ \A j \in Jobs : JobRecord(j) \in JobRow
               /\ \A r \in Robots : RobotRecord(r) \in RobotRow
  /\ TypeOK' => /\ \A j \in Jobs : JobRecord(j)' \in JobRow
                /\ \A r \in Robots : RobotRecord(r)' \in RobotRow
BY DEF TypeOK, JobRecord, RobotRecord, JobRow, RobotRow, BodyType

-----------------------------------------------------------------------------
\* What a step does to memory and disk, whatever writes are refused: it writes
\* the rows of some jobs and leaves what the others are known by, or the process
\* is killed and started on rows of the very jobs it had.

SameBook(j) ==
  /\ status'[j] = Absent <=> status[j] = Absent
  /\ seq'[j] = seq[j] /\ key'[j] = key[j] /\ attempt'[j] = attempt[j]

JobsWritten ==
  \E J :
    /\ diskJobs' = [j \in Jobs |-> IF j \in J THEN JobRecord(j)' ELSE diskJobs[j]]
    /\ \A j \in Jobs : j \notin J => SameBook(j)

RobotsWritten ==
  /\ diskRobots' = [r \in Robots |-> diskRobots'[r]]
  /\ \A r \in Robots : diskRobots'[r] \in {diskRobots[r], RobotRecord(r), RobotRecord(r)',
                                           [RobotRecord(r) EXCEPT !.available = FALSE]}

\* A job keeps the number it was told with, or is told with its new one.
ToldKept ==
  /\ told' = [j \in Jobs |-> told'[j]]
  /\ \A j \in Jobs : \/ told'[j] = told[j] /\ attempt'[j] = attempt[j]
                     \/ told'[j] = attempt'[j]

RunsOn == Next /\ JobsWritten /\ RobotsWritten /\ ToldKept /\ UNCHANGED crashes

SameRows(rows) ==
  \A j \in Jobs : /\ rows[j].status = Absent <=> status[j] = Absent
                  /\ rows[j].seq = seq[j]
                  /\ rows[j].key = key[j]
                  /\ rows[j].attempt >= attempt[j]

Killed == \E rows \in [Jobs -> JobRow], robots \in [Robots -> RobotRow] :
            SameRows(rows) /\ Started(rows, robots)

LEMMA SavedWrites ==
  ASSUME NEW J, NEW R, Saved(J, R), \A j \in Jobs : j \notin J => SameBook(j)
  PROVE  JobsWritten /\ RobotsWritten /\ UNCHANGED crashes
<1>1. diskRobots' = [r \in Robots |-> IF r \in R THEN RobotRecord(r)' ELSE diskRobots[r]]
  BY DEF Saved
<1>2. RobotsWritten
  BY <1>1 DEF RobotsWritten
<1>3. QED
  BY <1>2 DEF Saved, JobsWritten

\* However many of the writes are refused.
LEMMA SavedSomeWrite ==
  ASSUME NEW J, NEW R, SavedTogether(J, R) \/ SavedEach(J, R), \A j \in Jobs : SameBook(j)
  PROVE  JobsWritten /\ RobotsWritten /\ UNCHANGED crashes
BY SavedWrites DEF SavedTogether, SavedEach

LEMMA BookKept ==
  ASSUME SameQueue, UNCHANGED attempt
  PROVE  \A j \in Jobs : SameBook(j)
BY DEF SameQueue, SameBook

LEMMA ToldStays ==
  ASSUME DiskTyped, UNCHANGED <<told, attempt>>
  PROVE  ToldKept
BY DEF DiskTyped, ToldKept

\* An operation that neither adds nor archives a job, counts no attempt, tells
\* nobody anything, and writes some rows or none.
LEMMA OrdinaryWrite ==
  ASSUME TypeOK, DiskTyped, OnTheSameQueue, UNCHANGED <<attempt, told>>,
         \E J, R : Saved(J, R) \/ SavedTogether(J, R) \/ SavedEach(J, R)
  PROVE  JobsWritten /\ RobotsWritten /\ ToldKept /\ UNCHANGED crashes
<1>1. \A j \in Jobs : SameBook(j)
  BY SameQueueKept, BookKept
<1>2. ToldKept
  BY ToldStays
<1>3. QED
  BY <1>1, <1>2, SavedWrites, SavedSomeWrite

LEMMA SubmitWrites ==
  ASSUME TypeOK, DiskTyped, NEW q \in Requests, DurableSubmit(q)
  PROVE  JobsWritten /\ RobotsWritten /\ ToldKept /\ UNCHANGED crashes
<1>1. CASE SameWork(q) = {} /\ AddJob(q) /\ Saved({q.id}, {})
  <2>1. UNCHANGED <<attempt, told>>
    BY <1>1 DEF AddJob, DurableSubmit
  <2>2. \A j \in Jobs : j \notin {q.id} => SameBook(j)
    BY <1>1 DEF AddJob, SameBook, TypeOK
  <2>3. QED
    BY <1>1, <2>1, <2>2, SavedWrites, ToldStays
<1>2. CASE \E j \in SameWork(q) : RetryJob(q, j) /\ SavedEach({j} \cup Moved, {})
  <2>1. UNCHANGED <<attempt, told>>
    BY <1>2 DEF RetryJob, DurableSubmit
  <2>2. OnTheSameQueue
    BY <1>2 DEF OnTheSameQueue
  <2>3. QED
    BY <1>2, <2>1, <2>2, OrdinaryWrite
<1>3. QED
  BY <1>1, <1>2 DEF DurableSubmit

LEMMA DispatchWrites ==
  ASSUME TypeOK, DiskTyped, NEW refused, NEW confirmed, DurableDispatch(refused, confirmed)
  PROVE  JobsWritten /\ RobotsWritten /\ ToldKept /\ UNCHANGED crashes
<1>1. PICK pass \in Passes :
        LET won == Won(pass, refused)
        IN  /\ Assign(pass, refused, confirmed)
            /\ diskJobs' = [j \in Jobs |-> IF j \in won THEN JobRecord(j)' ELSE diskJobs[j]]
            /\ Undone(pass, refused)
            /\ told' = [j \in Jobs |-> IF j \in won THEN attempt'[j] ELSE told[j]]
            /\ UNCHANGED crashes
  BY DEF DurableDispatch
<1> DEFINE won == Won(pass, refused)
<1>2. \A j \in Jobs : j \notin won => SameBook(j)
  <2>1. SameQueue
    BY <1>1, SameQueueKept DEF OnTheSameQueue, DispatchOnce
  <2>2. \A j \in Jobs : attempt'[j] = IF j \in won THEN attempt[j] + 1 ELSE attempt[j]
    BY <1>1 DEF Assign, Counted
  <2>3. QED
    BY <2>1, <2>2 DEF SameQueue, SameBook
<1>3. RobotsWritten
  BY <1>1 DEF Undone, RobotsWritten
<1>4. ToldKept
  BY <1>1, <1>2 DEF ToldKept, SameBook
<1>5. QED
  BY <1>1, <1>2, <1>3, <1>4 DEF JobsWritten

LEMMA ArchiveWrites ==
  ASSUME TypeOK, DiskTyped, NEW old, DurableArchive(old)
  PROVE  JobsWritten /\ RobotsWritten /\ ToldKept /\ UNCHANGED crashes
<1>1. \A j \in Jobs : j \notin Archivable(old) => SameBook(j)
  BY DEF DurableArchive, ArchiveFinished, SameBook
<1>2. ToldKept
  BY DEF DurableArchive, ArchiveFinished, ToldKept
<1>3. QED
  BY <1>1, <1>2, SavedWrites DEF DurableArchive

LEMMA OperationWrites ==
  ASSUME TypeOK, DiskTyped,
         \/ \E p \in Reports : DurableUpdate(p)
         \/ \E r \in Robots : DurableRemove(r)
         \/ \E j \in Jobs, r \in Robots, n \in 0 .. MaxAttempt, success \in BOOLEAN :
              DurableComplete(j, r, n, success)
         \/ \E j \in Jobs : DurableCancel(j)
         \/ \E j \in Jobs : RequeueJob(j, NoRobot) /\ DurableWayBack({})
         \/ \E r \in Robots : ReplanRobot(r) /\ DurableWayBack({r})
         \/ \E r \in Robots, j \in Jobs : AckStop(r, j) /\ DurableWayBack({})
         \/ \E S \in Sweeps : DurableStale(S)
  PROVE  JobsWritten /\ RobotsWritten /\ ToldKept /\ UNCHANGED crashes
<1>1. CASE \E p \in Reports : DurableUpdate(p)
  BY <1>1, OrdinaryWrite
     DEF DurableUpdate, OnTheSameQueue, UpdateRobot, Register, Heartbeat, jobVars
<1>2. CASE \E r \in Robots : DurableRemove(r)
  BY <1>2, OrdinaryWrite DEF DurableRemove, OnTheSameQueue, RemoveRobot, jobVars
<1>3. CASE \E j \in Jobs, r \in Robots, n \in 0 .. MaxAttempt, success \in BOOLEAN :
             DurableComplete(j, r, n, success)
  BY <1>3, OrdinaryWrite DEF DurableComplete, OnTheSameQueue, CompleteJobAttempt
<1>4. CASE \E j \in Jobs : DurableCancel(j)
  BY <1>4, OrdinaryWrite DEF DurableCancel, OnTheSameQueue, CancelJob
<1>5. CASE \E j \in Jobs : RequeueJob(j, NoRobot) /\ DurableWayBack({})
  BY <1>5, OrdinaryWrite DEF DurableWayBack, OnTheSameQueue, RequeueJob
<1>6. CASE \E r \in Robots : ReplanRobot(r) /\ DurableWayBack({r})
  BY <1>6, OrdinaryWrite DEF DurableWayBack, OnTheSameQueue, ReplanRobot
<1>7. CASE \E r \in Robots, j \in Jobs : AckStop(r, j) /\ DurableWayBack({})
  BY <1>7, OrdinaryWrite DEF DurableWayBack, OnTheSameQueue, AckStop
<1>8. CASE \E S \in Sweeps : DurableStale(S)
  <2>1. PICK S \in Sweeps : DurableStale(S)
    BY <1>8
  <2>2. DetectStale(S) /\ UNCHANGED told /\ \E J, R : Saved(J, R)
    BY <2>1 DEF DurableStale
  <2>3. OnTheSameQueue /\ UNCHANGED attempt
    BY <2>2 DEF OnTheSameQueue, DetectStale
  <2>4. QED
    BY <2>2, <2>3, OrdinaryWrite
<1>9. QED
  BY <1>1, <1>2, <1>3, <1>4, <1>5, <1>6, <1>7, <1>8

\* The operations that write nothing.
LEMMA NothingWritten ==
  ASSUME TypeOK, DiskTyped, UNCHANGED <<diskJobs, diskRobots, crashes, told>>,
         \/ \E r \in Robots : FallSilent(r)
         \/ \E j \in Jobs : StopDeadline(j)
         \/ \E c \in ReplanConfigs : SetReplan(c)
  PROVE  JobsWritten /\ RobotsWritten /\ ToldKept /\ UNCHANGED crashes
<1>1. UNCHANGED <<jobVars, told>>
  BY DEF FallSilent, StopDeadline, SetReplan
<1>2. Saved({}, {})
  BY DEF Saved, DiskTyped
<1>3. QED
  BY <1>1, <1>2, SavedWrites, ToldStays DEF SameBook, jobVars

\* What the process finds on disk when it was killed between two operations, ...
LEMMA CrashKills ==
  ASSUME TypeOK, DiskTyped, SameJobs, Crash
  PROVE  Killed
<1>1. SameRows(diskJobs)
  BY DEF SameRows, SameJobs, DiskTyped, TypeOK, JobRow
<1>2. QED
  BY <1>1 DEF Crash, Killed, DiskTyped

\* ... between the writes of a pass, when some of its assignments are written
\* and all their robots, ...
HalfGiven(pass, J) ==
  [j \in Jobs |-> IF j \in J
     THEN [JobRecord(j) EXCEPT !.status = "assigned", !.robotOf = pass[j],
                               !.attempt = attempt[j] + 1]
     ELSE diskJobs[j]]

HalfReserved(R) ==
  [r \in Robots |-> IF r \in R THEN [RobotRecord(r) EXCEPT !.available = FALSE]
                    ELSE diskRobots[r]]

HalfPass(pass, won, J, R) ==
  /\ J \subseteq won
  /\ {pass[j] : j \in J} \subseteq R
  /\ R \subseteq {pass[j] : j \in won}
  /\ Started(HalfGiven(pass, J), HalfReserved(R))

LEMMA KilledInPass ==
  ASSUME NEW refused, NEW confirmed, CrashInDispatch(refused, confirmed)
  PROVE  \E pass, J, R :
           /\ pass \in Passes /\ IsPass(pass, refused, confirmed)
           /\ HalfPass(pass, Won(pass, refused), J, R)
<1>1. PICK pass \in Passes, whole \in BOOLEAN :
      \E k \in Won(pass, refused) :
        LET done == Written(pass, Won(pass, refused), k, whole)
        IN  /\ IsPass(pass, refused, confirmed)
            /\ Started(HalfGiven(pass, done.jobs), HalfReserved(done.robots))
  BY DEF CrashInDispatch, HalfGiven, HalfReserved
<1>2. PICK k \in Won(pass, refused) :
        LET done == Written(pass, Won(pass, refused), k, whole)
        IN  /\ IsPass(pass, refused, confirmed)
            /\ Started(HalfGiven(pass, done.jobs), HalfReserved(done.robots))
  BY <1>1
<1> DEFINE done == Written(pass, Won(pass, refused), k, whole)
<1>3. /\ done.jobs \subseteq Won(pass, refused)
      /\ {pass[j] : j \in done.jobs} \subseteq done.robots
      /\ done.robots \subseteq {pass[j] : j \in Won(pass, refused)}
  BY DEF Written
<1> HIDE DEF done
<1>4. QED
  BY <1>2, <1>3 DEF HalfPass, done

LEMMA DispatchCrashKills ==
  ASSUME TypeOK, DiskTyped, SameJobs, NEW refused, NEW confirmed,
         CrashInDispatch(refused, confirmed)
  PROVE  Killed
<1>1. PICK pass, J, R : pass \in Passes /\ HalfPass(pass, Won(pass, refused), J, R)
  BY KilledInPass
<1>2. J \subseteq Pending /\ \A j \in J : status[j] = "pending" /\ pass[j] \in Robots
  BY <1>1 DEF HalfPass, Won, Pending, Passes
<1>3. \A j \in Jobs : JobRecord(j) \in JobRow /\ attempt[j] \in Nat /\ attempt[j] + 1 \in Nat
  BY RecordsTyped DEF TypeOK
<1>4. HalfGiven(pass, J) \in [Jobs -> JobRow]
  <2>1. ASSUME NEW j \in Jobs, j \in J
        PROVE  [JobRecord(j) EXCEPT !.status = "assigned", !.robotOf = pass[j],
                                    !.attempt = attempt[j] + 1] \in JobRow
    <3>1. JobRecord(j) \in JobRow /\ pass[j] \in Robots /\ attempt[j] + 1 \in Nat
      BY <1>2, <1>3, <2>1
    <3>2. "assigned" \in Status
      BY DEF Status, InFlight
    <3>3. QED
      BY <3>1, <3>2 DEF JobRow
  <2>2. QED
    BY <2>1 DEF HalfGiven, DiskTyped
<1>5. HalfReserved(R) \in [Robots -> RobotRow]
  <2>1. \A r \in Robots : RobotRecord(r) \in RobotRow
    BY RecordsTyped
  <2>2. QED
    BY <2>1 DEF HalfReserved, DiskTyped, RobotRow
<1>6. SameRows(HalfGiven(pass, J))
  <2>1. ASSUME NEW j \in Jobs, j \in J
        PROVE  /\ HalfGiven(pass, J)[j].status = "assigned" /\ HalfGiven(pass, J)[j].seq = seq[j]
               /\ HalfGiven(pass, J)[j].key = key[j]
               /\ HalfGiven(pass, J)[j].attempt = attempt[j] + 1
    BY <2>1 DEF HalfGiven, JobRecord
  <2>2. \A j \in Jobs : j \notin J => HalfGiven(pass, J)[j] = diskJobs[j]
    BY DEF HalfGiven
  <2>3. \A j \in Jobs : attempt[j] >= attempt[j] /\ attempt[j] + 1 >= attempt[j]
    BY <1>3
  <2>4. QED
    BY <1>2, <2>1, <2>2, <2>3 DEF SameRows, SameJobs, Absent
<1>7. QED
  BY <1>1, <1>4, <1>5, <1>6 DEF Killed, HalfPass

\* ... and between the writes of a retry, when the job is written and some of
\* those that wait for it.
HalfRetried(q, j, st, J) ==
  [i \in Jobs |-> IF i = j
     THEN [JobRecord(j) EXCEPT !.ask = q.ask, !.deps = q.deps,
                               !.robotOf = NoRobot, !.status = st[j]]
     ELSE IF i \in J THEN [JobRecord(i) EXCEPT !.status = st[i]]
     ELSE diskJobs[i]]

LEMMA KilledInRetry ==
  ASSUME TypeOK, NEW q \in Requests, NEW j \in SameWork(q), CrashInRetry(q, j)
  PROVE  /\ j \in Jobs /\ status[j] \in {"failed", "cancelled"}
         /\ q \in RequestType /\ MayRetry(q, j)
         /\ \E st \in [Jobs -> Status] :
              /\ st[j] \in Waiting
              /\ \A i \in Jobs \ {j} : status[i] \in Waiting <=> st[i] \in Waiting
              /\ \A i \in Jobs \ {j} : st[i] # status[i] => status[i] \in Waiting
              /\ Settled(WaitingIn(st), st, [deps EXCEPT ![j] = q.deps])
              /\ \E J \in SUBSET {i \in Jobs \ {j} : st[i] # status[i]} :
                   Started(HalfRetried(q, j, st, J), diskRobots)
<1> DEFINE judged == [status EXCEPT ![j] = ComputeStatus(status, q.deps)]
           dp == [deps EXCEPT ![j] = q.deps]
<1>1. j \in Jobs /\ status[j] \in {"failed", "cancelled"} /\ q \in RequestType /\ MayRetry(q, j)
  BY RequestsTyped DEF SameWork, CrashInRetry, MayRetry, MayRunAgain, TypeOK, RequestType
<1>2. PICK st \in Refreshed(judged, dp) :
        \E J \in SUBSET {i \in Jobs \ {j} : st[i] # status[i]} :
          Started(HalfRetried(q, j, st, J), diskRobots)
  BY DEF CrashInRetry, HalfRetried
<1>3. judged \in [Jobs -> Status] /\ judged[j] \in Waiting
      /\ \A i \in Jobs \ {j} : judged[i] = status[i]
  BY <1>1, VerdictWaits DEF TypeOK, Status
<1> HIDE DEF judged, dp
<1>4. /\ st \in [Jobs -> Status]
      /\ \A i \in Jobs : judged[i] \in Waiting <=> st[i] \in Waiting
      /\ \A i \in Jobs : judged[i] \notin Waiting => st[i] = judged[i]
      /\ Settled(WaitingIn(st), st, dp)
  BY <1>3, RefreshedTable
<1>5. /\ st[j] \in Waiting
      /\ \A i \in Jobs \ {j} : status[i] \in Waiting <=> st[i] \in Waiting
      /\ \A i \in Jobs \ {j} : st[i] # status[i] => status[i] \in Waiting
  BY <1>1, <1>3, <1>4
<1>6. QED
  BY <1>1, <1>2, <1>4, <1>5 DEF dp

LEMMA RetryCrashKills ==
  ASSUME TypeOK, DiskTyped, SameJobs, NEW q \in Requests, NEW j \in SameWork(q),
         CrashInRetry(q, j)
  PROVE  Killed
<1>1. j \in Jobs /\ status[j] \in {"failed", "cancelled"} /\ q \in RequestType
  BY KilledInRetry
<1>2. PICK st \in [Jobs -> Status] :
        /\ st[j] \in Waiting
        /\ \A i \in Jobs \ {j} : status[i] \in Waiting <=> st[i] \in Waiting
        /\ \A i \in Jobs \ {j} : st[i] # status[i] => status[i] \in Waiting
        /\ \E J \in SUBSET {i \in Jobs \ {j} : st[i] # status[i]} :
             Started(HalfRetried(q, j, st, J), diskRobots)
  BY KilledInRetry
<1>3. PICK J \in SUBSET {i \in Jobs \ {j} : st[i] # status[i]} :
        Started(HalfRetried(q, j, st, J), diskRobots)
  BY <1>2
<1> DEFINE rows == HalfRetried(q, j, st, J)
<1>4. \A i \in Jobs : JobRecord(i) \in JobRow /\ attempt[i] \in Nat
  BY RecordsTyped DEF TypeOK
<1>5. rows \in [Jobs -> JobRow]
  <2>1. [JobRecord(j) EXCEPT !.ask = q.ask, !.deps = q.deps,
                             !.robotOf = NoRobot, !.status = st[j]] \in JobRow
    <3>1. q.ask \in AskType /\ q.deps \in SUBSET Jobs /\ st[j] \in Status
      BY <1>1, <1>2 DEF RequestType
    <3>2. JobRecord(j) \in JobRow
      BY <1>1, <1>4
    <3>3. QED
      BY <3>1, <3>2 DEF JobRow
  <2>2. \A i \in Jobs : [JobRecord(i) EXCEPT !.status = st[i]] \in JobRow
    BY <1>2, <1>4 DEF JobRow
  <2>3. QED
    BY <2>1, <2>2 DEF HalfRetried, DiskTyped
<1>6. SameRows(rows)
  <2>1. /\ rows[j].status = st[j] /\ rows[j].seq = seq[j]
        /\ rows[j].key = key[j] /\ rows[j].attempt = attempt[j]
    BY <1>1 DEF HalfRetried, JobRecord
  <2>2. ASSUME NEW i \in Jobs, i # j, i \in J
        PROVE  /\ rows[i].status = st[i] /\ rows[i].seq = seq[i]
               /\ rows[i].key = key[i] /\ rows[i].attempt = attempt[i]
    BY <2>2 DEF HalfRetried, JobRecord
  <2>3. ASSUME NEW i \in Jobs, i # j, i \notin J
        PROVE  rows[i] = diskJobs[i]
    BY <2>3 DEF HalfRetried
  <2> HIDE DEF rows
  <2>4. QED
    BY <1>1, <1>2, <1>4, <2>1, <2>2, <2>3 DEF SameRows, SameJobs, Waiting, Absent
<1>7. QED
  BY <1>3, <1>5, <1>6 DEF Killed, DiskTyped

\* The steps of a process that is not killed.
Works ==
  \/ \E q \in Requests : DurableSubmit(q)
  \/ \E p \in Reports : DurableUpdate(p)
  \/ \E r \in Robots : DurableRemove(r)
  \/ \E refused \in Refusals, confirmed \in Confirmations :
       DurableDispatch(refused, confirmed)
  \/ \E j \in Jobs, r \in Robots, n \in 0 .. MaxAttempt, success \in BOOLEAN :
       DurableComplete(j, r, n, success)
  \/ \E j \in Jobs : DurableCancel(j)
  \/ \E j \in Jobs : RequeueJob(j, NoRobot) /\ DurableWayBack({})
  \/ \E r \in Robots : ReplanRobot(r) /\ DurableWayBack({r})
  \/ \E r \in Robots, j \in Jobs : AckStop(r, j) /\ DurableWayBack({})
  \/ \E S \in Sweeps : DurableStale(S)
  \/ \E old \in SUBSET {j \in Jobs : status[j] \in Finished} : DurableArchive(old)
  \/ /\ \/ \E r \in Robots : FallSilent(r)
        \/ \E j \in Jobs : StopDeadline(j)
        \/ \E c \in ReplanConfigs : SetReplan(c)
     /\ UNCHANGED <<diskJobs, diskRobots, crashes, told>>

LEMMA WorksOn ==
  ASSUME TypeOK, DiskTyped, Works
  PROVE  RunsOn
<1>1. CASE \E q \in Requests : DurableSubmit(q)
  <2>1. Next
    BY <1>1 DEF DurableSubmit, Next, SubmitJob
  <2>2. QED
    BY <1>1, <2>1, SubmitWrites DEF RunsOn
<1>2. CASE \E refused \in Refusals, confirmed \in Confirmations :
             DurableDispatch(refused, confirmed)
  <2>1. Next
    BY <1>2 DEF DurableDispatch, Next, DispatchOnce
  <2>2. QED
    BY <1>2, <2>1, DispatchWrites DEF RunsOn
<1>3. CASE \E old \in SUBSET {j \in Jobs : status[j] \in Finished} : DurableArchive(old)
  <2>1. Next
    BY <1>3 DEF DurableArchive, Next
  <2>2. QED
    BY <1>3, <2>1, ArchiveWrites DEF RunsOn
<1>4. CASE \/ \E p \in Reports : DurableUpdate(p)
           \/ \E r \in Robots : DurableRemove(r)
           \/ \E j \in Jobs, r \in Robots, n \in 0 .. MaxAttempt, success \in BOOLEAN :
                DurableComplete(j, r, n, success)
           \/ \E j \in Jobs : DurableCancel(j)
           \/ \E j \in Jobs : RequeueJob(j, NoRobot) /\ DurableWayBack({})
           \/ \E r \in Robots : ReplanRobot(r) /\ DurableWayBack({r})
           \/ \E r \in Robots, j \in Jobs : AckStop(r, j) /\ DurableWayBack({})
           \/ \E S \in Sweeps : DurableStale(S)
  <2>1. Next
    BY <1>4 DEF DurableUpdate, DurableRemove, DurableComplete, DurableCancel, DurableStale, Next
  <2>2. QED
    BY <1>4, <2>1, OperationWrites DEF RunsOn
<1>5. CASE /\ UNCHANGED <<diskJobs, diskRobots, crashes, told>>
           /\ \/ \E r \in Robots : FallSilent(r)
              \/ \E j \in Jobs : StopDeadline(j)
              \/ \E c \in ReplanConfigs : SetReplan(c)
  <2>1. Next
    BY <1>5 DEF Next
  <2>2. QED
    BY <1>5, <2>1, NothingWritten DEF RunsOn
<1>6. QED
  BY <1>1, <1>2, <1>3, <1>4, <1>5 DEF Works

LEMMA StepKinds ==
  ASSUME TypeOK, DiskTyped, SameJobs, DurableNext
  PROVE  RunsOn \/ Killed
<1>1. \/ Works
      \/ Crash
      \/ \E refused \in Refusals, confirmed \in Confirmations :
           CrashInDispatch(refused, confirmed)
      \/ \E q \in Requests : \E j \in SameWork(q) : CrashInRetry(q, j)
  BY DEF DurableNext, Works
<1>2. QED
  BY <1>1, WorksOn, CrashKills, DispatchCrashKills, RetryCrashKills

-----------------------------------------------------------------------------
\* Whatever writes are refused: the jobs, their places, keys and attempts.

\* What is known of the jobs of the queue is on disk, an attempt that was told is
\* counted, and places and keys are those of one job each.
BookInv ==
  /\ TypeOK /\ DiskTyped
  /\ SameJobs
  /\ PlacesInv /\ OneJobPerKey
  /\ \A j \in Jobs : told[j] <= attempt[j]

LEMMA BookInit == DurableInit => BookInv
<1> SUFFICES ASSUME DurableInit
             PROVE  BookInv
  OBVIOUS
<1>1. TypeOK
  BY TypedInit DEF DurableInit
<1>2. DiskTyped
  <2>1. /\ \A j \in Jobs : JobRecord(j) \in JobRow
        /\ \A r \in Robots : RobotRecord(r) \in RobotRow
    BY <1>1, RecordsTyped
  <2>2. QED
    BY <2>1 DEF DurableInit, DiskTyped
<1>3. SameJobs
  BY DEF DurableInit, SameJobs, JobRecord
<1>4. PlacesInv /\ OneJobPerKey
  BY DEF DurableInit, Init, PlacesInv, PlacesDistinct, PlacesBounded, OneJobPerKey, Live
<1>5. \A j \in Jobs : told[j] <= attempt[j]
  BY DEF DurableInit, Init
<1>6. QED
  BY <1>1, <1>2, <1>3, <1>4, <1>5 DEF BookInv

LEMMA BookRunsOn ==
  ASSUME BookInv, RunsOn
  PROVE  BookInv'
<1>1. TypeOK' /\ PlacesInv' /\ OneJobPerKey'
  BY TypedNext, PlacesNext, KeysNext DEF BookInv, RunsOn
<1>2. PICK J :
        /\ diskJobs' = [j \in Jobs |-> IF j \in J THEN JobRecord(j)' ELSE diskJobs[j]]
        /\ \A j \in Jobs : j \notin J => SameBook(j)
  BY DEF RunsOn, JobsWritten
<1>3. DiskTyped'
  <2>1. \A j \in Jobs : JobRecord(j)' \in JobRow
    BY <1>1, RecordsTyped
  <2>2. \A r \in Robots : diskRobots'[r] \in RobotRow
    <3>1. \A r \in Robots : diskRobots[r] \in RobotRow /\ RobotRecord(r) \in RobotRow
                            /\ RobotRecord(r)' \in RobotRow
      BY <1>1, RecordsTyped DEF BookInv, DiskTyped
    <3>2. \A r \in Robots : [RobotRecord(r) EXCEPT !.available = FALSE] \in RobotRow
      BY <3>1 DEF RobotRow
    <3>3. QED
      BY <3>1, <3>2 DEF RunsOn, RobotsWritten
  <2>3. \A j \in Jobs : told'[j] \in Nat
    BY <1>1 DEF RunsOn, ToldKept, BookInv, DiskTyped, TypeOK
  <2>4. diskJobs' \in [Jobs -> JobRow]
    BY <1>2, <2>1 DEF BookInv, DiskTyped
  <2>5. diskRobots' \in [Robots -> RobotRow]
    BY <2>2 DEF RunsOn, RobotsWritten
  <2>6. QED
    BY <2>3, <2>4, <2>5 DEF RunsOn, ToldKept, BookInv, DiskTyped
<1>4. SameJobs'
  <2>1. ASSUME NEW j \in Jobs, j \in J
        PROVE  /\ diskJobs'[j].status = status'[j] /\ diskJobs'[j].seq = seq'[j]
               /\ diskJobs'[j].key = key'[j] /\ diskJobs'[j].attempt = attempt'[j]
    BY <1>2, <2>1 DEF JobRecord
  <2>2. ASSUME NEW j \in Jobs, j \notin J
        PROVE  diskJobs'[j] = diskJobs[j] /\ SameBook(j)
    BY <1>2, <2>2
  <2>3. QED
    BY <2>1, <2>2 DEF SameJobs, SameBook, BookInv
<1>5. \A j \in Jobs : told'[j] <= attempt'[j]
  <2>1. \A j \in Jobs : attempt'[j] \in Nat
    BY <1>1 DEF TypeOK
  <2>2. QED
    BY <2>1 DEF RunsOn, ToldKept, BookInv
<1>6. QED
  BY <1>1, <1>3, <1>4, <1>5 DEF BookInv

\* A start gives the next job a place behind all those it finds.
LEMMA NextBehindAll ==
  ASSUME NEW rows \in [Jobs -> JobRow]
  PROVE  /\ NextLoaded(rows) \in Nat
         /\ \A j \in Jobs : rows[j].status # Absent => rows[j].seq <= NextLoaded(rows)
<1> DEFINE live == {j \in Jobs : rows[j].status # Absent}
           S == {rows[j].seq : j \in live}
           last == CHOOSE n \in S : \A j \in live : rows[j].seq <= n
<1>1. CASE live = {}
  BY <1>1 DEF NextLoaded
<1>2. CASE live # {}
  <2>1. IsFiniteSet(S)
    <3>1. IsFiniteSet(live)
      BY JobsFinite, FS_Subset
    <3>2. [j \in live |-> rows[j].seq] \in Surjection(live, S)
      BY DEF Surjection
    <3>3. QED
      BY <3>1, <3>2, FS_Surjection
  <2>2. S \in SUBSET Nat /\ S # {}
    BY <1>2 DEF JobRow
  <2>3. \E n \in S : \A m \in S : m <= n
    BY <2>1, <2>2, LastPlace
  <2>4. \E n \in S : \A j \in live : rows[j].seq <= n
    BY <2>3
  <2>5. last \in S /\ \A j \in live : rows[j].seq <= last
    BY <2>4
  <2>6. NextLoaded(rows) = last + 1
    BY <1>2 DEF NextLoaded
  <2> HIDE DEF last
  <2>7. \A j \in live : rows[j].seq \in Nat
    BY DEF JobRow
  <2>8. QED
    BY <2>2, <2>5, <2>6, <2>7
<1>3. QED
  BY <1>1, <1>2

\* The statuses of the rows are those of the queue it starts with.
LEMMA StartedTyped ==
  ASSUME TypeOK, DiskTyped, NEW rows \in [Jobs -> JobRow], NEW robots \in [Robots -> RobotRow],
         Started(rows, robots)
  PROVE  TypeOK' /\ DiskTyped'
<1>1. /\ \A j \in Jobs : /\ rows[j].status \in Status /\ rows[j].robotOf \in Robots \cup {NoRobot}
                         /\ rows[j].attempt \in Nat /\ rows[j].ask \in AskType
                         /\ rows[j].deps \in SUBSET Jobs /\ rows[j].seq \in Nat
                         /\ rows[j].key \in Keys \cup {NoKey}
      /\ \A r \in Robots : /\ robots[r].known \in BOOLEAN /\ robots[r].available \in BOOLEAN
                           /\ robots[r].load \in Nat /\ robots[r].tool \in Tools \cup {NoTool}
                           /\ robots[r].location \in Place
  BY DEF JobRow, RobotRow
<1>2. NextLoaded(rows) \in Nat
  BY NextBehindAll
<1>3. IndexLoaded(rows) \in [Keys -> SUBSET Jobs]
  BY DEF IndexLoaded
<1>4. body' \in [Robots -> BodyType]
  BY <1>1 DEF Started, BodyType
<1>5. heard' \in [Robots -> BOOLEAN]
  BY DEF Started, TypeOK
<1>6. stopReq' \in [Jobs -> StopType] /\ replan' \in ReplanType
  BY NoStopTyped, ReplanTyped DEF Started
<1>7. DiskTyped'
  BY CrashTyped DEF Started, DiskTyped
<1>8. QED
  BY <1>1, <1>2, <1>3, <1>4, <1>5, <1>6, <1>7 DEF Started, TypeOK

LEMMA BookKilled ==
  ASSUME BookInv, Killed
  PROVE  BookInv'
<1>1. PICK rows \in [Jobs -> JobRow], robots \in [Robots -> RobotRow] :
        SameRows(rows) /\ Started(rows, robots)
  BY DEF Killed
<1>2. TypeOK' /\ DiskTyped'
  BY <1>1, StartedTyped DEF BookInv
<1>3. /\ diskJobs' = rows /\ nextSeq' = NextLoaded(rows) /\ dedupIndex' = IndexLoaded(rows)
      /\ UNCHANGED told
      /\ \A j \in Jobs : /\ status'[j] = rows[j].status /\ seq'[j] = rows[j].seq
                         /\ key'[j] = rows[j].key /\ attempt'[j] = rows[j].attempt
  BY <1>1 DEF Started
<1>4. \A j \in Jobs : /\ status'[j] = Absent <=> status[j] = Absent
                      /\ seq'[j] = seq[j] /\ key'[j] = key[j] /\ attempt'[j] >= attempt[j]
  BY <1>1, <1>3 DEF SameRows
<1>5. SameJobs'
  BY <1>3 DEF SameJobs
<1>6. PlacesInv'
  <2>1. PlacesDistinct'
    BY <1>4 DEF BookInv, PlacesInv, PlacesDistinct, Live
  <2>2. PlacesBounded'
    BY <1>3, NextBehindAll DEF PlacesBounded, Live
  <2>3. QED
    BY <2>1, <2>2 DEF PlacesInv
<1>7. OneJobPerKey'
  <2>1. \A k \in Keys : dedupIndex'[k] = {j \in Live(status)' : key'[j] = k}
    BY <1>3 DEF IndexLoaded, Live
  <2>2. Live(status)' = Live(status) /\ \A j \in Jobs : key'[j] = key[j]
    BY <1>4 DEF Live
  <2>3. \A k \in Keys : dedupIndex'[k] = dedupIndex[k]
    <3>1. ASSUME NEW k \in Keys
          PROVE  {j \in Live(status)' : key'[j] = k} = {j \in Live(status) : key[j] = k}
      BY <2>2 DEF Live
    <3>2. \A k \in Keys : dedupIndex[k] = {j \in Live(status) : key[j] = k}
      BY DEF BookInv, OneJobPerKey
    <3>3. QED
      BY <2>1, <3>1, <3>2
  <2>4. QED
    BY <2>1, <2>3 DEF BookInv, OneJobPerKey
<1>8. \A j \in Jobs : told'[j] <= attempt'[j]
  BY <1>2, <1>3, <1>4 DEF BookInv, DiskTyped, TypeOK
<1>9. QED
  BY <1>2, <1>5, <1>6, <1>7, <1>8 DEF BookInv

LEMMA BookNext == BookInv /\ [DurableNext]_durableVars => BookInv'
<1> SUFFICES ASSUME BookInv, [DurableNext]_durableVars
             PROVE  BookInv'
  OBVIOUS
<1>1. CASE DurableNext
  BY <1>1, StepKinds, BookRunsOn, BookKilled DEF BookInv
<1>2. CASE UNCHANGED durableVars
  BY <1>2 DEF durableVars, vars, jobVars, robotVars, BookInv, TypeOK, DiskTyped, SameJobs,
              PlacesInv, PlacesDistinct, PlacesBounded, OneJobPerKey, Live
<1>3. QED
  BY <1>1, <1>2

LEMMA BookHolds == DurableSpec => []BookInv
BY BookInit, BookNext, PTL DEF DurableSpec

\* Whatever the store refuses and wherever the process is killed, the disk holds
\* the very jobs of the queue: a start neither loses nor revives one.
THEOREM StartsWithItsJobs == DurableSpec => []SameJobs
<1>1. BookInv => SameJobs
  BY DEF BookInv
<1>2. QED
  BY <1>1, BookHolds, PTL

\* The index a start builds names the one job that has the key, whatever became
\* of the writes before: a repeated submission finds its job after any crash.
THEOREM KeysSurvive == DurableSpec => []OneJobPerKey
<1>1. BookInv => OneJobPerKey
  BY DEF BookInv
<1>2. QED
  BY <1>1, BookHolds, PTL

\* A pass numbers what it gives above everything that was told about the job
\* before, whatever the store refused and however often the process was killed.
THEOREM AttemptsNotRepeated == DurableSpec => NoAttemptTwice
<1> DEFINE Step == \A j \in Jobs : (GivenBy(j) /\ crashes' = crashes) => attempt'[j] > told[j]
<1>1. BookInv /\ [DurableNext]_durableVars => Step
  <2> SUFFICES ASSUME BookInv, [DurableNext]_durableVars, NEW j \in Jobs, GivenBy(j),
                      crashes' = crashes
               PROVE  attempt'[j] > told[j]
    OBVIOUS
  <2>1. ~Killed
    BY DEF Killed, Started, BookInv, DiskTyped
  <2>2. [Next]_vars
    BY <2>1, StepKinds DEF BookInv, RunsOn, durableVars
  <2>3. Lives(j)
    BY <2>2, EveryStepLives DEF BookInv
  <2>4. attempt'[j] = attempt[j] + 1
    BY <2>3 DEF GivenBy, Lives, Enters, Starts, Ends, Withdraws, Retries, Goes, Stays, Absent,
                Waiting, InFlight, Finished
  <2>5. told[j] <= attempt[j] /\ told[j] \in Nat /\ attempt[j] \in Nat
    BY DEF BookInv, DiskTyped, TypeOK
  <2>6. QED
    BY <2>4, <2>5
<1> HIDE DEF Step
<1>2. QED
  BY <1>1, BookHolds, PTL DEF DurableSpec, NoAttemptTwice, Step

-----------------------------------------------------------------------------
\* A store that takes every write: between two operations the disk is current.

Current ==
  /\ diskJobs = [j \in Jobs |-> JobRecord(j)]
  /\ diskRobots = [r \in Robots |-> RobotRecord(r)]

SameJobRow(j) ==
  /\ status'[j] = status[j] /\ robotOf'[j] = robotOf[j] /\ attempt'[j] = attempt[j]
  /\ ask'[j] = ask[j] /\ deps'[j] = deps[j] /\ seq'[j] = seq[j] /\ key'[j] = key[j]

SameRobotRow(r) ==
  /\ (r \in known') = (r \in known) /\ available'[r] = available[r]
  /\ load'[r] = load[r] /\ body'[r] = body[r]

\* No row that an operation changed in memory is left out of those it writes.
LEMMA CurrentAfter ==
  ASSUME Current, NEW J, NEW R, Saved(J, R),
         \A j \in Jobs : j \notin J => SameJobRow(j),
         \A r \in Robots : r \notin R => SameRobotRow(r)
  PROVE  Current'
<1>1. \A j \in Jobs : j \notin J => JobRecord(j)' = JobRecord(j)
  BY DEF SameJobRow, JobRecord
<1>2. \A r \in Robots : r \notin R => RobotRecord(r)' = RobotRecord(r)
  BY DEF SameRobotRow, RobotRecord
<1>3. diskJobs' = [j \in Jobs |-> JobRecord(j)']
  BY <1>1 DEF Current, Saved
<1>4. diskRobots' = [r \in Robots |-> RobotRecord(r)']
  BY <1>2 DEF Current, Saved
<1>5. QED
  BY <1>3, <1>4 DEF Current

LEMMA AllIsWritten ==
  ASSUME ~StoreMayFail, NEW J, NEW R, SavedTogether(J, R) \/ SavedEach(J, R)
  PROVE  Saved(J, R)
BY DEF SavedTogether, SavedEach

\* Whoever changes status is among the Moved.
LEMMA MovedRows ==
  ASSUME NEW j \in Jobs, j \notin Moved,
         robotOf'[j] = robotOf[j] /\ attempt'[j] = attempt[j] /\ ask'[j] = ask[j],
         deps'[j] = deps[j] /\ seq'[j] = seq[j] /\ key'[j] = key[j]
  PROVE  SameJobRow(j)
BY DEF Moved, SameJobRow

LEMMA SubmitCurrent ==
  ASSUME ~StoreMayFail, TypeOK, Current, NEW q \in Requests, DurableSubmit(q)
  PROVE  Current'
<1>1. UNCHANGED robotVars
  BY DEF DurableSubmit, AddJob, RetryJob
<1>2. \A r \in Robots : SameRobotRow(r)
  BY <1>1 DEF robotVars, SameRobotRow
<1>3. CASE AddJob(q) /\ Saved({q.id}, {})
  <2>1. \A j \in Jobs : j \notin {q.id} => SameJobRow(j)
    BY <1>3 DEF AddJob, SameJobRow, TypeOK
  <2>2. QED
    BY <1>2, <1>3, <2>1, CurrentAfter
<1>4. CASE \E j \in SameWork(q) : RetryJob(q, j) /\ SavedEach({j} \cup Moved, {})
  <2>1. PICK j \in SameWork(q) : RetryJob(q, j) /\ SavedEach({j} \cup Moved, {})
    BY <1>4
  <2>2. \A i \in Jobs : i \notin {j} \cup Moved => SameJobRow(i)
    BY <2>1, MovedRows DEF RetryJob, TypeOK
  <2>3. QED
    BY <1>2, <2>1, <2>2, AllIsWritten, CurrentAfter
<1>5. QED
  BY <1>3, <1>4 DEF DurableSubmit

\* The rows that a requeue changes are those of the jobs that moved and of the
\* robots they leave, and of those that are held in any case.
LEMMA RequeueRows ==
  ASSUME TypeOK, NEW J \in SUBSET Jobs, NEW extra, RequeueAll(J, extra),
         \A j \in J : status[j] \in InFlight,
         UNCHANGED <<attempt, ask, deps, seq, key, known, load, body>>
  PROVE  /\ \A j \in Jobs : j \notin Moved => SameJobRow(j)
         /\ \A r \in Robots : r \notin (RobotsLeft \cap known) \cup extra => SameRobotRow(r)
<1>1. \A j \in J : status'[j] # status[j] /\ robotOf'[j] = NoRobot
  BY VerdictWaits DEF RequeueAll, Waiting, InFlight
<1>2. \A j \in Jobs \ J : status'[j] = status[j] /\ robotOf'[j] = robotOf[j]
  BY DEF RequeueAll
<1>3. ASSUME NEW j \in Jobs, j \notin Moved
      PROVE  SameJobRow(j)
  BY <1>1, <1>2, <1>3 DEF SameJobRow, Moved
<1>4. ASSUME NEW r \in Robots, r \notin (RobotsLeft \cap known) \cup extra
      PROVE  SameRobotRow(r)
  <2>1. NoRobot \notin Robots
    BY RobotsPositive DEF NoRobot
  <2>2. r \notin (known \cap {robotOf[j] : j \in J}) \cup extra
    BY <1>1, <1>4, <2>1 DEF RobotsLeft
  <2>3. available'[r] = available[r]
    BY <2>2 DEF RequeueAll, TypeOK
  <2>4. QED
    BY <2>3 DEF SameRobotRow
<1>5. QED
  BY <1>3, <1>4

LEMMA WayBackCurrent ==
  ASSUME ~StoreMayFail, TypeOK, Current,
         \/ \E j \in Jobs : RequeueJob(j, NoRobot) /\ DurableWayBack({})
         \/ \E r \in Robots : ReplanRobot(r) /\ DurableWayBack({r})
         \/ \E r \in Robots, j \in Jobs : AckStop(r, j) /\ DurableWayBack({})
  PROVE  Current'
<1>1. PICK J \in SUBSET Jobs, extra \in SUBSET Robots :
        /\ RequeueAll(J, extra) /\ \A j \in J : status[j] \in InFlight
        /\ UNCHANGED <<attempt, ask, deps, seq, key, known, load, body>>
        /\ DurableWayBack(extra)
  <2>1. CASE \E j \in Jobs : RequeueJob(j, NoRobot) /\ DurableWayBack({})
    BY <2>1 DEF RequeueJob
  <2>2. CASE \E r \in Robots : ReplanRobot(r) /\ DurableWayBack({r})
    <3>1. PICK r \in Robots : ReplanRobot(r) /\ DurableWayBack({r})
      BY <2>2
    <3>2. HeldJobs(r, InFlight) \in SUBSET Jobs
          /\ \A j \in HeldJobs(r, InFlight) : status[j] \in InFlight
      BY DEF HeldJobs
    <3>3. /\ RequeueAll(HeldJobs(r, InFlight), {r})
          /\ UNCHANGED <<attempt, ask, deps, seq, key, known, load, body>>
      BY <3>1 DEF ReplanRobot
    <3>4. QED
      BY <3>1, <3>2, <3>3
  <2>3. CASE \E r \in Robots, j \in Jobs : AckStop(r, j) /\ DurableWayBack({})
    BY <2>3 DEF AckStop
  <2>4. QED
    BY <2>1, <2>2, <2>3
<1>2. Saved(Moved, (RobotsLeft \cap known) \cup extra)
  BY <1>1, AllIsWritten DEF DurableWayBack
<1>3. QED
  BY <1>1, <1>2, RequeueRows, CurrentAfter

LEMMA UpdateCurrent ==
  ASSUME ~StoreMayFail, TypeOK, Current, NEW p \in Reports, DurableUpdate(p)
  PROVE  Current'
<1>1. Saved(Moved, {p.robot})
  BY AllIsWritten DEF DurableUpdate
<1>2. /\ \A j \in Jobs : j \notin Moved => SameJobRow(j)
      /\ \A r \in Robots : r \notin {p.robot} => SameRobotRow(r)
  <2>1. CASE Register(p)
    BY <2>1 DEF Register, jobVars, SameJobRow, SameRobotRow, TypeOK
  <2>2. CASE Heartbeat(p)
    <3>1. UNCHANGED <<attempt, ask, deps, seq, key, nextSeq, dedupIndex, known, load>>
          /\ \A r \in Robots : r # p.robot => body'[r] = body[r]
      BY <2>2 DEF Heartbeat, TypeOK
    <3>2. CASE UNCHANGED <<status, robotOf>>
               /\ \A r \in Robots : r # p.robot => available'[r] = available[r]
      BY <3>1, <3>2 DEF SameJobRow, SameRobotRow
    <3>3. CASE RequeueAll(HeldJobs(p.robot, {"assigned"}), {p.robot})
      <4> DEFINE J == HeldJobs(p.robot, {"assigned"})
      <4>1. \A j \in J : status[j] = "assigned" /\ robotOf[j] = p.robot
        BY DEF HeldJobs
      <4>2. \A j \in J : status'[j] # status[j]
        BY <3>3, <4>1, VerdictWaits DEF RequeueAll, Waiting, HeldJobs
      <4>3. \A j \in Jobs \ J : status'[j] = status[j] /\ robotOf'[j] = robotOf[j]
        BY <3>3 DEF RequeueAll
      <4>4. \A r \in Robots : r # p.robot => available'[r] = available[r]
        BY <3>3, <4>1 DEF RequeueAll, TypeOK
      <4> HIDE DEF J
      <4>5. QED
        BY <3>1, <4>2, <4>3, <4>4 DEF SameJobRow, SameRobotRow, Moved
    <3>4. QED
      BY <2>2, <3>2, <3>3 DEF Heartbeat, TypeOK
  <2>3. QED
    BY <2>1, <2>2 DEF DurableUpdate, UpdateRobot
<1>3. QED
  BY <1>1, <1>2, CurrentAfter

LEMMA DispatchCurrent ==
  ASSUME TypeOK, Current, NEW confirmed, DurableDispatch({}, confirmed)
  PROVE  Current'
<1>1. PICK pass \in Passes :
        LET won == Won(pass, {})
        IN  /\ Assign(pass, {}, confirmed)
            /\ diskJobs' = [j \in Jobs |-> IF j \in won THEN JobRecord(j)' ELSE diskJobs[j]]
            /\ Undone(pass, {})
            /\ UNCHANGED crashes
  BY DEF DurableDispatch
<1> DEFINE won == Won(pass, {})
           got == ReservedBy(pass, {})
<1>2. diskRobots' = [r \in Robots |-> IF r \in got THEN RobotRecord(r)' ELSE diskRobots[r]]
  <2>1. {pass[j] : j \in Pending \cap {}} \ {NoRobot} = {}
    OBVIOUS
  <2>2. QED
    BY <1>1, <2>1 DEF Undone
<1>3. \A j \in Jobs : j \notin won => SameJobRow(j)
  BY <1>1 DEF Assign, Counted, SameJobRow, TypeOK
<1>4. \A r \in Robots : r \notin got => SameRobotRow(r)
  BY <1>1 DEF Assign, SameRobotRow, TypeOK
<1>5. Saved(won, got)
  BY <1>1, <1>2 DEF Saved
<1> HIDE DEF won, got
<1>6. QED
  BY <1>3, <1>4, <1>5, CurrentAfter

LEMMA StaleCurrent ==
  ASSUME ~StoreMayFail, TypeOK, Current, NEW S, DurableStale(S)
  PROVE  Current'
<1> DEFINE back == {j \in Jobs : robotOf'[j] # robotOf[j]}
<1>1. Saved(back \cup (Moved \ back), RobotsLeft)
  BY DEF DurableStale
<1>2. \A j \in Jobs : j \notin back \cup (Moved \ back) => SameJobRow(j)
  BY DEF DurableStale, DetectStale, SameJobRow, Moved
<1>3. ASSUME NEW r \in Robots, r \notin RobotsLeft
      PROVE  SameRobotRow(r)
  <2>1. NoRobot \notin Robots
    BY RobotsPositive DEF NoRobot
  <2>2. DetectStale(S)
    BY DEF DurableStale
  <2>3. PICK G \in SUBSET Jobs :
          /\ \A j \in G : robotOf'[j] = NoRobot
          /\ available' = [s \in Robots |-> available[s] /\ s \notin {robotOf[j] : j \in G}]
    BY <2>2 DEF DetectStale
  <2>4. r \notin {robotOf[j] : j \in G}
    BY <1>3, <2>1, <2>3 DEF RobotsLeft, TypeOK
  <2>5. available'[r] = available[r]
    BY <2>3, <2>4 DEF TypeOK
  <2>6. UNCHANGED <<known, load, body>>
    BY <2>2 DEF DetectStale
  <2>7. QED
    BY <2>5, <2>6 DEF SameRobotRow
<1> HIDE DEF back
<1>4. QED
  BY <1>1, <1>2, <1>3, CurrentAfter

LEMMA CompleteCurrent ==
  ASSUME ~StoreMayFail, TypeOK, Current, NEW j \in Jobs, NEW r \in Robots, NEW n, NEW success,
         DurableComplete(j, r, n, success)
  PROVE  Current'
<1>1. Saved(Moved, {r})
  BY AllIsWritten DEF DurableComplete
<1>2. \A i \in Jobs : i \notin Moved => SameJobRow(i)
  BY MovedRows DEF DurableComplete, CompleteJobAttempt
<1>3. \A s \in Robots : s \notin {r} => SameRobotRow(s)
  BY DEF DurableComplete, CompleteJobAttempt, SameRobotRow, TypeOK
<1>4. QED
  BY <1>1, <1>2, <1>3, CurrentAfter

LEMMA CancelCurrent ==
  ASSUME ~StoreMayFail, TypeOK, Current, NEW j \in Jobs, DurableCancel(j)
  PROVE  Current'
<1>1. Saved(Moved, {})
  BY AllIsWritten DEF DurableCancel
<1>2. status'[j] # status[j]
  <2>1. status' \in Refreshed([status EXCEPT ![j] = "cancelled"], deps)
        /\ "cancelled" \in Status /\ "cancelled" \notin Waiting /\ status[j] \in Waiting
    BY DEF DurableCancel, CancelJob, Status, Finished, Waiting
  <2>2. status'[j] = "cancelled"
    BY <2>1, RefreshedStep
  <2>3. QED
    BY <2>1, <2>2
<1>3. \A i \in Jobs : i \notin Moved => SameJobRow(i)
  BY <1>2, MovedRows DEF DurableCancel, CancelJob, Moved, TypeOK
<1>4. \A r \in Robots : SameRobotRow(r)
  BY DEF DurableCancel, CancelJob, robotVars, SameRobotRow
<1>5. QED
  BY <1>1, <1>3, <1>4, CurrentAfter

LEMMA RemoveCurrent ==
  ASSUME TypeOK, Current, NEW r \in Robots, DurableRemove(r)
  PROVE  Current'
<1>1. \A j \in Jobs : SameJobRow(j)
  BY DEF DurableRemove, RemoveRobot, jobVars, SameJobRow
<1>2. \A s \in Robots : s \notin {r} => SameRobotRow(s)
  BY DEF DurableRemove, RemoveRobot, SameRobotRow, TypeOK
<1>3. QED
  BY <1>1, <1>2, CurrentAfter DEF DurableRemove

LEMMA ArchiveCurrent ==
  ASSUME TypeOK, Current, NEW old, DurableArchive(old)
  PROVE  Current'
<1>1. \A j \in Jobs : j \notin Archivable(old) => SameJobRow(j)
  BY DEF DurableArchive, ArchiveFinished, SameJobRow
<1>2. \A r \in Robots : SameRobotRow(r)
  BY DEF DurableArchive, ArchiveFinished, robotVars, SameRobotRow
<1>3. QED
  BY <1>1, <1>2, CurrentAfter DEF DurableArchive

LEMMA AroundCurrent ==
  ASSUME Current, UNCHANGED <<diskJobs, diskRobots>>,
         UNCHANGED <<jobVars, known, available, load, body>>
  PROVE  Current'
BY DEF Current, JobRecord, RobotRecord, jobVars

LEMMA WorksCurrent ==
  ASSUME ~StoreMayFail, TypeOK, Current, Works \/ UNCHANGED durableVars
  PROVE  Current'
<1>1. CASE \E refused \in Refusals, confirmed \in Confirmations :
             DurableDispatch(refused, confirmed)
  BY <1>1, DispatchCurrent DEF Refusals
<1>2. CASE /\ \/ \E r \in Robots : FallSilent(r)
              \/ \E j \in Jobs : StopDeadline(j)
              \/ \E c \in ReplanConfigs : SetReplan(c)
           /\ UNCHANGED <<diskJobs, diskRobots, crashes, told>>
  <2>1. UNCHANGED <<jobVars, known, available, load, body>>
    BY <1>2 DEF FallSilent, StopDeadline, SetReplan, robotVars
  <2>2. QED
    BY <1>2, <2>1, AroundCurrent
<1>3. CASE UNCHANGED durableVars
  BY <1>3, AroundCurrent DEF durableVars, vars, robotVars
<1>4. QED
  BY <1>1, <1>2, <1>3, SubmitCurrent, UpdateCurrent, RemoveCurrent, CompleteCurrent,
     CancelCurrent, WayBackCurrent, StaleCurrent, ArchiveCurrent DEF Works

-----------------------------------------------------------------------------
\* A start leaves the robots no worse than they were, although it forgets which
\* of them declared themselves not available, and judges nobody again.

SafeInv ==
  /\ BookInv
  /\ Current
  /\ FleetOK
  /\ DepsInv /\ Acyclic /\ AbsentNeverRan

\* What a crash must leave for the rest.
Recovered == TypeOK' /\ FleetOK' /\ DepsInv' /\ Acyclic' /\ \A j \in Jobs : Lives(j)

LEMMA StartedCurrent ==
  ASSUME NEW rows \in [Jobs -> JobRow], NEW robots \in [Robots -> RobotRow],
         Started(rows, robots)
  PROVE  Current'
<1>1. \A j \in Jobs : JobRecord(j)' = rows[j]
  BY DEF Started, JobRecord, JobRow
<1>2. \A r \in Robots : RobotRecord(r)' = robots[r]
  BY DEF Started, RobotRecord, RobotRow
<1>3. diskJobs' = rows /\ diskRobots' = robots
  BY DEF Started
<1>4. QED
  BY <1>1, <1>2, <1>3 DEF Current

\* The memory is rebuilt as it was.
LEMMA CrashRecovers ==
  ASSUME SafeInv, Crash
  PROVE  Recovered
<1>1. TypeOK /\ DiskTyped /\ FleetOK /\ DepsInv
  BY DEF SafeInv, BookInv
<1>2. TypeOK'
  BY <1>1, StartedTyped DEF Crash, DiskTyped
<1>3. /\ \A j \in Jobs : /\ status'[j] = status[j] /\ robotOf'[j] = robotOf[j]
                         /\ attempt'[j] = attempt[j] /\ deps'[j] = deps[j]
      /\ known' = known
      /\ \A r \in Robots : available'[r] = available[r] /\ held'[r] = FALSE
  BY <1>1 DEF Crash, Started, SafeInv, Current, JobRecord, RobotRecord, TypeOK
<1>4. UNCHANGED <<status, deps>>
  BY <1>1, <1>2, <1>3 DEF TypeOK
<1>5. NoneGiven
  BY <1>1, <1>3 DEF NoneGiven, FleetOK, Answerable, AbsentHasNone
<1>6. FleetOK'
  BY <1>1, <1>2, <1>5, NoneGivenSafe
<1>7. DepsInv'
  BY <1>1, <1>4, GivenOrBackKeeps DEF GivenOrBack, Keeps
<1>8. \A j \in Jobs : Lives(j)
  BY <1>3 DEF Lives, Stays, SameWorkload
<1>9. Acyclic'
  BY <1>4 DEF SafeInv, Acyclic
<1>10. QED
  BY <1>2, <1>6, <1>7, <1>8, <1>9 DEF Recovered

\* The assignments that were written stand; the robots that were reserved for
\* the others are not offered until they speak up.
LEMMA DispatchCrashRecovers ==
  ASSUME SafeInv, NEW refused, NEW confirmed, CrashInDispatch(refused, confirmed)
  PROVE  Recovered
<1>1. TypeOK /\ DiskTyped /\ SameJobs /\ FleetOK /\ DepsInv /\ PlacesDistinct
  BY DEF SafeInv, BookInv, PlacesInv
<1>2. PICK pass, J, R :
        pass \in Passes /\ IsPass(pass, refused, confirmed) /\ HalfPass(pass, Won(pass, refused), J, R)
  BY KilledInPass
<1>3. Started(HalfGiven(pass, J), HalfReserved(R))
  BY <1>2 DEF HalfPass
<1>4. TypeOK'
  <2>1. Killed
    BY <1>1, DispatchCrashKills
  <2>2. QED
    BY <2>1, BookKilled DEF SafeInv, BookInv
<1>5. /\ J \subseteq Pending
      /\ \A j \in J : pass[j] \in known \cap R /\ available[pass[j]]
      /\ \A i, j \in J : pass[i] = pass[j] => i = j
  BY <1>1, <1>2, PassGives DEF HalfPass
<1>6. \A j \in Jobs : HalfGiven(pass, J)[j] =
        IF j \in J THEN [JobRecord(j) EXCEPT !.status = "assigned", !.robotOf = pass[j],
                                             !.attempt = attempt[j] + 1]
                   ELSE JobRecord(j)
  BY DEF HalfGiven, SafeInv, Current
<1>7. \A j \in Jobs :
        /\ status'[j] = IF j \in J THEN "assigned" ELSE status[j]
        /\ robotOf'[j] = IF j \in J THEN pass[j] ELSE robotOf[j]
        /\ attempt'[j] = IF j \in J THEN attempt[j] + 1 ELSE attempt[j]
        /\ deps'[j] = deps[j]
  <2> DEFINE row(j) == HalfGiven(pass, J)[j]
  <2>1. \A j \in Jobs : /\ status'[j] = row(j).status /\ robotOf'[j] = row(j).robotOf
                        /\ attempt'[j] = row(j).attempt /\ deps'[j] = row(j).deps
    BY <1>3 DEF Started
  <2>2. ASSUME NEW j \in Jobs, j \in J
        PROVE  /\ row(j).status = "assigned" /\ row(j).robotOf = pass[j]
               /\ row(j).attempt = attempt[j] + 1 /\ row(j).deps = deps[j]
    BY <1>6, <2>2 DEF JobRecord
  <2>3. ASSUME NEW j \in Jobs, j \notin J
        PROVE  /\ row(j).status = status[j] /\ row(j).robotOf = robotOf[j]
               /\ row(j).attempt = attempt[j] /\ row(j).deps = deps[j]
    <3>1. row(j) = JobRecord(j)
      BY <1>6, <2>3
    <3>2. QED
      BY <3>1 DEF JobRecord
  <2> HIDE DEF row
  <2>4. QED
    BY <2>1, <2>2, <2>3
<1>8. \A r \in Robots : /\ HalfReserved(R)[r].known = (r \in known)
                        /\ HalfReserved(R)[r].available = (available[r] /\ r \notin R)
  BY <1>1 DEF HalfReserved, SafeInv, Current, RobotRecord, TypeOK
<1>9. /\ known' = known
      /\ available' = [r \in Robots |-> available[r] /\ r \notin R]
      /\ \A r \in Robots : held'[r] => held[r]
  BY <1>1, <1>3, <1>8 DEF Started, TypeOK
<1>10. /\ status' = [j \in Jobs |-> IF j \in J THEN "assigned" ELSE status[j]]
       /\ robotOf' = [j \in Jobs |-> IF j \in J THEN pass[j] ELSE robotOf[j]]
       /\ deps' = deps
  BY <1>1, <1>4, <1>7 DEF TypeOK
<1>11. FleetOK'
  <2>1. J \in SUBSET Pending
    BY <1>5
  <2>2. QED
    BY <1>1, <1>5, <1>9, <1>10, <2>1, HandOutSafe
<1>12. \A j \in J : status[j] = "pending"
  BY <1>5 DEF Pending
<1>13. DepsInv'
  BY <1>1, <1>7, <1>10, <1>12, GivenOrBackKeeps DEF GivenOrBack, Keeps
<1>14. \A j \in Jobs : Lives(j)
  BY <1>7, <1>12 DEF Lives, Starts, Stays, SameWorkload
<1>15. Acyclic'
  BY <1>10 DEF SafeInv, Acyclic
<1>16. QED
  BY <1>4, <1>11, <1>13, <1>14, <1>15 DEF Recovered

\* Some jobs wait with a verdict that is out of date, but none of them is
\* pending too early and none waits for dependencies that are all done.
LEMMA RetryCrashRecovers ==
  ASSUME SafeInv, NEW q \in Requests, NEW j \in SameWork(q), CrashInRetry(q, j)
  PROVE  Recovered
<1>1. TypeOK /\ DiskTyped /\ SameJobs /\ FleetOK /\ DepsInv
  BY DEF SafeInv, BookInv
<1>2. j \in Jobs /\ status[j] \in {"failed", "cancelled"} /\ q \in RequestType /\ MayRetry(q, j)
  BY <1>1, KilledInRetry
<1>3. PICK st \in [Jobs -> Status] :
        /\ st[j] \in Waiting
        /\ \A i \in Jobs \ {j} : status[i] \in Waiting <=> st[i] \in Waiting
        /\ \A i \in Jobs \ {j} : st[i] # status[i] => status[i] \in Waiting
        /\ Settled(WaitingIn(st), st, [deps EXCEPT ![j] = q.deps])
        /\ \E J \in SUBSET {i \in Jobs \ {j} : st[i] # status[i]} :
             Started(HalfRetried(q, j, st, J), diskRobots)
  BY <1>1, KilledInRetry
<1>4. PICK J \in SUBSET {i \in Jobs \ {j} : st[i] # status[i]} :
        Started(HalfRetried(q, j, st, J), diskRobots)
  BY <1>3
<1>5. TypeOK'
  <2>1. Killed
    BY <1>1, RetryCrashKills
  <2>2. QED
    BY <2>1, BookKilled DEF SafeInv, BookInv
<1>6. \A i \in Jobs : HalfRetried(q, j, st, J)[i] =
        IF i = j THEN [JobRecord(j) EXCEPT !.ask = q.ask, !.deps = q.deps,
                                           !.robotOf = NoRobot, !.status = st[j]]
        ELSE IF i \in J THEN [JobRecord(i) EXCEPT !.status = st[i]] ELSE JobRecord(i)
  BY DEF HalfRetried, SafeInv, Current
<1>7. \A i \in Jobs :
        /\ status'[i] = IF i \in J \cup {j} THEN st[i] ELSE status[i]
        /\ robotOf'[i] = IF i = j THEN NoRobot ELSE robotOf[i]
        /\ attempt'[i] = attempt[i]
        /\ deps'[i] = IF i = j THEN q.deps ELSE deps[i]
  <2> DEFINE row(i) == HalfRetried(q, j, st, J)[i]
  <2>1. \A i \in Jobs : /\ status'[i] = row(i).status /\ robotOf'[i] = row(i).robotOf
                        /\ attempt'[i] = row(i).attempt /\ deps'[i] = row(i).deps
    BY <1>4 DEF Started
  <2>2. /\ row(j).status = st[j] /\ row(j).robotOf = NoRobot
        /\ row(j).attempt = attempt[j] /\ row(j).deps = q.deps
    BY <1>2, <1>6 DEF JobRecord
  <2>3. ASSUME NEW i \in Jobs, i # j
        PROVE  /\ row(i).status = IF i \in J THEN st[i] ELSE status[i]
               /\ row(i).robotOf = robotOf[i]
               /\ row(i).attempt = attempt[i] /\ row(i).deps = deps[i]
    <3>1. row(i) = IF i \in J THEN [JobRecord(i) EXCEPT !.status = st[i]] ELSE JobRecord(i)
      BY <1>6, <2>3
    <3>2. CASE i \in J
      BY <3>1, <3>2 DEF JobRecord
    <3>3. CASE i \notin J
      <4>1. row(i) = JobRecord(i)
        BY <3>1, <3>3
      <4>2. QED
        BY <3>3, <4>1 DEF JobRecord
    <3>4. QED
      BY <3>2, <3>3
  <2> HIDE DEF row
  <2>4. QED
    BY <2>1, <2>2, <2>3
<1>8. /\ known' = known
      /\ \A r \in Robots : available'[r] = available[r] /\ held'[r] = FALSE
  BY <1>1, <1>4 DEF Started, SafeInv, Current, RobotRecord, TypeOK
<1>9. \A i \in J : status[i] \in Waiting /\ st[i] \in Waiting
  BY <1>3
<1>10. FleetOK'
  <2>1. \A i \in Jobs : status'[i] \in InFlight =>
          status[i] \in InFlight /\ status'[i] = status[i] /\ robotOf'[i] = robotOf[i]
    BY <1>3, <1>7, <1>9 DEF InFlight, Waiting
  <2>2. \A i \in Jobs : status'[i] \in Waiting \cup {"cancelled", Absent} => robotOf'[i] = NoRobot
    BY <1>1, <1>7, <1>9 DEF FleetOK, Answerable, AbsentHasNone
  <2>3. NoneGiven
    BY <1>1, <1>8, <2>1, <2>2 DEF NoneGiven, FleetOK, Answerable
  <2>4. QED
    BY <1>1, <1>5, <2>3, NoneGivenSafe
<1>11. \A i \in Jobs : /\ status'[i] = "done" <=> status[i] = "done"
                       /\ st[i] = "done" <=> status[i] = "done"
                       /\ status'[i] = Absent <=> status[i] = Absent
                       /\ st[i] = Absent <=> status[i] = Absent
  BY <1>2, <1>3, <1>7, <1>9 DEF Waiting, Absent
<1>12. q.deps \subseteq Live(status) \ {j}
  BY <1>2 DEF MayRetry
<1>13. DepsInv'
  <2>1. DependenciesKnown'
    BY <1>1, <1>2, <1>7, <1>11, <1>12 DEF DepsInv, DependenciesKnown, Live, Absent
  <2>2. DependenciesDone'
    <3>1. \A i \in Jobs : status'[i] \in InFlight \cup {"done", "failed"} =>
            i # j /\ status'[i] = status[i] /\ deps'[i] = deps[i] /\ deps[i] \subseteq Jobs
      BY <1>1, <1>3, <1>7, <1>9 DEF InFlight, Waiting, TypeOK
    <3>2. QED
      BY <1>1, <1>11, <3>1 DEF DepsInv, DependenciesDone
  <2>3. WaitsRight'
    <3>1. ASSUME NEW i \in Jobs, status'[i] \in Waiting
          PROVE  status'[i] = "pending" <=> \A d \in deps'[i] : status'[d] = "done"
      <4>1. CASE i = j
        <5>1. st[j] = ComputeStatus(st, q.deps)
          BY <1>1, <1>2, <1>3 DEF Settled, WaitingIn, TypeOK
        <5>2. \A d \in q.deps : d \in Jobs /\ st[d] # Absent
          BY <1>11, <1>12 DEF Live
        <5>3. st[j] = "pending" <=> \A d \in q.deps : st[d] = "done"
          BY <5>1, <5>2, VerdictWaitsRight
        <5>4. QED
          BY <1>2, <1>7, <1>11, <4>1, <5>2, <5>3
      <4>2. CASE i \in J
        <5>1. i # j /\ st[i] \in Waiting /\ deps[i] \subseteq Jobs
          BY <1>1, <1>9, <4>2 DEF TypeOK
        <5>2. st[i] = ComputeStatus(st, deps[i])
          BY <1>1, <1>2, <1>3, <5>1 DEF Settled, WaitingIn, TypeOK
        <5>3. status[i] # Absent
          BY <1>9, <4>2 DEF Waiting, Absent
        <5>4. \A d \in deps[i] : d \in Jobs /\ st[d] # Absent
          BY <1>1, <1>11, <5>1, <5>3 DEF DepsInv, DependenciesKnown, Live
        <5>5. st[i] = "pending" <=> \A d \in deps[i] : st[d] = "done"
          BY <5>2, <5>4, VerdictWaitsRight
        <5>6. QED
          BY <1>7, <1>11, <4>2, <5>1, <5>4, <5>5
      <4>3. CASE i # j /\ i \notin J
        <5>1. status'[i] = status[i] /\ deps'[i] = deps[i] /\ deps[i] \subseteq Jobs
          BY <1>1, <1>7, <4>3 DEF TypeOK
        <5>2. status[i] = "pending" <=> \A d \in deps[i] : status[d] = "done"
          BY <1>1, <3>1, <5>1 DEF DepsInv, WaitsRight
        <5>3. QED
          BY <1>11, <5>1, <5>2
      <4>4. QED
        BY <4>1, <4>2, <4>3
    <3>2. QED
      BY <3>1 DEF WaitsRight
  <2>4. QED
    BY <2>1, <2>2, <2>3 DEF DepsInv
<1>14. ASSUME NEW i \in Jobs
       PROVE  Lives(i)
  <2>1. CASE i = j
    BY <1>2, <1>3, <1>7, <1>12, <2>1 DEF Lives, Retries
  <2>2. CASE i # j
    BY <1>7, <1>9, <2>2 DEF Lives, Stays, SameWorkload
  <2>3. QED
    BY <2>1, <2>2
<1>15. Acyclic'
  BY <1>1, <1>2, <1>7, RetryAcyclic DEF SafeInv
<1>16. QED
  BY <1>5, <1>10, <1>13, <1>14, <1>15 DEF Recovered

-----------------------------------------------------------------------------
LEMMA SafeInit == DurableInit => SafeInv
<1> SUFFICES ASSUME DurableInit
             PROVE  SafeInv
  OBVIOUS
<1>1. BookInv /\ Init
  BY BookInit DEF DurableInit
<1>2. Current
  BY DEF DurableInit, Current
<1>3. FleetOK
  BY <1>1 DEF Init, FleetOK, Reserved, OneJobPerRobot, Answerable, AbsentHasNone,
              HeldNotOffered, Absent, InFlight
<1>4. DepsInv /\ Acyclic /\ AbsentNeverRan
  BY <1>1, QueueInit, LifeInvInit DEF LifeInv, QueueInv
<1>5. QED
  BY <1>1, <1>2, <1>3, <1>4 DEF SafeInv

LEMMA SafeNext ==
  ASSUME ~StoreMayFail, SafeInv, [DurableNext]_durableVars
  PROVE  SafeInv' /\ TypeOK' /\ \A j \in Jobs : Lives(j)
<1>1. /\ TypeOK /\ DiskTyped /\ SameJobs /\ FleetOK /\ DepsInv
      /\ FleetInv /\ LifeInv /\ BookInv' /\ TypeOK'
  BY BookNext DEF SafeInv, BookInv, FleetInv, FleetOK, LifeInv
<1>2. CASE Works \/ UNCHANGED durableVars
  <2>1. [Next]_vars
    BY <1>1, <1>2, WorksOn DEF RunsOn, durableVars
  <2>2. FleetInv' /\ LifeInv' /\ Acyclic' /\ \A j \in Jobs : Lives(j)
    BY <1>1, <2>1, FleetNext, LifeInvNext, AcyclicNext DEF SafeInv, DepsInv
  <2>3. Current'
    BY <1>1, <1>2, WorksCurrent DEF SafeInv
  <2>4. QED
    BY <1>1, <2>2, <2>3 DEF SafeInv, FleetInv, FleetOK, LifeInv
<1>3. CASE \/ Crash
           \/ \E refused \in Refusals, confirmed \in Confirmations :
                CrashInDispatch(refused, confirmed)
           \/ \E q \in Requests : \E j \in SameWork(q) : CrashInRetry(q, j)
  <2>1. Recovered
    BY <1>3, CrashRecovers, DispatchCrashRecovers, RetryCrashRecovers
  <2>2. Killed
    BY <1>1, <1>3, CrashKills, DispatchCrashKills, RetryCrashKills
  <2>3. Current'
    BY <2>2, StartedCurrent DEF Killed
  <2>4. AbsentNeverRan'
    BY <1>1, <2>1, AbsentNeverRanNext DEF Recovered
  <2>5. QED
    BY <1>1, <2>1, <2>3, <2>4 DEF SafeInv, Recovered
<1>4. QED
  BY <1>2, <1>3 DEF DurableNext, Works

LEMMA SafeHolds ==
  ASSUME ~StoreMayFail
  PROVE  DurableSpec => []SafeInv
<1>1. SafeInv /\ [DurableNext]_durableVars => SafeInv'
  BY SafeNext
<1>2. QED
  BY <1>1, SafeInit, PTL DEF DurableSpec

\* Every operation writes every row it changed, and a start puts the next job
\* behind all those it finds, so a crash between two operations loses nothing.
THEOREM DiskStaysCurrent == DurableSpec => []DiskIsCurrent
<1>1. CASE StoreMayFail
  <2>1. BookInv => DiskIsCurrent
    BY <1>1 DEF BookInv, PlacesInv, PlacesBounded, DiskIsCurrent
  <2>2. QED
    BY <2>1, BookHolds, PTL
<1>2. CASE ~StoreMayFail
  <2>1. SafeInv => DiskIsCurrent
    BY <1>2 DEF SafeInv, Current, BookInv, PlacesInv, PlacesBounded, DiskIsCurrent
  <2>2. DurableSpec => []SafeInv
    BY <1>2, SafeHolds
  <2>3. QED
    BY <2>1, <2>2, PTL
<1>3. QED
  BY <1>1, <1>2

\* Although a start judges nobody again, no job waits for dependencies that are
\* all done, wherever in a pass or a retry the process was killed.
THEOREM NobodyWaitsInVain ==
  ASSUME ~StoreMayFail
  PROVE  DurableSpec => []WaitsForSomething
<1>1. SafeInv => WaitsForSomething
  BY DEF SafeInv, DepsInv, WaitsRight, WaitsForSomething, Waiting
<1>2. QED
  BY <1>1, SafeHolds, PTL

\* After any crash a job that is assigned has its robot reserved, ...
THEOREM ReservedAfterCrash ==
  ASSUME ~StoreMayFail
  PROVE  DurableSpec => []Reserved
<1>1. SafeInv => Reserved
  BY DEF SafeInv, FleetOK
<1>2. QED
  BY <1>1, SafeHolds, PTL

\* ... and for itself alone.
THEOREM NeverTwoJobsAfterCrash ==
  ASSUME ~StoreMayFail
  PROVE  DurableSpec => []OneJobPerRobot
<1>1. SafeInv => OneJobPerRobot
  BY DEF SafeInv, FleetOK
<1>2. QED
  BY <1>1, SafeHolds, PTL

\* A retry that is killed half way closes no cycle either.
THEOREM NeverCyclicAfterCrash ==
  ASSUME ~StoreMayFail
  PROVE  DurableSpec => []Acyclic
<1>1. SafeInv => Acyclic
  BY DEF SafeInv
<1>2. QED
  BY <1>1, SafeHolds, PTL

\* With crashes at any point, too, every job lives the life JobLifecycle
\* promises: what is half done on disk is a move of each job or none.
THEOREM CrashesKeepThePromise ==
  ASSUME ~StoreMayFail
  PROVE  DurableSpec => LivesAsPromised
<1>1. DurableInit => Lifecycle!LifeInit
  BY DEF DurableInit, Init, Lifecycle!LifeInit, PhaseOf, Waiting, InFlight, Absent
<1>2. SafeInv /\ [DurableNext]_durableVars => SafeInv' /\ Lifecycle!LifeNext
  <2> SUFFICES ASSUME SafeInv, [DurableNext]_durableVars
               PROVE  SafeInv' /\ Lifecycle!LifeNext
    OBVIOUS
  <2>1. SafeInv' /\ TypeOK' /\ \A j \in Jobs : Lives(j)
    BY SafeNext
  <2>2. LifeInv
    BY DEF SafeInv, BookInv, LifeInv
  <2>3. QED
    BY <2>1, <2>2, LivesAbstractly
<1>3. QED
  BY <1>1, <1>2, SafeInit, PTL DEF DurableSpec, LivesAsPromised, Lifecycle!LifeSpec
=============================================================================
