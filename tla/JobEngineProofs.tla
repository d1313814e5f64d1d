--------------------------- MODULE JobEngineProofs ---------------------------
(***************************************************************************)
(* Theorems about JobEngine for every set of jobs, robots, submissions,    *)
(* reports and replanning configurations, and for every setting of the     *)
(* flags.  Each fact is proved action by action: one lemma says that Next  *)
(* preserves it, and a theorem draws the temporal conclusion.              *)
(***************************************************************************)
EXTENDS JobEngine, JobStatusProofs

-----------------------------------------------------------------------------
\* What an operation leaves behind that gives job j the status new and then
\* calls refreshBlocked.
LEMMA RefreshedStep ==
  ASSUME TypeOK, NEW j \in Jobs, NEW new \in Status, NEW dp,
         status' \in Refreshed([status EXCEPT ![j] = new], dp)
  PROVE  /\ status' \in [Jobs -> Status]
         /\ \A i \in Jobs : i # j => (status[i] \in Waiting <=> status'[i] \in Waiting)
         /\ \A i \in Jobs : i # j /\ status[i] \notin Waiting => status'[i] = status[i]
         /\ new \in Waiting => status'[j] \in Waiting
         /\ new \notin Waiting => status'[j] = new
         /\ Settled(WaitingIn(status'), status', dp)
<1> DEFINE st == [status EXCEPT ![j] = new]
<1>1. st \in [Jobs -> Status] /\ st[j] = new /\ \A i \in Jobs : i # j => st[i] = status[i]
  BY DEF TypeOK
<1> HIDE DEF st
<1>2. /\ status' \in [Jobs -> Status]
      /\ \A i \in Jobs : st[i] \in Waiting <=> status'[i] \in Waiting
      /\ \A i \in Jobs : st[i] \notin Waiting => status'[i] = st[i]
      /\ Settled(WaitingIn(status'), status', dp)
  BY <1>1, RefreshedTable DEF st
<1>3. QED
  BY <1>1, <1>2

-----------------------------------------------------------------------------
\* Type correctness.

LEMMA TypedInit == Init => TypeOK
BY ReplanTyped DEF Init, TypeOK, Status, NoRobot, NoAsk, AskType, Place, NoBody,
   BodyType, NoStop, StopType

LEMMA SubmitTyped ==
  ASSUME TypeOK, NEW q \in Requests, SubmitJob(q)
  PROVE  TypeOK'
<1> USE DEF TypeOK, robotVars
<1>0. q.id \in Jobs /\ q.key \in Keys \cup {NoKey} /\ q.ask \in AskType /\ q.deps \in SUBSET Jobs
  BY RequestsTyped DEF RequestType
<1>1. CASE AddJob(q)
  <2>1. ComputeStatus(status, q.deps) \in Status
    BY VerdictWaits DEF Status
  <2>2. NextPlace(q) \in Nat
    BY DEF NextPlace
  <2>3. QED
    BY <1>0, <1>1, <2>1, <2>2 DEF AddJob
<1>2. ASSUME NEW j \in SameWork(q), RetryJob(q, j)
      PROVE  TypeOK'
  <2>1. j \in Jobs
    BY <1>0, <1>2 DEF SameWork
  <2>2. [status EXCEPT ![j] = ComputeStatus(status, q.deps)] \in [Jobs -> Status]
    BY VerdictWaits DEF Status
  <2>3. status' \in [Jobs -> Status]
    BY <1>2, <2>2, RefreshedTable DEF RetryJob, MayRetry
  <2>4. QED
    BY <1>0, <1>2, <2>1, <2>3 DEF RetryJob, MayRetry
<1>3. QED
  BY <1>1, <1>2 DEF SubmitJob

LEMMA RequeueTyped ==
  ASSUME TypeOK, NEW J \in SUBSET Jobs, NEW extra \in SUBSET Robots, RequeueAll(J, extra)
  PROVE  /\ status' \in [Jobs -> Status] /\ robotOf' \in [Jobs -> Robots \cup {NoRobot}]
         /\ available' \in [Robots -> BOOLEAN] /\ held' \in [Robots -> BOOLEAN]
<1>1. \A j \in Jobs : ComputeStatus(status, deps[j]) \in Status
  BY VerdictWaits DEF Status
<1>2. QED
  BY <1>1 DEF RequeueAll, TypeOK

LEMMA NoStopTyped == NoStop \in StopType
BY DEF NoStop, StopType, NoRobot

\* RequeueJob, ReplanRobot and AckStop.
LEMMA WayBackTyped ==
  ASSUME TypeOK,
         \/ \E j \in Jobs, r \in Robots \cup {NoRobot} : RequeueJob(j, r)
         \/ \E r \in Robots : ReplanRobot(r)
         \/ \E r \in Robots, j \in Jobs : AckStop(r, j)
  PROVE  TypeOK'
<1>1. ASSUME NEW j \in Jobs, NEW r, RequeueJob(j, r)
      PROVE  TypeOK'
  BY <1>1, RequeueTyped, NoStopTyped DEF RequeueJob, TypeOK
<1>2. ASSUME NEW r \in Robots, ReplanRobot(r)
      PROVE  TypeOK'
  <2> DEFINE J == HeldJobs(r, InFlight)
  <2>1. J \in SUBSET Jobs /\ {r} \in SUBSET Robots
    BY DEF HeldJobs
  <2>2. RequeueAll(J, {r}) /\ stopReq' = [j \in Jobs |-> IF j \in J THEN NoStop ELSE stopReq[j]]
    BY <1>2 DEF ReplanRobot
  <2> HIDE DEF J
  <2>3. /\ status' \in [Jobs -> Status] /\ robotOf' \in [Jobs -> Robots \cup {NoRobot}]
        /\ available' \in [Robots -> BOOLEAN] /\ held' \in [Robots -> BOOLEAN]
    BY <2>1, <2>2, RequeueTyped
  <2>4. QED
    BY <1>2, <2>2, <2>3, NoStopTyped DEF ReplanRobot, TypeOK
<1>3. ASSUME NEW r \in Robots, NEW j \in Jobs, AckStop(r, j)
      PROVE  TypeOK'
  BY <1>3, RequeueTyped, NoStopTyped DEF AckStop, TypeOK
<1>4. QED
  BY <1>1, <1>2, <1>3

\* A report never writes a mark for "left out" into the registry.
LEMMA MergeTyped ==
  ASSUME NEW p \in Reports, NEW old \in BodyType
  PROVE  Merge(p, old) \in BodyType
<1>1. p \in ReportType
  BY ReportsTyped
<1>2. QED
  BY <1>1 DEF Merge, Given, BodyType, ReportType

LEMMA UpdateTyped ==
  ASSUME TypeOK, NEW p \in Reports, UpdateRobot(p)
  PROVE  TypeOK'
<1>0. p.robot \in Robots /\ p.available \in BOOLEAN \cup {Keep}
  BY ReportsTyped DEF ReportType
<1>1. CASE Register(p)
  <2>1. NoBody \in BodyType
    BY DEF NoBody, BodyType, Place
  <2>2. Merge(p, NoBody) \in BodyType
    BY <2>1, MergeTyped
  <2>3. Given(p.available, FALSE) \in BOOLEAN
    BY <1>0 DEF Given
  <2>4. QED
    BY <1>0, <1>1, <2>2, <2>3 DEF Register, TypeOK, jobVars
<1>2. CASE Heartbeat(p)
  <2> DEFINE r == p.robot
             J == HeldJobs(r, {"assigned"})
  <2>1. Merge(p, body[r]) \in BodyType
    BY <1>0, MergeTyped DEF TypeOK
  <2>2. J \in SUBSET Jobs /\ {r} \in SUBSET Robots
    BY <1>0 DEF HeldJobs
  <2>3. /\ status' \in [Jobs -> Status] /\ robotOf' \in [Jobs -> Robots \cup {NoRobot}]
        /\ available' \in [Robots -> BOOLEAN] /\ held' \in [Robots -> BOOLEAN]
        /\ stopReq' \in [Jobs -> StopType]
    <3>1. CASE RequeueAll(J, {r}) /\ stopReq' = [j \in Jobs |-> IF j \in J THEN NoStop ELSE stopReq[j]]
      <4> HIDE DEF J
      <4>1. /\ status' \in [Jobs -> Status] /\ robotOf' \in [Jobs -> Robots \cup {NoRobot}]
            /\ available' \in [Robots -> BOOLEAN] /\ held' \in [Robots -> BOOLEAN]
        BY <2>2, <3>1, RequeueTyped
      <4>2. QED
        BY <3>1, <4>1, NoStopTyped DEF TypeOK
    <3>2. CASE /\ UNCHANGED <<status, robotOf, stopReq>>
               /\ \/ UNCHANGED <<available, held>>
                  \/ /\ p.available # Keep
                     /\ available' = [available EXCEPT ![r] = p.available]
                     /\ held' = [held EXCEPT ![r] = ~p.available]
                  \/ UNCHANGED available /\ held' = [held EXCEPT ![r] = TRUE]
      BY <1>0, <3>2 DEF TypeOK
    <3>3. QED
      BY <1>2, <3>1, <3>2 DEF Heartbeat
  <2>4. QED
    BY <1>0, <1>2, <2>1, <2>3 DEF Heartbeat, TypeOK
<1>3. QED
  BY <1>1, <1>2 DEF UpdateRobot

LEMMA RemoveTyped ==
  ASSUME TypeOK, NEW r \in Robots, RemoveRobot(r)
  PROVE  TypeOK'
BY DEF RemoveRobot, TypeOK, jobVars, NoBody, BodyType, Place

LEMMA DispatchTyped ==
  ASSUME TypeOK, NEW refused, NEW confirmed, DispatchOnce(refused, confirmed)
  PROVE  TypeOK'
<1>1. PICK pass \in Passes :
        LET won == Won(pass, refused)
        IN  /\ status' = [j \in Jobs |-> IF j \in won THEN "assigned" ELSE status[j]]
            /\ robotOf' = [j \in Jobs |-> IF j \in won THEN pass[j] ELSE robotOf[j]]
            /\ attempt' = Counted(won)
            /\ available' = [r \in Robots |-> available[r] /\ r \notin ReservedBy(pass, refused)]
  BY DEF DispatchOnce, Assign
<1>2. /\ UNCHANGED <<ask, deps, seq, key, nextSeq, dedupIndex>>
      /\ UNCHANGED <<known, held, load, body, heard, stopReq, replan>>
  BY DEF DispatchOnce, Assign
<1>3. Won(pass, refused) \subseteq Pending
  BY DEF Won
<1>4. QED
  BY <1>1, <1>2, <1>3 DEF Passes, TypeOK, Counted, Status, InFlight

LEMMA CompleteTyped ==
  ASSUME TypeOK, NEW j \in Jobs, NEW r \in Robots, NEW n, NEW success,
         CompleteJobAttempt(j, r, n, success)
  PROVE  TypeOK'
<1>1. [status EXCEPT ![j] = IF success THEN "done" ELSE "failed"] \in [Jobs -> Status]
  BY DEF TypeOK, Status, Finished
<1>2. status' \in [Jobs -> Status]
  BY <1>1, RefreshedTable DEF CompleteJobAttempt
<1>3. \A t : ComesBack(r, t) \in BOOLEAN
  BY DEF ComesBack, Active, TypeOK
<1>4. QED
  BY <1>2, <1>3 DEF CompleteJobAttempt, TypeOK

LEMMA CancelTyped ==
  ASSUME TypeOK, NEW j \in Jobs, CancelJob(j)
  PROVE  TypeOK'
<1>1. [status EXCEPT ![j] = "cancelled"] \in [Jobs -> Status]
  BY DEF TypeOK, Status, Finished
<1>2. status' \in [Jobs -> Status]
  BY <1>1, RefreshedTable DEF CancelJob
<1>3. QED
  BY <1>2 DEF CancelJob, TypeOK, robotVars

LEMMA StaleTyped ==
  ASSUME TypeOK, NEW S \in SUBSET Robots, DetectStale(S)
  PROVE  TypeOK'
<1>1. \A j \in Jobs : ComputeStatus(status, deps[j]) \in Status
  BY VerdictWaits DEF Status
<1>2. status' \in [Jobs -> Status] /\ robotOf' \in [Jobs -> Robots \cup {NoRobot}]
  BY <1>1 DEF DetectStale, TypeOK, Status, InFlight
<1>3. available' \in [Robots -> BOOLEAN] /\ held' \in [Robots -> BOOLEAN]
  BY DEF DetectStale, TypeOK
<1>4. stopReq' \in [Jobs -> StopType]
  <2>1. \A j \in Jobs : [robot |-> robotOf[j], attempt |-> attempt[j],
                        due |-> FALSE, expired |-> FALSE] \in StopType
    BY DEF TypeOK, StopType
  <2>2. \A j \in Jobs : [stopReq[j] EXCEPT !.expired = TRUE] \in StopType
    BY DEF TypeOK, StopType
  <2>3. QED
    BY <2>1, <2>2, NoStopTyped DEF DetectStale, TypeOK
<1>5. QED
  BY <1>2, <1>3, <1>4 DEF DetectStale, TypeOK

LEMMA ArchiveTyped ==
  ASSUME TypeOK, NEW old, ArchiveFinished(old)
  PROVE  TypeOK'
BY NoStopTyped DEF ArchiveFinished, TypeOK, robotVars, IndexWithout, Status, NoRobot,
   NoAsk, AskType, Place

\* FallSilent, StopDeadline and SetReplan.
LEMMA AroundTyped ==
  ASSUME TypeOK,
         \/ \E r \in Robots : FallSilent(r)
         \/ \E j \in Jobs : StopDeadline(j)
         \/ \E c \in ReplanConfigs : SetReplan(c)
  PROVE  TypeOK'
<1> USE DEF TypeOK, jobVars, robotVars
<1>1. ASSUME NEW r \in Robots, FallSilent(r)
      PROVE  TypeOK'
  BY <1>1 DEF FallSilent
<1>2. ASSUME NEW j \in Jobs, StopDeadline(j)
      PROVE  TypeOK'
  BY <1>2 DEF StopDeadline, StopType
<1>3. ASSUME NEW c \in ReplanConfigs, SetReplan(c)
      PROVE  TypeOK'
  BY <1>3, ReplanTyped DEF SetReplan
<1>4. QED
  BY <1>1, <1>2, <1>3

\* Whatever a sweep takes for silent is in the registry.
LEMMA SweepsKnown == ASSUME TypeOK PROVE Sweeps \subseteq SUBSET known
BY DEF Sweeps, Silent

LEMMA TypedNext == TypeOK /\ [Next]_vars => TypeOK'
<1> SUFFICES ASSUME TypeOK, [Next]_vars
             PROVE  TypeOK'
  OBVIOUS
<1>1. CASE UNCHANGED vars
  BY <1>1 DEF vars, jobVars, robotVars, TypeOK
<1>2. CASE \E S \in Sweeps : DetectStale(S)
  <2>1. Sweeps \subseteq SUBSET Robots
    BY SweepsKnown DEF TypeOK
  <2>2. QED
    BY <1>2, <2>1, StaleTyped
<1>3. QED
  BY <1>1, <1>2, SubmitTyped, WayBackTyped, UpdateTyped, RemoveTyped, DispatchTyped,
     CompleteTyped, CancelTyped, ArchiveTyped, AroundTyped DEF Next

\* Every operation leaves the queue, the registry and the stop requests well
\* formed: in particular refreshBlocked only ever writes waiting statuses, and a
\* heartbeat never stores the absence of a field.
THEOREM Typed == Spec => []TypeOK
<1>1. QED
  BY TypedInit, TypedNext, PTL DEF Spec

-----------------------------------------------------------------------------
\* Jobs and their robots.  Whether two jobs may get one robot is decided by the
\* order of the pass (PlacesDistinct) and by what is reserved already, and a
\* heartbeat may overwrite what is reserved only if no job counts on it: the
\* safety invariants need each other, and two facts more.

\* The next place is beyond those given out.
PlacesBounded == \A j \in Live(status) : seq[j] <= nextSeq

\* A job that is not in the queue has no robot left over.
AbsentHasNone == \A j \in Jobs : status[j] = Absent => robotOf[j] = NoRobot

PlacesInv == PlacesDistinct /\ PlacesBounded

FleetInv ==
  /\ TypeOK
  /\ PlacesInv
  /\ Reserved
  /\ OneJobPerRobot
  /\ Answerable /\ AbsentHasNone
  /\ HeldNotOffered

\* What only a new submission and the archive change: which jobs the queue holds,
\* their places and their keys.
SameQueue ==
  /\ UNCHANGED <<seq, nextSeq, key, dedupIndex>>
  /\ \A j \in Jobs : (status'[j] = Absent) <=> (status[j] = Absent)

LEMMA RequeueSameQueue ==
  ASSUME NEW J, NEW extra, RequeueAll(J, extra), \A j \in J : status[j] # Absent,
         UNCHANGED <<seq, nextSeq, key, dedupIndex>>
  PROVE  SameQueue
BY VerdictWaits DEF RequeueAll, SameQueue, Waiting, Absent

LEMMA RefreshSameQueue ==
  ASSUME TypeOK, NEW j \in Jobs, status[j] # Absent, NEW new \in Status \ {Absent}, NEW dp,
         status' \in Refreshed([status EXCEPT ![j] = new], dp),
         UNCHANGED <<seq, nextSeq, key, dedupIndex>>
  PROVE  SameQueue
<1>1. /\ \A i \in Jobs : i # j => (status[i] \in Waiting <=> status'[i] \in Waiting)
      /\ \A i \in Jobs : i # j /\ status[i] \notin Waiting => status'[i] = status[i]
      /\ new \in Waiting => status'[j] \in Waiting
      /\ new \notin Waiting => status'[j] = new
  BY RefreshedStep
<1>2. QED
  BY <1>1 DEF SameQueue, Waiting, Absent

\* The operations other than a new submission and the archive.
OnTheSameQueue ==
  \/ \E q \in Requests : \E j \in SameWork(q) : RetryJob(q, j)
  \/ \E p \in Reports : UpdateRobot(p)
  \/ \E r \in Robots : RemoveRobot(r)
  \/ \E refused, confirmed : DispatchOnce(refused, confirmed)
  \/ \E j \in Jobs : \E r, n, success : CompleteJobAttempt(j, r, n, success)
  \/ \E j \in Jobs : CancelJob(j)
  \/ \E j \in Jobs : \E r : RequeueJob(j, r)
  \/ \E r \in Robots : ReplanRobot(r)
  \/ \E j \in Jobs : \E r : AckStop(r, j)
  \/ \E S : DetectStale(S)
  \/ \E r \in Robots : FallSilent(r)
  \/ \E j \in Jobs : StopDeadline(j)
  \/ \E c \in ReplanConfigs : SetReplan(c)
  \/ UNCHANGED vars

LEMMA SameQueueKept ==
  ASSUME TypeOK, OnTheSameQueue
  PROVE  SameQueue
<1>1. ASSUME NEW q \in Requests, NEW j \in SameWork(q), RetryJob(q, j)
      PROVE  SameQueue
  <2>1. j \in Jobs /\ status[j] # Absent
    BY <1>1, RequestsTyped DEF SameWork, TypeOK, RequestType, RetryJob, MayRetry, MayRunAgain, Absent
  <2>2. ComputeStatus(status, q.deps) \in Status \ {Absent}
    BY VerdictWaits DEF Status, Waiting, Absent
  <2>3. QED
    BY <1>1, <2>1, <2>2, RefreshSameQueue DEF RetryJob, MayRetry
<1>2. ASSUME NEW j \in Jobs, NEW r, RequeueJob(j, r) \/ AckStop(r, j)
      PROVE  SameQueue
  BY <1>2, RequeueSameQueue DEF RequeueJob, AckStop, InFlight, Absent
<1>3. ASSUME NEW r \in Robots, ReplanRobot(r)
      PROVE  SameQueue
  <2>1. \A j \in HeldJobs(r, InFlight) : status[j] # Absent
    BY DEF HeldJobs, InFlight, Absent
  <2>2. QED
    BY <1>3, <2>1, RequeueSameQueue DEF ReplanRobot
<1>4. ASSUME NEW p \in Reports, UpdateRobot(p)
      PROVE  SameQueue
  <2>1. CASE UNCHANGED status
    BY <1>4, <2>1 DEF UpdateRobot, Register, Heartbeat, jobVars, SameQueue
  <2>2. CASE Heartbeat(p) /\ RequeueAll(HeldJobs(p.robot, {"assigned"}), {p.robot})
    <3>1. \A j \in HeldJobs(p.robot, {"assigned"}) : status[j] # Absent
      BY DEF HeldJobs, Absent
    <3>2. QED
      BY <2>2, <3>1, RequeueSameQueue DEF Heartbeat
  <2>3. QED
    BY <1>4, <2>1, <2>2 DEF UpdateRobot, Register, Heartbeat, jobVars
<1>5. ASSUME NEW refused, NEW confirmed, DispatchOnce(refused, confirmed)
      PROVE  SameQueue
  <2>1. /\ UNCHANGED <<seq, nextSeq, key, dedupIndex>>
        /\ \E pass : status' = [j \in Jobs |->
                        IF j \in Won(pass, refused) THEN "assigned" ELSE status[j]]
    BY <1>5 DEF DispatchOnce, Assign
  <2>2. \A j \in Pending : status[j] # Absent
    BY DEF Pending, Absent
  <2>3. QED
    BY <2>1, <2>2 DEF Won, SameQueue, Absent
<1>6. ASSUME NEW j \in Jobs, NEW r, NEW n, NEW success, CompleteJobAttempt(j, r, n, success)
      PROVE  SameQueue
  <2>1. (IF success THEN "done" ELSE "failed") \in Status \ {Absent}
    BY DEF Status, Finished, Absent
  <2>2. status[j] # Absent
    BY <1>6 DEF CompleteJobAttempt, InFlight, Absent
  <2>3. QED
    BY <1>6, <2>1, <2>2, RefreshSameQueue DEF CompleteJobAttempt
<1>7. ASSUME NEW j \in Jobs, CancelJob(j)
      PROVE  SameQueue
  <2>1. "cancelled" \in Status \ {Absent}
    BY DEF Status, Finished, Absent
  <2>2. status[j] # Absent
    BY <1>7 DEF CancelJob, Waiting, Absent
  <2>3. QED
    BY <1>7, <2>1, <2>2, RefreshSameQueue DEF CancelJob
<1>8. ASSUME NEW S, DetectStale(S)
      PROVE  SameQueue
  <2>1. \A j \in Jobs : ComputeStatus(status, deps[j]) # Absent
    BY VerdictWaits DEF Waiting, Absent
  <2>2. \A j \in Jobs :
          \/ status'[j] = status[j]
          \/ status[j] = "assigned" /\ status'[j] = "unknown"
          \/ status[j] = "assigned" /\ status'[j] = ComputeStatus(status, deps[j])
    BY <1>8 DEF DetectStale
  <2>3. UNCHANGED <<seq, nextSeq, key, dedupIndex>>
    BY <1>8 DEF DetectStale
  <2>4. QED
    BY <2>1, <2>2, <2>3 DEF SameQueue, Absent
<1>9. ASSUME \/ \E r \in Robots : RemoveRobot(r) \/ FallSilent(r)
             \/ \E j \in Jobs : StopDeadline(j)
             \/ \E c \in ReplanConfigs : SetReplan(c)
             \/ UNCHANGED vars
      PROVE  SameQueue
  BY <1>9 DEF RemoveRobot, FallSilent, StopDeadline, SetReplan, vars, jobVars, SameQueue
<1>10. QED
  BY <1>1, <1>2, <1>3, <1>4, <1>5, <1>6, <1>7, <1>8, <1>9 DEF OnTheSameQueue

LEMMA QueueChanges ==
  ASSUME TypeOK, [Next]_vars
  PROVE  \/ SameQueue
         \/ \E q \in Requests : SameWork(q) = {} /\ AddJob(q)
         \/ \E old : ArchiveFinished(old)
<1>1. \/ OnTheSameQueue
      \/ \E q \in Requests : SameWork(q) = {} /\ AddJob(q)
      \/ \E old : ArchiveFinished(old)
  BY DEF Next, SubmitJob, OnTheSameQueue
<1>2. QED
  BY <1>1, SameQueueKept

\* Places are only given out by addJobLocked and only taken back by the archive.
LEMMA PlacesNext ==
  ASSUME TypeOK, PlacesInv, [Next]_vars
  PROVE  PlacesInv'
<1> USE DEF PlacesInv, PlacesDistinct, PlacesBounded, Live
<1>1. CASE SameQueue
  BY <1>1 DEF SameQueue
<1>2. ASSUME NEW q \in Requests, AddJob(q)
      PROVE  PlacesInv'
  <2>1. q.id \in Jobs
    BY RequestsTyped DEF RequestType
  <2>2. QED
    BY <1>2, <2>1 DEF AddJob, NextPlace, TypeOK
<1>3. ASSUME NEW old, ArchiveFinished(old)
      PROVE  PlacesInv'
  BY <1>3 DEF ArchiveFinished, TypeOK
<1>4. QED
  BY <1>1, <1>2, <1>3, QueueChanges

\* A key is given out by addJobLocked only when the index has none under it,
\* and the archive takes it from the index together with its job.
LEMMA KeysNext ==
  ASSUME TypeOK, OneJobPerKey, [Next]_vars
  PROVE  OneJobPerKey'
<1> USE DEF OneJobPerKey, Live
<1>1. CASE SameQueue
  BY <1>1 DEF SameQueue
<1>2. ASSUME NEW q \in Requests, SameWork(q) = {}, AddJob(q)
      PROVE  OneJobPerKey'
  <2>1. q.id \in Jobs /\ q.key \in Keys \cup {NoKey} /\ status[q.id] = Absent
    BY <1>2, RequestsTyped DEF RequestType, AddJob
  <2>2. CASE UNCHANGED <<status, key, dedupIndex>>
    BY <2>2
  <2>3. CASE /\ status' = [status EXCEPT ![q.id] = ComputeStatus(status, q.deps)]
             /\ key' = [key EXCEPT ![q.id] = q.key]
             /\ dedupIndex' = [k \in Keys |-> IF k = q.key THEN {q.id} ELSE dedupIndex[k]]
    <3>1. /\ status'[q.id] # Absent /\ key'[q.id] = q.key
          /\ \A j \in Jobs : j # q.id => status'[j] = status[j] /\ key'[j] = key[j]
      BY <2>1, <2>3, VerdictWaits DEF TypeOK, Waiting, Absent
    <3>2. ASSUME NEW k \in Keys, k = q.key
          PROVE  dedupIndex'[k] = {j \in Live(status)' : key'[j] = k}
      <4>1. dedupIndex[k] = {}
        BY <1>2, <3>2, NoKeyFresh DEF SameWork
      <4>2. QED
        BY <2>1, <2>3, <3>1, <3>2, <4>1
    <3>3. ASSUME NEW k \in Keys, k # q.key
          PROVE  dedupIndex'[k] = {j \in Live(status)' : key'[j] = k}
      BY <2>1, <2>3, <3>1, <3>3
    <3>4. \A k \in Keys : dedupIndex'[k] = {q.id} \/ dedupIndex'[k] = dedupIndex[k]
      BY <2>3
    <3>5. QED
      BY <3>2, <3>3, <3>4
  <2>4. QED
    BY <1>2, <2>2, <2>3 DEF AddJob
<1>3. ASSUME NEW old, ArchiveFinished(old)
      PROVE  OneJobPerKey'
  BY <1>3 DEF ArchiveFinished, IndexWithout
<1>4. QED
  BY <1>1, <1>2, <1>3, QueueChanges

\* A repeated submission finds its job: the index names the one job of the
\* queue that has the key, through retries, refused writes and the archive.
THEOREM KeysNameTheirJob == Spec => []OneJobPerKey
<1>1. Init => OneJobPerKey
  BY DEF Init, OneJobPerKey, Live
<1>2. QED
  BY <1>1, KeysNext, Typed, PTL DEF Spec

\* Two jobs of the queue never share a place in the order of submission: the
\* order of a dispatch pass is total, whatever the order of the Go map.
THEOREM PlacesAreDistinct == Spec => []PlacesDistinct
<1>1. Init => PlacesInv
  BY DEF Init, PlacesInv, PlacesDistinct, PlacesBounded, Live
<1>2. PlacesInv => PlacesDistinct
  BY DEF PlacesInv
<1>3. QED
  BY <1>1, <1>2, PlacesNext, Typed, PTL DEF Spec

\* What every operation other than a dispatch does to jobs and robots: it gives
\* nobody a robot, and frees no robot that a job counts on.
NoneGiven ==
  /\ \A j \in Jobs : status'[j] \in InFlight =>
       /\ status[j] \in InFlight /\ robotOf'[j] = robotOf[j] /\ robotOf'[j] \in known'
       /\ status'[j] = "assigned" => status[j] = "assigned"
  /\ \A j \in Jobs : status'[j] \in Waiting \cup {"cancelled", Absent} => robotOf'[j] = NoRobot
  /\ \A r \in Robots : available'[r] => available[r] \/ ~Active(r, status)'
  /\ \A r \in Robots : held'[r] => ~available'[r]

FleetOK == Reserved /\ OneJobPerRobot /\ Answerable /\ AbsentHasNone /\ HeldNotOffered

LEMMA NoneGivenSafe ==
  ASSUME TypeOK, TypeOK', FleetOK, NoneGiven
  PROVE  FleetOK'
<1>1. Reserved'
  BY DEF TypeOK, FleetOK, NoneGiven, Reserved, Active, InFlight
<1>2. OneJobPerRobot'
  BY DEF FleetOK, NoneGiven, OneJobPerRobot, InFlight
<1>3. Answerable'
  BY DEF NoneGiven, Answerable
<1>4. AbsentHasNone' /\ HeldNotOffered'
  BY DEF NoneGiven, AbsentHasNone, HeldNotOffered
<1>5. QED
  BY <1>1, <1>2, <1>3, <1>4 DEF FleetOK

\* A requeue takes the robots of the requeued jobs out until they are heard.
LEMMA RequeueGivesNone ==
  ASSUME TypeOK, FleetOK, NEW J \in SUBSET Jobs, NEW extra \in SUBSET Robots,
         RequeueAll(J, extra), UNCHANGED known
  PROVE  NoneGiven
<1>1. \A j \in Jobs : status'[j] = IF j \in J THEN ComputeStatus(status, deps[j]) ELSE status[j]
  BY DEF RequeueAll
<1>2. \A j \in J : status'[j] \in Waiting
  BY <1>1, VerdictWaits
<1>3. \A j \in Jobs : robotOf'[j] = IF j \in J THEN NoRobot ELSE robotOf[j]
  BY DEF RequeueAll
<1>4. \A r \in Robots : (available'[r] => available[r]) /\ (held'[r] => ~available'[r])
  BY DEF RequeueAll, FleetOK, HeldNotOffered, TypeOK
<1>5. \A j \in Jobs \ J : status[j] \in Waiting \cup {"cancelled", Absent} => robotOf[j] = NoRobot
  BY DEF FleetOK, Answerable, AbsentHasNone
<1>6. \A j \in Jobs \ J : status[j] \in InFlight => robotOf[j] \in known
  BY DEF FleetOK, Answerable
<1>7. QED
  BY <1>1, <1>2, <1>3, <1>4, <1>5, <1>6 DEF NoneGiven, InFlight, Waiting

\* An operation that turns job j into new, outside the hands of robots, and
\* calls refreshBlocked.
LEMMA RefreshGivesNone ==
  ASSUME TypeOK, FleetOK, NEW j \in Jobs, NEW new \in Status \ InFlight, NEW dp,
         status' \in Refreshed([status EXCEPT ![j] = new], dp),
         \A i \in Jobs : i # j => robotOf'[i] = robotOf[i],
         new \in Waiting \cup {"cancelled", Absent} => robotOf'[j] = NoRobot,
         UNCHANGED <<known, held>>,
         \A r \in Robots : available'[r] => available[r] \/ (~Active(r, status)' /\ ~held[r])
  PROVE  NoneGiven
<1>1. \A i \in Jobs : i # j =>
         /\ status[i] \in Waiting <=> status'[i] \in Waiting
         /\ status[i] \notin Waiting => status'[i] = status[i]
  BY RefreshedStep
<1>2. /\ new \in Waiting => status'[j] \in Waiting
      /\ new \notin Waiting => status'[j] = new
  BY RefreshedStep
<1>3. \A i \in Jobs : status'[i] \in InFlight =>
        status[i] \in InFlight /\ status'[i] = status[i] /\ i # j
  BY <1>1, <1>2 DEF InFlight, Waiting
<1>4. \A i \in Jobs : status'[i] \in Waiting \cup {"cancelled", Absent} => robotOf'[i] = NoRobot
  BY <1>1, <1>2 DEF FleetOK, Answerable, AbsentHasNone
<1>5. \A r \in Robots : held'[r] => ~available'[r]
  BY DEF FleetOK, HeldNotOffered
<1>6. QED
  BY <1>3, <1>4, <1>5 DEF NoneGiven, FleetOK, Answerable

LEMMA SubmitGivesNone ==
  ASSUME TypeOK, FleetOK, NEW q \in Requests, SubmitJob(q)
  PROVE  NoneGiven
<1>0. q.id \in Jobs /\ SameWork(q) \subseteq Jobs
  BY RequestsTyped DEF RequestType, SameWork, TypeOK
<1>1. CASE AddJob(q)
  <2>1. ComputeStatus(status, q.deps) \in Waiting
    BY VerdictWaits
  <2>2. \A j \in Jobs : \/ status'[j] = status[j]
                        \/ status[j] = Absent /\ status'[j] \in Waiting
    <3>1. /\ status[q.id] = Absent
          /\ \/ UNCHANGED status
             \/ status' = [status EXCEPT ![q.id] = ComputeStatus(status, q.deps)]
      BY <1>1 DEF AddJob
    <3>2. QED
      BY <1>0, <2>1, <3>1 DEF TypeOK
  <2>3. UNCHANGED <<robotOf, known, available, held>>
    BY <1>1 DEF AddJob, robotVars
  <2>4. QED
    BY <2>2, <2>3 DEF NoneGiven, FleetOK, Answerable, AbsentHasNone, HeldNotOffered,
       InFlight, Waiting
<1>2. ASSUME NEW j \in SameWork(q), RetryJob(q, j)
      PROVE  NoneGiven
  <2>1. ComputeStatus(status, q.deps) \in Status \ InFlight
    BY VerdictWaits DEF Status, InFlight, Waiting
  <2>2. /\ status' \in Refreshed([status EXCEPT ![j] = ComputeStatus(status, q.deps)], deps')
        /\ robotOf' = [robotOf EXCEPT ![j] = NoRobot]
        /\ UNCHANGED <<known, available, held>>
    BY <1>2 DEF RetryJob, MayRetry, robotVars
  <2>3. robotOf'[j] = NoRobot /\ \A i \in Jobs : i # j => robotOf'[i] = robotOf[i]
    BY <1>0, <2>2 DEF TypeOK
  <2>4. QED
    BY <1>0, <2>1, <2>2, <2>3, RefreshGivesNone
<1>3. QED
  BY <1>1, <1>2 DEF SubmitJob

LEMMA WayBackGivesNone ==
  ASSUME TypeOK, FleetOK,
         \/ \E j \in Jobs, r \in Robots \cup {NoRobot} : RequeueJob(j, r)
         \/ \E r \in Robots : ReplanRobot(r)
         \/ \E r \in Robots, j \in Jobs : AckStop(r, j)
  PROVE  NoneGiven
<1>1. ASSUME NEW j \in Jobs, NEW r, RequeueJob(j, r) \/ AckStop(r, j)
      PROVE  NoneGiven
  BY <1>1, RequeueGivesNone DEF RequeueJob, AckStop
<1>2. ASSUME NEW r \in Robots, ReplanRobot(r)
      PROVE  NoneGiven
  <2>1. HeldJobs(r, InFlight) \in SUBSET Jobs /\ {r} \in SUBSET Robots
    BY DEF HeldJobs
  <2>2. RequeueAll(HeldJobs(r, InFlight), {r}) /\ UNCHANGED known
    BY <1>2 DEF ReplanRobot
  <2>3. QED
    BY <2>1, <2>2, RequeueGivesNone
<1>3. QED
  BY <1>1, <1>2

LEMMA UpdateGivesNone ==
  ASSUME TypeOK, FleetOK, NEW p \in Reports, UpdateRobot(p)
  PROVE  NoneGiven
<1> DEFINE r == p.robot
<1>0. r \in Robots /\ p.available \in BOOLEAN \cup {Keep}
  BY ReportsTyped DEF ReportType
<1>1. CASE Register(p)
  <2>1. /\ UNCHANGED <<status, robotOf>> /\ r \notin known /\ known' = known \cup {r}
        /\ \A s \in Robots : s # r => available'[s] = available[s] /\ held'[s] = held[s]
        /\ held'[r] = FALSE
    BY <1>0, <1>1 DEF Register, jobVars, TypeOK
  <2>2. ~Active(r, status)
    BY <2>1 DEF Active, FleetOK, Reserved
  <2>3. QED
    BY <2>1, <2>2 DEF NoneGiven, FleetOK, Answerable, AbsentHasNone, HeldNotOffered, Active
<1>2. CASE Heartbeat(p)
  <2>1. UNCHANGED known
    BY <1>2 DEF Heartbeat
  <2>2. CASE RequeueAll(HeldJobs(r, {"assigned"}), {r})
    <3>1. HeldJobs(r, {"assigned"}) \in SUBSET Jobs /\ {r} \in SUBSET Robots
      BY <1>0 DEF HeldJobs
    <3>2. QED
      BY <2>1, <2>2, <3>1, RequeueGivesNone
  <2>3. CASE /\ UNCHANGED <<status, robotOf>>
             /\ \/ UNCHANGED <<available, held>>
                \/ /\ ~Active(r, status)
                   /\ p.available # Keep
                   /\ available' = [available EXCEPT ![r] = p.available]
                   /\ held' = [held EXCEPT ![r] = ~p.available]
                \/ /\ Active(r, status)
                   /\ UNCHANGED available
                   /\ held' = [held EXCEPT ![r] = TRUE]
    <3>1. \A s \in Robots : held'[s] => ~available'[s]
      BY <1>0, <2>3 DEF FleetOK, HeldNotOffered, Reserved, Active, TypeOK
    <3>2. \A s \in Robots : available'[s] => available[s] \/ ~Active(s, status)'
      BY <1>0, <2>3 DEF Active, TypeOK
    <3>3. QED
      BY <2>1, <2>3, <3>1, <3>2 DEF NoneGiven, FleetOK, Answerable, AbsentHasNone
  <2>4. QED
    BY <1>2, <2>2, <2>3 DEF Heartbeat
<1>3. QED
  BY <1>1, <1>2 DEF UpdateRobot

LEMMA RemoveGivesNone ==
  ASSUME TypeOK, FleetOK, NEW r \in Robots, RemoveRobot(r)
  PROVE  NoneGiven
<1>1. \A j \in Jobs : status[j] \in InFlight => robotOf[j] # r
  BY DEF RemoveRobot, MayGo, HeldJobs
<1>2. QED
  BY <1>1 DEF RemoveRobot, jobVars, NoneGiven, FleetOK, Answerable, AbsentHasNone,
     HeldNotOffered, TypeOK

LEMMA CompleteGivesNone ==
  ASSUME TypeOK, FleetOK, NEW j \in Jobs, NEW r \in Robots, NEW n, NEW success,
         CompleteJobAttempt(j, r, n, success)
  PROVE  NoneGiven
<1> DEFINE new == IF success THEN "done" ELSE "failed"
           end == [status EXCEPT ![j] = new]
<1>1. new \in Status \ InFlight /\ new \notin Waiting \cup {"cancelled", Absent}
  BY DEF Status, Finished, InFlight, Waiting, Absent
<1>2. /\ status' \in Refreshed(end, deps)
      /\ available' = [available EXCEPT ![r] = @ \/ ComesBack(r, end)]
      /\ UNCHANGED <<robotOf, known, held>>
  BY DEF CompleteJobAttempt
<1> HIDE DEF new
<1>3. \A s : Active(s, status)' => Active(s, end)
  <2>1. /\ \A i \in Jobs : i # j =>
             /\ status[i] \in Waiting <=> status'[i] \in Waiting
             /\ status[i] \notin Waiting => status'[i] = status[i]
        /\ status'[j] = new
    BY <1>1, <1>2, RefreshedStep
  <2>2. \A i \in Jobs : status'[i] = "assigned" => i # j /\ status[i] = "assigned"
    BY <1>1, <2>1 DEF InFlight, Waiting
  <2>3. QED
    BY <1>2, <2>2 DEF Active, TypeOK
<1>4. \A s \in Robots : available'[s] => available[s] \/ (~Active(s, status)' /\ ~held[s])
  BY <1>2, <1>3 DEF ComesBack, TypeOK
<1>5. QED
  BY <1>1, <1>2, <1>4, RefreshGivesNone

LEMMA CancelGivesNone ==
  ASSUME TypeOK, FleetOK, NEW j \in Jobs, CancelJob(j)
  PROVE  NoneGiven
<1>1. "cancelled" \in Status \ InFlight
  BY DEF Status, Finished, InFlight
<1>2. /\ status' \in Refreshed([status EXCEPT ![j] = "cancelled"], deps)
      /\ robotOf'[j] = NoRobot /\ \A i \in Jobs : i # j => robotOf'[i] = robotOf[i]
      /\ UNCHANGED <<known, available, held>>
  BY DEF CancelJob, robotVars, TypeOK
<1>3. QED
  BY <1>1, <1>2, RefreshGivesNone

LEMMA StaleGivesNone ==
  ASSUME TypeOK, FleetOK, NEW S \in SUBSET Robots, DetectStale(S)
  PROVE  NoneGiven
<1>1. \A j \in Jobs : ComputeStatus(status, deps[j]) \in Waiting
  BY VerdictWaits
<1>2. \A j \in Jobs :
        \/ status'[j] = status[j] /\ robotOf'[j] = robotOf[j]
        \/ status[j] = "assigned" /\ status'[j] = "unknown" /\ robotOf'[j] = robotOf[j]
        \/ status[j] = "assigned" /\ status'[j] \in Waiting /\ robotOf'[j] = NoRobot
  BY <1>1 DEF DetectStale
<1>3. /\ known' = known
      /\ \A r \in Robots : (available'[r] => available[r]) /\ (held'[r] => ~available'[r])
  BY DEF DetectStale, FleetOK, HeldNotOffered, TypeOK
<1>4. \A j \in Jobs : status'[j] \in InFlight =>
        /\ status[j] \in InFlight /\ robotOf'[j] = robotOf[j]
        /\ status'[j] = "assigned" => status[j] = "assigned"
  BY <1>2 DEF InFlight, Waiting
<1>5. \A j \in Jobs : status'[j] \in Waiting \cup {"cancelled", Absent} => robotOf'[j] = NoRobot
  BY <1>2 DEF Waiting, Absent, FleetOK, Answerable, AbsentHasNone
<1>6. QED
  BY <1>3, <1>4, <1>5 DEF NoneGiven, FleetOK, Answerable

LEMMA ArchiveGivesNone ==
  ASSUME TypeOK, FleetOK, NEW old, ArchiveFinished(old)
  PROVE  NoneGiven
<1>1. \A j \in Jobs : \/ status'[j] = status[j] /\ robotOf'[j] = robotOf[j]
                      \/ status'[j] = Absent /\ robotOf'[j] = NoRobot
  BY DEF ArchiveFinished
<1>2. UNCHANGED <<known, available, held>>
  BY DEF ArchiveFinished, robotVars
<1>3. \A j \in Jobs : status'[j] \in InFlight => status'[j] = status[j] /\ robotOf'[j] = robotOf[j]
  BY <1>1 DEF InFlight, Absent
<1>4. \A j \in Jobs : status'[j] \in Waiting \cup {"cancelled", Absent} => robotOf'[j] = NoRobot
  BY <1>1 DEF FleetOK, Answerable, AbsentHasNone
<1>5. QED
  BY <1>2, <1>3, <1>4 DEF NoneGiven, FleetOK, Answerable, HeldNotOffered

\* FallSilent, StopDeadline, SetReplan, and a step in which nothing happens.
LEMMA AroundGivesNone ==
  ASSUME TypeOK, FleetOK,
         UNCHANGED <<status, robotOf, known, available, held>>
  PROVE  NoneGiven
BY DEF NoneGiven, FleetOK, Answerable, AbsentHasNone, HeldNotOffered

\* Giving jobs robots that are free, each to one job, and taking those robots,
\* perhaps with others, off the offer.
LEMMA HandOutSafe ==
  ASSUME TypeOK, FleetOK, NEW given \in SUBSET Pending, NEW pass, NEW taken,
         \A j \in given : pass[j] \in known \cap taken /\ available[pass[j]],
         \A i, j \in given : pass[i] = pass[j] => i = j,
         status' = [j \in Jobs |-> IF j \in given THEN "assigned" ELSE status[j]],
         robotOf' = [j \in Jobs |-> IF j \in given THEN pass[j] ELSE robotOf[j]],
         available' = [r \in Robots |-> available[r] /\ r \notin taken],
         known' = known, \A r \in Robots : held'[r] => held[r]
  PROVE  FleetOK'
<1>1. \A j \in Jobs : IF j \in given THEN status'[j] = "assigned" /\ robotOf'[j] = pass[j]
                                ELSE status'[j] = status[j] /\ robotOf'[j] = robotOf[j]
  OBVIOUS
<1>2. \A r \in Robots : available'[r] => available[r]
  OBVIOUS
<1>3. Reserved'
  BY <1>1, <1>2 DEF FleetOK, Reserved, TypeOK
<1>4. OneJobPerRobot'
  <2>1. \A i \in Jobs : status[i] = "assigned" => ~available[robotOf[i]]
    BY DEF FleetOK, Reserved
  <2>2. \A j \in given, i \in Jobs \ given : status[i] = "assigned" => robotOf[i] # pass[j]
    BY <2>1
  <2>3. QED
    BY <1>1, <2>2 DEF FleetOK, OneJobPerRobot
<1>5. Answerable' /\ AbsentHasNone'
  BY <1>1 DEF FleetOK, Answerable, AbsentHasNone, Waiting, InFlight, Absent
<1>6. HeldNotOffered'
  BY <1>2 DEF FleetOK, HeldNotOffered
<1>7. QED
  BY <1>3, <1>4, <1>5, <1>6 DEF FleetOK

\* A pass gives jobs only robots that no job has, and no robot to two jobs of the
\* pass: of two jobs one comes before the other, and the later one does not find
\* the robot of the earlier one among those that are free.
LEMMA PassGives ==
  ASSUME TypeOK, PlacesDistinct, NEW refused, NEW confirmed,
         NEW pass \in Passes, IsPass(pass, refused, confirmed)
  PROVE  /\ Won(pass, refused) \subseteq Pending \ refused
         /\ \A j \in Won(pass, refused) : pass[j] \in known /\ available[pass[j]]
         /\ \A i, j \in Won(pass, refused) : pass[i] = pass[j] => i = j
<1> DEFINE won == Won(pass, refused)
<1>1. won \subseteq Pending \ refused /\ Pending \subseteq Jobs
  BY DEF Won, Pending
<1>2. \A j \in won : pass[j] \in Free(j, pass, refused, confirmed)
  BY DEF Won, IsPass, BestRobot
<1>3. \A j \in won : pass[j] \in known /\ available[pass[j]]
  BY <1>2 DEF Free, Eligible
<1>4. \A i, j \in won : pass[i] = pass[j] => i = j
  <2>1. \A i, j \in won : Before(i, j) => pass[i] # pass[j]
    BY <1>1, <1>2 DEF Free
  <2>2. \A i, j \in won : i # j => Before(i, j) \/ Before(j, i)
    <3>1. \A i, j \in won : i # j => seq[i] # seq[j]
      BY <1>1 DEF PlacesDistinct, Live, Pending, Absent
    <3>2. \A j \in won : seq[j] \in Nat /\ ask[j].priority \in Nat
      BY <1>1 DEF TypeOK, AskType
    <3>3. QED
      BY <3>1, <3>2 DEF Before
  <2>3. QED
    BY <2>1, <2>2
<1>5. QED
  BY <1>1, <1>3, <1>4

LEMMA DispatchSafe ==
  ASSUME FleetInv, NEW refused, NEW confirmed, DispatchOnce(refused, confirmed)
  PROVE  FleetOK'
<1>1. TypeOK /\ PlacesDistinct /\ FleetOK
  BY DEF FleetInv, PlacesInv, FleetOK
<1>2. PICK pass \in Passes :
        /\ IsPass(pass, refused, confirmed)
        /\ status' = [j \in Jobs |-> IF j \in Won(pass, refused) THEN "assigned" ELSE status[j]]
        /\ robotOf' = [j \in Jobs |-> IF j \in Won(pass, refused) THEN pass[j] ELSE robotOf[j]]
        /\ available' = [r \in Robots |-> available[r] /\ r \notin ReservedBy(pass, refused)]
        /\ UNCHANGED <<known, held>>
  BY DEF DispatchOnce, Assign
<1>3. /\ Won(pass, refused) \subseteq Pending
      /\ \A j \in Won(pass, refused) : pass[j] \in known /\ available[pass[j]]
      /\ \A i, j \in Won(pass, refused) : pass[i] = pass[j] => i = j
  BY <1>1, <1>2, PassGives
<1>4. \A j \in Won(pass, refused) : pass[j] \in ReservedBy(pass, refused)
  BY DEF ReservedBy
<1>5. QED
  BY <1>1, <1>2, <1>3, <1>4, HandOutSafe

\* A step gives nobody a robot, or it is a pass.
LEMMA GivesOrPasses ==
  ASSUME FleetInv, [Next]_vars
  PROVE  \/ NoneGiven
         \/ \E refused \in Refusals, confirmed \in Confirmations :
              DispatchOnce(refused, confirmed)
<1>1. TypeOK /\ FleetOK
  BY DEF FleetInv, FleetOK
<1>2. CASE \E S \in Sweeps : DetectStale(S)
  <2>1. Sweeps \subseteq SUBSET Robots
    BY <1>1, SweepsKnown DEF TypeOK
  <2>2. QED
    BY <1>1, <1>2, <2>1, StaleGivesNone
<1>3. CASE \/ \E r \in Robots : FallSilent(r)
           \/ \E j \in Jobs : StopDeadline(j)
           \/ \E c \in ReplanConfigs : SetReplan(c)
           \/ UNCHANGED vars
  <2>1. UNCHANGED <<status, robotOf, known, available, held>>
    BY <1>3 DEF FallSilent, StopDeadline, SetReplan, vars, jobVars, robotVars
  <2>2. QED
    BY <1>1, <2>1, AroundGivesNone
<1>4. QED
  BY <1>1, <1>2, <1>3, SubmitGivesNone, WayBackGivesNone, UpdateGivesNone,
     RemoveGivesNone, CompleteGivesNone, CancelGivesNone, ArchiveGivesNone DEF Next

LEMMA FleetNext == FleetInv /\ [Next]_vars => FleetInv'
<1> SUFFICES ASSUME FleetInv, [Next]_vars
             PROVE  FleetInv'
  OBVIOUS
<1>1. TypeOK /\ PlacesInv /\ FleetOK
  BY DEF FleetInv, FleetOK
<1>2. TypeOK' /\ PlacesInv'
  BY <1>1, TypedNext, PlacesNext
<1>3. CASE NoneGiven
  BY <1>1, <1>2, <1>3, NoneGivenSafe DEF FleetInv, FleetOK
<1>4. CASE \E refused \in Refusals, confirmed \in Confirmations :
             DispatchOnce(refused, confirmed)
  BY <1>2, <1>4, DispatchSafe DEF FleetInv, FleetOK
<1>5. QED
  BY <1>3, <1>4, GivesOrPasses

LEMMA FleetHolds == Spec => []FleetInv
<1>1. Init => FleetInv
  <2>1. Init => TypeOK
    BY TypedInit
  <2>2. Init => PlacesInv
    BY DEF Init, PlacesInv, PlacesDistinct, PlacesBounded, Live
  <2>3. Init => FleetOK
    BY DEF Init, FleetOK, Reserved, OneJobPerRobot, Answerable, AbsentHasNone, HeldNotOffered,
       InFlight, Waiting, Absent
  <2>4. QED
    BY <2>1, <2>2, <2>3 DEF FleetInv, FleetOK
<1>2. QED
  BY <1>1, FleetNext, PTL DEF Spec

\* A job that is assigned has its robot reserved, whatever heartbeats, late
\* completions, requeues and removals come between.
THEOREM AssignedIsReserved == Spec => []Reserved
<1>1. FleetInv => Reserved
  BY DEF FleetInv
<1>2. QED
  BY <1>1, FleetHolds, PTL

\* No pass of DispatchOnce, and no later operation, leaves a robot with two
\* assigned jobs.
THEOREM NeverTwoJobs == Spec => []OneJobPerRobot
<1>1. FleetInv => OneJobPerRobot
  BY DEF FleetInv
<1>2. QED
  BY <1>1, FleetHolds, PTL

\* A job in flight always has a robot of the registry to report it, so
\* RemoveRobot never takes away a robot whose report is awaited.
THEOREM AlwaysAnswerable == Spec => []Answerable
<1>1. FleetInv => Answerable
  BY DEF FleetInv
<1>2. QED
  BY <1>1, FleetHolds, PTL

\* A robot that declared itself unavailable, or lost its job to a requeue, is
\* not offered by a completion or a dispatch before its own next heartbeat.
THEOREM HeldStaysOut == Spec => []HeldNotOffered
<1>1. FleetInv => HeldNotOffered
  BY DEF FleetInv
<1>2. QED
  BY <1>1, FleetHolds, PTL
-----------------------------------------------------------------------------
\* No robot is stranded.

\* Somebody will bring the robot back: it is offered, it was told to speak up
\* first, or a job in flight on it is still to be reported.
Attended(r) == available[r] \/ held[r] \/ HeldJobs(r, InFlight) # {}

\* What an operation may do to a robot.
StillAttended(r) ==
  \/ r \notin known'
  \/ load'[r] = 0
  \/ r \in known /\ load'[r] = load[r] /\ (Attended(r) => Attended(r)')
  \/ Attended(r)'

LEMMA AttendedNotStranded ==
  ASSUME TypeOK, TypeOK', NotStranded, \A r \in Robots : StillAttended(r)
  PROVE  NotStranded'
<1>1. \A r \in known : Attended(r) \/ load[r] = 0
  BY DEF NotStranded, Attended, TypeOK
<1>2. \A r \in known' : Attended(r)' \/ load'[r] = 0
  BY <1>1 DEF StillAttended, TypeOK
<1>3. QED
  BY <1>2 DEF NotStranded, Attended, TypeOK

\* The jobs in flight stay with their robots.
LEMMA SameFlight ==
  ASSUME \A j \in Jobs : status[j] \in InFlight => status'[j] \in InFlight /\ robotOf'[j] = robotOf[j]
  PROVE  \A r : HeldJobs(r, InFlight) # {} => HeldJobs(r, InFlight)' # {}
BY DEF HeldJobs

\* Whoever loses a job to a requeue is held.
LEMMA RequeueAttends ==
  ASSUME TypeOK, NEW J \in SUBSET Jobs, NEW extra, RequeueAll(J, extra),
         UNCHANGED <<known, load>>
  PROVE  \A r \in Robots : StillAttended(r)
<1> SUFFICES ASSUME NEW r \in Robots, r \in known
             PROVE  Attended(r) => Attended(r)'
  BY DEF StillAttended
<1> DEFINE off == (known \cap {robotOf[j] : j \in J}) \cup extra
<1>1. /\ available' = [s \in Robots |-> available[s] /\ s \notin off]
      /\ held' = [s \in Robots |-> held[s] \/ s \in off]
  BY DEF RequeueAll
<1>2. CASE r \in off
  BY <1>1, <1>2 DEF Attended
<1>3. CASE r \notin off
  <2>1. \A j \in Jobs : j \in HeldJobs(r, InFlight) => j \in HeldJobs(r, InFlight)'
    BY <1>3 DEF RequeueAll, HeldJobs
  <2>2. HeldJobs(r, InFlight) \subseteq Jobs
    BY DEF HeldJobs
  <2>3. QED
    BY <1>1, <1>3, <2>1, <2>2 DEF Attended
<1>4. QED
  BY <1>2, <1>3

\* An operation that gives job j, not in flight, another status and calls
\* refreshBlocked.
LEMMA RefreshAttends ==
  ASSUME TypeOK, NEW j \in Jobs, status[j] \notin InFlight, NEW new \in Status, NEW dp,
         status' \in Refreshed([status EXCEPT ![j] = new], dp),
         \A i \in Jobs : i # j => robotOf'[i] = robotOf[i],
         UNCHANGED <<known, available, held, load>>
  PROVE  \A r \in Robots : StillAttended(r)
<1>1. \A i \in Jobs : i # j /\ status[i] \notin Waiting => status'[i] = status[i]
  BY RefreshedStep
<1>2. \A i \in Jobs : status[i] \in InFlight => status'[i] \in InFlight /\ robotOf'[i] = robotOf[i]
  BY <1>1 DEF InFlight, Waiting
<1>3. \A r : HeldJobs(r, InFlight) # {} => HeldJobs(r, InFlight)' # {}
  BY <1>2, SameFlight
<1>4. QED
  BY <1>3 DEF StillAttended, Attended

LEMMA SubmitAttends ==
  ASSUME TypeOK, NEW q \in Requests, SubmitJob(q)
  PROVE  \A r \in Robots : StillAttended(r)
<1>0. q.id \in Jobs /\ SameWork(q) \subseteq Jobs
  BY RequestsTyped DEF RequestType, SameWork, TypeOK
<1>1. CASE AddJob(q)
  <2>1. \A i \in Jobs : status[i] \in InFlight => status'[i] \in InFlight /\ robotOf'[i] = robotOf[i]
    BY <1>0, <1>1 DEF AddJob, TypeOK, InFlight, Absent
  <2>2. \A r : HeldJobs(r, InFlight) # {} => HeldJobs(r, InFlight)' # {}
    BY <2>1, SameFlight
  <2>3. QED
    BY <1>1, <2>2 DEF AddJob, robotVars, StillAttended, Attended
<1>2. ASSUME NEW j \in SameWork(q), RetryJob(q, j)
      PROVE  \A r \in Robots : StillAttended(r)
  <2>1. ComputeStatus(status, q.deps) \in Status
    BY VerdictWaits DEF Status
  <2>2. status[j] \notin InFlight
    BY <1>2 DEF RetryJob, MayRetry, MayRunAgain, InFlight
  <2>3. \A i \in Jobs : i # j => robotOf'[i] = robotOf[i]
    BY <1>0, <1>2 DEF RetryJob, MayRetry, TypeOK
  <2>4. QED
    BY <1>0, <1>2, <2>1, <2>2, <2>3, RefreshAttends DEF RetryJob, MayRetry, robotVars
<1>3. QED
  BY <1>1, <1>2 DEF SubmitJob

LEMMA WayBackAttends ==
  ASSUME TypeOK,
         \/ \E j \in Jobs, r \in Robots \cup {NoRobot} : RequeueJob(j, r)
         \/ \E r \in Robots : ReplanRobot(r)
         \/ \E r \in Robots, j \in Jobs : AckStop(r, j)
  PROVE  \A r \in Robots : StillAttended(r)
<1>1. ASSUME NEW j \in Jobs, NEW r, RequeueJob(j, r) \/ AckStop(r, j)
      PROVE  \A s \in Robots : StillAttended(s)
  BY <1>1, RequeueAttends DEF RequeueJob, AckStop
<1>2. ASSUME NEW r \in Robots, ReplanRobot(r)
      PROVE  \A s \in Robots : StillAttended(s)
  <2>1. HeldJobs(r, InFlight) \in SUBSET Jobs
    BY DEF HeldJobs
  <2>2. QED
    BY <1>2, <2>1, RequeueAttends DEF ReplanRobot
<1>3. QED
  BY <1>1, <1>2

LEMMA UpdateAttends ==
  ASSUME TypeOK, NEW p \in Reports, UpdateRobot(p)
  PROVE  \A r \in Robots : StillAttended(r)
<1>0. p.robot \in Robots /\ p.available \in BOOLEAN \cup {Keep}
  BY ReportsTyped DEF ReportType
<1>1. CASE Register(p)
  <2>1. \A r \in Robots : r # p.robot =>
          /\ available'[r] = available[r] /\ held'[r] = held[r] /\ load'[r] = load[r]
          /\ r \in known' => r \in known
    BY <1>0, <1>1 DEF Register, TypeOK
  <2>2. load'[p.robot] = 0
    BY <1>0, <1>1 DEF Register, TypeOK
  <2>3. UNCHANGED <<status, robotOf>>
    BY <1>1 DEF Register, jobVars
  <2>4. QED
    BY <2>1, <2>2, <2>3 DEF StillAttended, Attended, HeldJobs
<1>2. CASE Heartbeat(p)
  <2> DEFINE r == p.robot
  <2>1. UNCHANGED <<known, load>>
    BY <1>2 DEF Heartbeat
  <2>2. CASE RequeueAll(HeldJobs(r, {"assigned"}), {r})
    <3>1. HeldJobs(r, {"assigned"}) \in SUBSET Jobs
      BY DEF HeldJobs
    <3>2. QED
      BY <2>1, <2>2, <3>1, RequeueAttends
  <2>3. CASE /\ UNCHANGED <<status, robotOf>>
             /\ \/ UNCHANGED <<available, held>>
                \/ /\ p.available # Keep
                   /\ available' = [available EXCEPT ![r] = p.available]
                   /\ held' = [held EXCEPT ![r] = ~p.available]
                \/ /\ UNCHANGED available
                   /\ held' = [held EXCEPT ![r] = TRUE]
    <3>1. /\ \A s \in Robots : s # r => available'[s] = available[s] /\ held'[s] = held[s]
          /\ \/ available'[r] = available[r] /\ held'[r] = held[r]
             \/ available'[r] \/ held'[r]
      BY <1>0, <2>3 DEF TypeOK
    <3>2. QED
      BY <2>1, <2>3, <3>1 DEF StillAttended, Attended, HeldJobs
  <2>4. QED
    BY <1>2, <2>2, <2>3 DEF Heartbeat
<1>3. QED
  BY <1>1, <1>2 DEF UpdateRobot

LEMMA RemoveAttends ==
  ASSUME TypeOK, NEW r \in Robots, RemoveRobot(r)
  PROVE  \A s \in Robots : StillAttended(s)
BY DEF RemoveRobot, TypeOK, jobVars, StillAttended, Attended, HeldJobs

\* A robot is reserved by a job of the pass, and by no other.
LEMMA DispatchAttends ==
  ASSUME TypeOK, NEW refused, NEW confirmed, DispatchOnce(refused, confirmed)
  PROVE  \A r \in Robots : StillAttended(r)
<1>1. PICK pass \in Passes :
        /\ status' = [j \in Jobs |-> IF j \in Won(pass, refused) THEN "assigned" ELSE status[j]]
        /\ robotOf' = [j \in Jobs |-> IF j \in Won(pass, refused) THEN pass[j] ELSE robotOf[j]]
        /\ available' = [r \in Robots |-> available[r] /\ r \notin ReservedBy(pass, refused)]
        /\ UNCHANGED <<known, held, load>>
  BY DEF DispatchOnce, Assign
<1>2. \A j \in Won(pass, refused) : j \in Jobs /\ status[j] \notin InFlight
  BY DEF Won, Pending, InFlight
<1>3. \A j \in Jobs : status[j] \in InFlight => status'[j] \in InFlight /\ robotOf'[j] = robotOf[j]
  BY <1>1, <1>2
<1>4. \A r : HeldJobs(r, InFlight) # {} => HeldJobs(r, InFlight)' # {}
  BY <1>3, SameFlight
<1>5. ASSUME NEW r \in Robots, r \in ReservedBy(pass, refused)
      PROVE  HeldJobs(r, InFlight)' # {}
  <2>1. PICK j \in Won(pass, refused) : pass[j] = r
    BY <1>5 DEF ReservedBy
  <2>2. j \in HeldJobs(r, InFlight)'
    BY <1>1, <1>2, <2>1 DEF HeldJobs, InFlight
  <2>3. QED
    BY <2>2
<1>6. QED
  BY <1>1, <1>4, <1>5 DEF StillAttended, Attended

\* The robot whose job ended comes back unless another of its jobs is assigned,
\* or it has to speak up first.
LEMMA CompleteAttends ==
  ASSUME TypeOK, NEW j \in Jobs, NEW r \in Robots, NEW n, NEW success,
         CompleteJobAttempt(j, r, n, success)
  PROVE  \A s \in Robots : StillAttended(s)
<1> DEFINE new == IF success THEN "done" ELSE "failed"
           end == [status EXCEPT ![j] = new]
<1>1. new \in Status /\ new \notin InFlight \cup Waiting
  BY DEF Status, Finished, InFlight, Waiting
<1>2. /\ robotOf[j] = r /\ status' \in Refreshed(end, deps)
      /\ available' = [available EXCEPT ![r] = @ \/ ComesBack(r, end)]
      /\ UNCHANGED <<robotOf, known, held>>
      /\ load' = [load EXCEPT ![r] = @ + 1]
  BY DEF CompleteJobAttempt
<1> HIDE DEF new
<1>3. /\ \A i \in Jobs : i # j /\ status[i] \notin Waiting => status'[i] = status[i]
      /\ end[j] = new /\ \A i \in Jobs : i # j => end[i] = status[i]
  BY <1>1, <1>2, RefreshedStep DEF TypeOK
<1> HIDE DEF end
<1>4. ASSUME NEW s \in Robots, s # r
      PROVE  StillAttended(s)
  <2>1. \A i \in HeldJobs(s, InFlight) : i \in HeldJobs(s, InFlight)'
    BY <1>2, <1>3, <1>4 DEF HeldJobs, InFlight, Waiting
  <2>2. available'[s] = available[s] /\ load'[s] = load[s]
    BY <1>2, <1>4 DEF TypeOK
  <2>3. QED
    BY <1>2, <2>1, <2>2 DEF StillAttended, Attended
<1>5. Attended(r)'
  <2>1. CASE held[r]
    BY <1>2, <2>1 DEF Attended
  <2>2. CASE Active(r, end)
    <3>1. PICK i \in Jobs : end[i] = "assigned" /\ robotOf[i] = r
      BY <2>2 DEF Active
    <3>2. i # j /\ status'[i] = "assigned"
      BY <1>1, <1>3, <3>1 DEF InFlight, Waiting
    <3>3. i \in HeldJobs(r, InFlight)'
      BY <1>2, <3>1, <3>2 DEF HeldJobs, InFlight
    <3>4. QED
      BY <3>3 DEF Attended
  <2>3. CASE ComesBack(r, end)
    BY <1>2, <2>3 DEF Attended, TypeOK
  <2>4. QED
    BY <2>1, <2>2, <2>3 DEF ComesBack
<1>6. QED
  BY <1>4, <1>5 DEF StillAttended

LEMMA CancelAttends ==
  ASSUME TypeOK, NEW j \in Jobs, CancelJob(j)
  PROVE  \A r \in Robots : StillAttended(r)
<1>1. "cancelled" \in Status
  BY DEF Status, Finished
<1>2. status[j] \notin InFlight /\ \A i \in Jobs : i # j => robotOf'[i] = robotOf[i]
  BY DEF CancelJob, Waiting, InFlight, TypeOK
<1>3. QED
  BY <1>1, <1>2, RefreshAttends DEF CancelJob, robotVars

LEMMA StaleAttends ==
  ASSUME TypeOK, NEW S, DetectStale(S)
  PROVE  \A r \in Robots : StillAttended(r)
<1>1. PICK requeue \in SUBSET Jobs :
        /\ \A j \in Jobs \ requeue :
             (status'[j] = status[j] \/ status'[j] = "unknown") /\ robotOf'[j] = robotOf[j]
        /\ available' = [r \in Robots |-> available[r] /\ r \notin {robotOf[j] : j \in requeue}]
        /\ held' = [r \in Robots |-> held[r] \/ r \in {robotOf[j] : j \in requeue}]
  BY DEF DetectStale
<1>2. UNCHANGED <<known, load>>
  BY DEF DetectStale
<1>3. ASSUME NEW r \in Robots, r \notin {robotOf[j] : j \in requeue}
      PROVE  \A j \in HeldJobs(r, InFlight) : j \in HeldJobs(r, InFlight)'
  BY <1>1, <1>3 DEF HeldJobs, InFlight
<1>4. QED
  BY <1>1, <1>2, <1>3 DEF StillAttended, Attended

LEMMA ArchiveAttends ==
  ASSUME NEW old \in SUBSET {j \in Jobs : status[j] \in Finished}, ArchiveFinished(old)
  PROVE  \A r \in Robots : StillAttended(r)
<1>1. \A j \in Archivable(old) : status[j] \notin InFlight
  BY DEF Archivable, Finished, InFlight
<1>2. \A j \in Jobs : status[j] \in InFlight => status'[j] \in InFlight /\ robotOf'[j] = robotOf[j]
  BY <1>1 DEF ArchiveFinished
<1>3. \A r : HeldJobs(r, InFlight) # {} => HeldJobs(r, InFlight)' # {}
  BY <1>2, SameFlight
<1>4. UNCHANGED robotVars
  BY DEF ArchiveFinished
<1>5. QED
  BY <1>3, <1>4 DEF robotVars, StillAttended, Attended

LEMMA NotStrandedNext == TypeOK /\ NotStranded /\ [Next]_vars => NotStranded'
<1> SUFFICES ASSUME TypeOK, NotStranded, [Next]_vars
             PROVE  NotStranded'
  OBVIOUS
<1>1. CASE \/ \E r \in Robots : FallSilent(r)
           \/ \E j \in Jobs : StopDeadline(j)
           \/ \E c \in ReplanConfigs : SetReplan(c)
           \/ UNCHANGED vars
  <2>1. UNCHANGED <<status, robotOf, known, available, held, load>>
    BY <1>1 DEF FallSilent, StopDeadline, SetReplan, vars, jobVars, robotVars
  <2>2. QED
    BY <2>1 DEF NotStranded, HeldJobs
<1>2. CASE \A r \in Robots : StillAttended(r)
  BY <1>2, TypedNext, AttendedNotStranded
<1>3. QED
  BY <1>1, <1>2, SubmitAttends, WayBackAttends, UpdateAttends, RemoveAttends, DispatchAttends,
     CompleteAttends, CancelAttends, StaleAttends, ArchiveAttends DEF Next

\* No operation strands a robot: one that was made unavailable has a job in
\* flight to report, is held until its own next heartbeat, or has ended nothing
\* yet.  No other invariant is needed for it.
THEOREM NoRobotStranded == Spec => []NotStranded
<1>1. Init => NotStranded
  BY DEF Init, NotStranded
<1>2. QED
  BY <1>1, NotStrandedNext, Typed, PTL DEF Spec
-----------------------------------------------------------------------------
\* The order and the thoroughness of a pass.

\* A job left waiting by the pass, other than one whose write was refused, found
\* every robot it may take given to a job before it.
LEMMA LeftWaiting ==
  ASSUME NEW refused, NEW confirmed, NEW pass \in Passes, IsPass(pass, refused, confirmed),
         NEW i \in Pending \ refused, i \notin Won(pass, refused),
         NEW r \in Robots, Eligible(r, i, confirmed)
  PROVE  \E k \in Won(pass, refused) : Before(k, i) /\ pass[k] = r
<1>1. NoRobot \notin Robots
  BY RobotsPositive DEF NoRobot
<1>2. pass[i] = NoRobot
  BY DEF Won
<1>3. r \notin Free(i, pass, refused, confirmed)
  <2>1. Free(i, pass, refused, confirmed) = {}
    BY <1>1, <1>2 DEF IsPass, BestRobot, Free
  <2>2. QED
    BY <2>1
<1>4. QED
  BY <1>1, <1>3 DEF Free, Won

LEMMA BeforeIsTransitive ==
  ASSUME TypeOK, NEW i \in Jobs, NEW j \in Jobs, NEW k \in Jobs, Before(k, i), Before(i, j)
  PROVE  Before(k, j)
<1>1. \A x \in Jobs : seq[x] \in Nat /\ ask[x].priority \in Nat
  BY DEF TypeOK, AskType
<1>2. QED
  BY <1>1 DEF Before

\* What one pass of DispatchOnce leaves behind, whatever the store refuses and
\* the controllers confirm: no job whose own write was taken is overtaken, and
\* none waits beside a robot that could take it.
LEMMA PassIsFair ==
  ASSUME TypeOK, NEW refused, NEW confirmed, DispatchOnce(refused, confirmed),
         NEW i \in Pending' \ refused
  PROVE  /\ \A j \in Jobs : GivenBy(j) /\ Before(i, j) => ~Eligible(robotOf'[j], i, confirmed)
         /\ \A r \in Robots : ~Eligible(r, i, confirmed)'
<1>1. PICK pass \in Passes :
        /\ IsPass(pass, refused, confirmed)
        /\ status' = [j \in Jobs |-> IF j \in Won(pass, refused) THEN "assigned" ELSE status[j]]
        /\ robotOf' = [j \in Jobs |-> IF j \in Won(pass, refused) THEN pass[j] ELSE robotOf[j]]
        /\ available' = [r \in Robots |-> available[r] /\ r \notin ReservedBy(pass, refused)]
        /\ UNCHANGED <<ask, known, body, heard>>
  BY DEF DispatchOnce, Assign
<1> DEFINE won == Won(pass, refused)
<1>2. i \in Pending \ refused /\ i \notin won /\ won \subseteq Pending \ refused /\ Pending \subseteq Jobs
  BY <1>1 DEF Won, Pending
<1>3. \A r \in Robots : Eligible(r, i, confirmed) =>
        \E k \in won : Before(k, i) /\ pass[k] = r
  BY <1>1, <1>2, LeftWaiting
<1>4. ASSUME NEW j \in Jobs, GivenBy(j), Before(i, j), Eligible(robotOf'[j], i, confirmed)
      PROVE  FALSE
  <2>1. j \in won /\ robotOf'[j] = pass[j]
    BY <1>1, <1>4 DEF GivenBy
  <2>2. pass[j] \in Free(j, pass, refused, confirmed)
    BY <1>1, <2>1 DEF Won, IsPass, BestRobot
  <2>3. PICK k \in won : Before(k, i) /\ pass[k] = pass[j]
    BY <1>3, <1>4, <2>1, <2>2 DEF Free
  <2>4. Before(k, j)
    BY <1>2, <1>4, <2>3, BeforeIsTransitive
  <2>5. QED
    BY <1>2, <2>2, <2>3, <2>4 DEF Free
<1>5. ASSUME NEW r \in Robots, Eligible(r, i, confirmed)'
      PROVE  FALSE
  <2>1. Eligible(r, i, confirmed) /\ r \notin ReservedBy(pass, refused)
    BY <1>1, <1>5 DEF Eligible
  <2>2. QED
    BY <1>3, <2>1 DEF ReservedBy
<1>6. QED
  BY <1>4, <1>5

LEMMA SureMeansEligible ==
  ASSUME NEW r, NEW i, NEW confirmed
  PROVE  /\ SurelyEligible(r, i) => Eligible(r, i, confirmed)
         /\ SurelyEligible(r, i)' => Eligible(r, i, confirmed)'
BY DEF SurelyEligible, Eligible

LEMMA StepIsFair ==
  ASSUME ~StoreMayFail, FleetInv, [Next]_vars, NEW j \in Jobs, GivenBy(j), NEW i \in Pending'
  PROVE  /\ Before(i, j) => ~SurelyEligible(robotOf'[j], i)
         /\ \A r \in Robots : ~SurelyEligible(r, i)'
<1>1. ~NoneGiven
  BY DEF GivenBy, NoneGiven, InFlight
<1>2. PICK refused \in Refusals, confirmed \in Confirmations : DispatchOnce(refused, confirmed)
  BY <1>1, GivesOrPasses
<1>3. i \in Pending' \ refused
  BY DEF Refusals
<1>4. /\ Before(i, j) => ~Eligible(robotOf'[j], i, confirmed)
      /\ \A r \in Robots : ~Eligible(r, i, confirmed)'
  BY <1>2, <1>3, PassIsFair DEF FleetInv
<1>5. QED
  BY <1>4, SureMeansEligible

\* With a store that takes every write, no pass gives a robot to a job while
\* one that comes first and could use it goes on waiting.
THEOREM NobodyOvertaken ==
  ASSUME ~StoreMayFail
  PROVE  Spec => NoOvertaking
<1> DEFINE Step ==
      \A i, j \in Jobs :
        (/\ GivenBy(j) /\ status[i] = "pending" /\ status'[i] = "pending"
         /\ \/ ask[i].priority > ask[j].priority
            \/ ask[i].priority = ask[j].priority /\ seq[i] < seq[j])
          => ~SurelyEligible(robotOf'[j], i)
<1>1. FleetInv /\ [Next]_vars => Step
  BY StepIsFair DEF Pending, Before
<1> HIDE DEF Step
<1>2. QED
  BY <1>1, FleetHolds, PTL DEF Spec, NoOvertaking, Step

\* With such a store, a pass that gives anything away leaves no job waiting
\* beside a robot that could take it.
THEOREM PassIsThorough ==
  ASSUME ~StoreMayFail
  PROVE  Spec => NothingLeftOver
<1> DEFINE Step ==
      (\E j \in Jobs : GivenBy(j)) => \A i \in Pending', r \in Robots : ~SurelyEligible(r, i)'
<1>1. FleetInv /\ [Next]_vars => Step
  BY StepIsFair
<1> HIDE DEF Step
<1>2. QED
  BY <1>1, FleetHolds, PTL DEF Spec, NothingLeftOver, Step
=============================================================================
