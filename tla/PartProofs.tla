----------------------------- MODULE PartProofs -----------------------------
(***************************************************************************)
(* Proofs about the parts of the engine that JobEngine states by their     *)
(* results or leaves out, for every order of the maps they walk through:   *)
(* the loop of refreshBlocked, the scan of bestRobotFor, the index of      *)
(* robots, the clock behind a heartbeat, the pass of DispatchOnce, write   *)
(* by write, and the plan behind the estimates.                            *)
(***************************************************************************)
EXTENDS RefreshLoop, RobotScan, RobotIndex, HeartbeatClock, DispatchLoop, QueuePlanner,
        JobStatusProofs, FiniteSetTheorems

-----------------------------------------------------------------------------
\* The loop of refreshBlocked.

\* While a pass has changed nothing, the waiting jobs it has visited are
\* settled: what they depend on has not moved since.
LoopInv ==
  /\ LoopTyped
  /\ AcyclicIn(dp)
  /\ \A j \in Jobs : from[j] \in Waiting <=> st[j] \in Waiting
  /\ \A j \in Jobs : from[j] \notin Waiting => st[j] = from[j]
  /\ ~changed => \A j \in Jobs \ todo : st[j] \in Waiting => st[j] = ComputeStatus(st, dp[j])
  /\ ended => todo = {} /\ ~changed

LEMMA LoopInvInit == LoopInit => LoopInv
BY DEF LoopInit, LoopInv, LoopTyped

LEMMA LoopInvNext == LoopInv /\ [LoopNext]_loopVars => LoopInv'
<1> SUFFICES ASSUME LoopInv, [LoopNext]_loopVars
             PROVE  LoopInv'
  OBVIOUS
<1> USE DEF LoopInv, LoopTyped
<1>1. ASSUME NEW j \in Jobs, Visit(j)
      PROVE  LoopInv'
  <2>1. CASE st[j] \in Waiting /\ st[j] # ComputeStatus(st, dp[j])
    <3>1. ComputeStatus(st, dp[j]) \in Waiting
      BY VerdictWaits
    <3>2. /\ st' = [st EXCEPT ![j] = ComputeStatus(st, dp[j])] /\ changed' = TRUE
          /\ todo' = todo \ {j} /\ UNCHANGED <<dp, from, ended>> /\ ~ended
      BY <1>1, <2>1 DEF Visit
    <3>3. \A i \in Jobs : /\ st'[i] \in Waiting <=> st[i] \in Waiting
                          /\ st[i] \notin Waiting => st'[i] = st[i]
      BY <2>1, <3>1, <3>2
    <3>4. st' \in [Jobs -> Status]
      BY <3>1, <3>2 DEF Status
    <3>5. QED
      BY <3>2, <3>3, <3>4
  <2>2. CASE ~(st[j] \in Waiting /\ st[j] # ComputeStatus(st, dp[j]))
    <3>1. UNCHANGED <<st, changed, dp, from, ended>> /\ todo' = todo \ {j}
      BY <1>1, <2>2 DEF Visit
    <3>2. QED
      BY <2>2, <3>1
  <2>3. QED
    BY <2>1, <2>2
<1>2. CASE EndPass
  BY <1>2 DEF EndPass
<1>3. CASE UNCHANGED loopVars
  BY <1>3 DEF loopVars
<1>4. QED
  BY <1>1, <1>2, <1>3 DEF LoopNext

LEMMA LoopHolds == LoopSpec => []LoopInv
BY LoopInvInit, LoopInvNext, PTL DEF LoopSpec

\* The exit test of the loop, changed = FALSE after a whole pass, is enough.
LEMMA LoopSettles == LoopInv => EndsSettled
BY DEF LoopInv, EndsSettled, Settled, WaitingIn

\* refreshBlocked leaves its loop only on a settled table, and has rewritten
\* nothing but waiting jobs, whatever the order of its visits.
THEOREM LoopEndsSettled == LoopSpec => []EndsSettled
BY LoopHolds, LoopSettles, PTL

\* The table refreshBlocked leaves does not depend on the order of the Go map:
\* it is the one that Refreshed, the result JobEngine states, allows.
THEOREM OrderIrrelevant == LoopSpec => []OrderDoesNotMatter
<1>1. LoopInv => OrderDoesNotMatter
  <2> SUFFICES ASSUME LoopInv, ended
               PROVE  Refreshed(from, dp) = {st}
    BY DEF OrderDoesNotMatter
  <2> DEFINE W == WaitingIn(from)
             laid(w) == [j \in Jobs |-> IF j \in W THEN w[j] ELSE from[j]]
             w == [j \in W |-> st[j]]
  <2>1. Settled(W, st, dp)
    BY LoopSettles DEF EndsSettled
  <2>2. w \in [W -> Waiting] /\ laid(w) = st
    BY DEF LoopInv, LoopTyped, WaitingIn
  <2> HIDE DEF w
  <2>3. st \in Refreshed(from, dp)
    BY <2>1, <2>2 DEF Refreshed
  <2>4. \A new \in Refreshed(from, dp) : new = st
    BY <2>3, OneSettledTable DEF LoopInv, LoopTyped
  <2>5. QED
    BY <2>3, <2>4
<1>2. QED
  BY <1>1, LoopHolds, PTL

-----------------------------------------------------------------------------
\* The comparison is a strict total order on robots.

LEMMA LighterOrder ==
  ASSUME NEW r \in Candidate, NEW s \in Candidate, NEW t \in Candidate
  PROVE  /\ ~Lighter(r, r)
         /\ Lighter(r, s) /\ Lighter(s, t) => Lighter(r, t)
         /\ r.id # s.id => Lighter(r, s) \/ Lighter(s, r)
BY DEF Lighter, Candidate

LEMMA CostIsNat ==
  ASSUME NEW a, NEW b, CostKnown(a, b)
  PROVE  Cost(a, b) \in Nat
BY ChoiceConstants DEF CostKnown, Cost

LEMMA CloserOrder ==
  ASSUME NEW p, NEW r \in Candidate, NEW s \in Candidate, NEW t \in Candidate
  PROVE  /\ ~Closer(p, r, r)
         /\ Closer(p, r, s) /\ Closer(p, s, t) => Closer(p, r, t)
         /\ r.id # s.id => Closer(p, r, s) \/ Closer(p, s, r)
<1> DEFINE K(c) == CostKnown(p, c.location)
           Far(c) == Cost(p, c.location)
<1>1. \A c \in {r, s, t} : K(c) => Far(c) \in Nat
  BY CostIsNat
<1>2. /\ ~Lighter(r, r)
      /\ Lighter(r, s) /\ Lighter(s, t) => Lighter(r, t)
      /\ r.id # s.id => Lighter(r, s) \/ Lighter(s, r)
  BY LighterOrder
<1>3. \A c, d \in {r, s, t} :
        Closer(p, c, d) <=> \/ K(c) /\ ~K(d)
                            \/ K(c) /\ K(d) /\ Far(c) < Far(d)
                            \/ K(c) /\ K(d) /\ Far(c) = Far(d) /\ Lighter(c, d)
                            \/ ~K(c) /\ ~K(d) /\ Lighter(c, d)
  BY DEF Closer
<1> HIDE DEF K, Far
<1>4. QED
  BY <1>1, <1>2, <1>3

LEMMA LocalFirstOrder ==
  ASSUME NEW p, NEW r \in Candidate, NEW s \in Candidate, NEW t \in Candidate
  PROVE  /\ ~LocalFirst(p, r, r)
         /\ LocalFirst(p, r, s) /\ LocalFirst(p, s, t) => LocalFirst(p, r, t)
         /\ r.id # s.id => LocalFirst(p, r, s) \/ LocalFirst(p, s, r)
BY LighterOrder DEF LocalFirst, Local

\* Between two robots bestRobotFor always prefers one, and never in a circle:
\* a fleet has one best robot for a job.
THEOREM PreferredOrder ==
  ASSUME NEW p, NEW r \in Candidate, NEW s \in Candidate, NEW t \in Candidate
  PROVE  /\ ~Preferred(p, r, r)
         /\ Preferred(p, r, s) /\ Preferred(p, s, t) => Preferred(p, r, t)
         /\ r.id # s.id => Preferred(p, r, s) \/ Preferred(p, s, r)
BY CloserOrder, LocalFirstOrder DEF Preferred

-----------------------------------------------------------------------------
\* The scan.

\* b is the robot of R that comes first in the order "better"; none of none.
LightestOf(R, b) ==
  \/ R = {} /\ b = NoRobot
  \/ b \in R /\ \A s \in R \ {b} : Lighter(AsCandidate(b), AsCandidate(s))

ClosestOf(R, b) ==
  \/ R = {} /\ b = NoRobot
  \/ b \in R /\ \A s \in R \ {b} : Closer(place, AsCandidate(b), AsCandidate(s))

LocalOnes == {r \in Weighed : Local(place, AsCandidate(r))}

\* With the cost table the loop keeps the closest robot; without it the best of
\* all and the best of those at the place of the job, side by side.
ScanInv ==
  /\ ScanTyped
  /\ IF ByCost(place)
     THEN ClosestOf(Weighed, best) /\ bestInLocation = NoRobot
     ELSE LightestOf(Weighed, best) /\ LightestOf(LocalOnes, bestInLocation)

LEMMA CandidatesTyped ==
  ASSUME ScanTyped, NEW r \in Robots
  PROVE  AsCandidate(r) \in Candidate /\ AsCandidate(r).id = r
BY ScanConstants DEF AsCandidate, Candidate, ScanTyped

LEMMA RobotsNotNone == NoRobot \notin Robots
BY ScanConstants DEF NoRobot

\* One more robot, and the comparison with the one kept so far is enough.
LEMMA LightestWithOneMore ==
  ASSUME ScanTyped, NEW R \in SUBSET Robots, NEW r \in Robots \ R, NEW b, LightestOf(R, b)
  PROVE  LightestOf(R \cup {r}, IF IsBetter(r, b) THEN r ELSE b)
<1>1. CASE R = {}
  BY <1>1 DEF LightestOf, IsBetter
<1>2. CASE b \in R
  <2>1. \A s \in R : /\ AsCandidate(s) \in Candidate /\ AsCandidate(s).id = s
                     /\ AsCandidate(r) \in Candidate /\ AsCandidate(r).id = r
    BY CandidatesTyped
  <2>2. \A s \in R \ {b} : Lighter(AsCandidate(b), AsCandidate(s))
    BY <1>2, RobotsNotNone DEF LightestOf
  <2>3. IsBetter(r, b) <=> Lighter(AsCandidate(r), AsCandidate(b))
    BY <1>2, RobotsNotNone DEF IsBetter
  <2>4. CASE IsBetter(r, b)
    <3>1. \A s \in R : Lighter(AsCandidate(r), AsCandidate(s))
      BY <1>2, <2>1, <2>2, <2>3, <2>4, LighterOrder
    <3>2. QED
      BY <2>4, <3>1 DEF LightestOf
  <2>5. CASE ~IsBetter(r, b)
    <3>1. Lighter(AsCandidate(b), AsCandidate(r))
      BY <1>2, <2>1, <2>3, <2>5, LighterOrder
    <3>2. QED
      BY <1>2, <2>2, <2>5, <3>1 DEF LightestOf
  <2>6. QED
    BY <2>4, <2>5
<1>3. QED
  BY <1>1, <1>2 DEF LightestOf

LEMMA ClosestWithOneMore ==
  ASSUME ScanTyped, NEW R \in SUBSET Robots, NEW r \in Robots \ R, ClosestOf(R, best)
  PROVE  ClosestOf(R \cup {r}, IF TakesClosest(r) THEN r ELSE best)
<1>1. CASE R = {}
  BY <1>1 DEF ClosestOf, TakesClosest
<1>2. CASE best \in R
  <2>1. \A s \in R : /\ AsCandidate(s) \in Candidate /\ AsCandidate(s).id = s
                     /\ AsCandidate(r) \in Candidate /\ AsCandidate(r).id = r
    BY CandidatesTyped
  <2>2. \A s \in R \ {best} : Closer(place, AsCandidate(best), AsCandidate(s))
    BY <1>2, RobotsNotNone DEF ClosestOf
  <2>3. TakesClosest(r) <=> Closer(place, AsCandidate(r), AsCandidate(best))
    BY <1>2, RobotsNotNone DEF TakesClosest
  <2>4. CASE TakesClosest(r)
    <3>1. \A s \in R : Closer(place, AsCandidate(r), AsCandidate(s))
      BY <1>2, <2>1, <2>2, <2>3, <2>4, CloserOrder
    <3>2. QED
      BY <2>4, <3>1 DEF ClosestOf
  <2>5. CASE ~TakesClosest(r)
    <3>1. Closer(place, AsCandidate(best), AsCandidate(r))
      BY <1>2, <2>1, <2>3, <2>5, CloserOrder
    <3>2. QED
      BY <1>2, <2>2, <2>5, <3>1 DEF ClosestOf
  <2>6. QED
    BY <2>4, <2>5
<1>3. QED
  BY <1>1, <1>2 DEF ClosestOf

LEMMA ScanInvInit == ScanInit => ScanInv
<1> SUFFICES ASSUME ScanInit PROVE ScanInv
  OBVIOUS
<1>1. ScanTyped
  BY ScanConstants DEF ScanInit, ScanTyped
<1>2. Weighed = {} /\ LocalOnes = {}
  BY DEF ScanInit, Weighed, LocalOnes
<1>3. QED
  BY <1>1, <1>2 DEF ScanInit, ScanInv, LightestOf, ClosestOf

LEMMA ScanInvNext == ScanInv /\ [ScanNext]_scanVars => ScanInv'
<1> SUFFICES ASSUME ScanInv, [ScanNext]_scanVars
             PROVE  ScanInv'
  OBVIOUS
<1>1. CASE UNCHANGED scanVars
  BY <1>1 DEF scanVars, ScanInv, ScanTyped, Weighed, LocalOnes, LightestOf, ClosestOf, AsCandidate
<1>2. ASSUME NEW r \in Robots, Weigh(r)
      PROVE  ScanInv'
  <2>1. ScanTyped
    BY DEF ScanInv
  <2>2. UNCHANGED <<place, load, location>> /\ unseen' = unseen \ {r} /\ r \in unseen
    BY <1>2 DEF Weigh
  <2>3. ScanTyped'
    BY <1>2, <2>1, <2>2 DEF Weigh, ScanTyped
  <2>4. Weighed' = Weighed \cup {r} /\ r \notin Weighed /\ Weighed \in SUBSET Robots
    BY <2>2 DEF Weighed
  <2>5. LocalOnes' = IF Local(place, AsCandidate(r)) THEN LocalOnes \cup {r} ELSE LocalOnes
    BY <2>2, <2>4 DEF LocalOnes, AsCandidate
  <2>6. \A s : AsCandidate(s)' = AsCandidate(s)
    BY <2>2 DEF AsCandidate
  <2>7. CASE ByCost(place)
    <3>1. best' = (IF TakesClosest(r) THEN r ELSE best) /\ UNCHANGED bestInLocation
      BY <1>2, <2>7 DEF Weigh
    <3>2. ClosestOf(Weighed \cup {r}, best')
      BY <2>1, <2>4, <2>7, <3>1, ClosestWithOneMore DEF ScanInv
    <3>3. ClosestOf(Weighed, best)'
      BY <2>2, <2>4, <2>6, <3>2 DEF ClosestOf
    <3>4. QED
      BY <2>2, <2>3, <2>7, <3>1, <3>3 DEF ScanInv, ByCost
  <2>8. CASE ~ByCost(place)
    <3>1. /\ best' = IF IsBetter(r, best) THEN r ELSE best
          /\ bestInLocation' =
               IF Local(place, AsCandidate(r)) /\ IsBetter(r, bestInLocation)
               THEN r ELSE bestInLocation
      BY <1>2, <2>8 DEF Weigh
    <3>2. LightestOf(Weighed \cup {r}, best')
      BY <2>1, <2>4, <2>8, <3>1, LightestWithOneMore DEF ScanInv
    <3>3. LightestOf(LocalOnes', bestInLocation')
      <4>1. LocalOnes \in SUBSET Robots /\ r \in Robots \ LocalOnes
        BY <2>4 DEF LocalOnes
      <4>2. LightestOf(LocalOnes \cup {r}, IF IsBetter(r, bestInLocation) THEN r ELSE bestInLocation)
        BY <2>1, <2>8, <4>1, LightestWithOneMore DEF ScanInv
      <4>3. QED
        BY <2>5, <2>8, <3>1, <4>2 DEF ScanInv
    <3>4. LightestOf(Weighed, best)' /\ LightestOf(LocalOnes, bestInLocation)'
      BY <2>2, <2>4, <2>6, <3>2, <3>3 DEF LightestOf
    <3>5. QED
      BY <2>2, <2>3, <2>8, <3>4 DEF ScanInv, ByCost
  <2>9. QED
    BY <2>7, <2>8
<1>3. QED
  BY <1>1, <1>2 DEF ScanNext

\* The two robots kept without the cost table hold the answer between them.
LEMMA ScanKeepsTheBest == ScanInv => KeepsTheBest
<1> SUFFICES ASSUME ScanInv
             PROVE  KeepsTheBest
  OBVIOUS
<1>1. ScanTyped /\ Weighed \in SUBSET Robots
  BY DEF ScanInv, Weighed
<1>2. \A s \in Weighed : AsCandidate(s) \in Candidate /\ AsCandidate(s).id = s
  BY <1>1, CandidatesTyped
<1>3. SUFFICES ASSUME Weighed # {}
               PROVE  /\ Chosen \in Weighed
                      /\ \A s \in Weighed \ {Chosen} :
                            Preferred(place, AsCandidate(Chosen), AsCandidate(s))
  <2>1. CASE Weighed = {}
    <3>1. LocalOnes = {}
      BY <2>1 DEF LocalOnes
    <3>2. best = NoRobot /\ bestInLocation = NoRobot
      BY <2>1, <3>1 DEF ScanInv, ClosestOf, LightestOf
    <3>3. QED
      BY <2>1, <3>2 DEF KeepsTheBest, Chosen
  <2>2. CASE Weighed # {}
    BY <1>2, <1>3, <2>2 DEF KeepsTheBest, IsBest
  <2>3. QED
    BY <2>1, <2>2
<1>4. CASE ByCost(place)
  BY <1>1, <1>3, <1>4, RobotsNotNone DEF ScanInv, ClosestOf, Chosen, Preferred
<1>5. CASE ~ByCost(place) /\ LocalOnes = {}
  <2>1. bestInLocation = NoRobot /\ Chosen = best
    BY <1>5 DEF ScanInv, LightestOf, Chosen
  <2>2. \A s \in Weighed : ~Local(place, AsCandidate(s))
    BY <1>5 DEF LocalOnes
  <2>3. QED
    BY <1>1, <1>3, <1>5, <2>1, <2>2, RobotsNotNone DEF ScanInv, LightestOf, Preferred, LocalFirst
<1>6. CASE ~ByCost(place) /\ LocalOnes # {}
  <2>1. /\ bestInLocation \in LocalOnes
        /\ \A s \in LocalOnes \ {bestInLocation} :
              Lighter(AsCandidate(bestInLocation), AsCandidate(s))
    BY <1>6 DEF ScanInv, LightestOf
  <2>2. Chosen = bestInLocation /\ bestInLocation \in Weighed
    BY <1>1, <2>1, RobotsNotNone DEF Chosen, LocalOnes
  <2>3. \A s \in Weighed : s \in LocalOnes <=> Local(place, AsCandidate(s))
    BY DEF LocalOnes
  <2>4. QED
    BY <1>6, <2>1, <2>2, <2>3 DEF Preferred, LocalFirst
<1>7. QED
  BY <1>4, <1>5, <1>6

\* Whatever the order in which bestRobotFor meets the robots of the Go map, the
\* one it keeps is the one preferred to all it has met.
THEOREM ScanFindsTheBest == ScanSpec => []KeepsTheBest
BY ScanInvInit, ScanInvNext, ScanKeepsTheBest, PTL DEF ScanSpec

-----------------------------------------------------------------------------
\* The index.

IndexTyped ==
  /\ queued \in SUBSET Jobs
  /\ named \in [Jobs -> Robots \cup {NoRobot}]
  /\ heldBy \in [Robots -> SUBSET Jobs]

\* A job that names a robot is listed for it, and one that left names none.
IndexInv ==
  /\ IndexTyped
  /\ \A j \in queued : named[j] # NoRobot => j \in heldBy[named[j]]
  /\ \A j \in Jobs \ queued : named[j] = NoRobot

\* Each operation on jobs, robots and the index keeps it.
LEMMA IndexInvStep == IndexInv /\ [IndexNext]_indexVars => IndexInv'
<1> SUFFICES ASSUME IndexInv, [IndexNext]_indexVars PROVE IndexInv'
  OBVIOUS
<1> USE IndexAssumption DEF IndexInv, IndexTyped
<1>1. ASSUME NEW j \in Jobs, InsertJob(j) PROVE IndexInv'
  BY <1>1 DEF InsertJob
<1>2. ASSUME NEW j \in Jobs, TakeBack(j) PROVE IndexInv'
  BY <1>2 DEF TakeBack
<1>3. ASSUME NEW j \in Jobs, ForgetJob(j) PROVE IndexInv'
  BY <1>3 DEF ForgetJob
<1>4. ASSUME NEW j \in Jobs, NEW r \in Robots, NEW taken \in BOOLEAN, GiveTo(j, r, taken)
      PROVE  IndexInv'
  BY <1>4 DEF GiveTo, Noted
<1>5. ASSUME NEW r \in Robots, FindJobs(r) PROVE IndexInv'
  BY <1>5 DEF FindJobs, FoundFor
<1>6. CASE LoadQueue
  BY <1>6 DEF LoadQueue, Loaded
<1>7. CASE UNCHANGED indexVars
  BY <1>7 DEF indexVars
<1>. QED
  BY <1>1, <1>2, <1>3, <1>4, <1>5, <1>6, <1>7 DEF IndexNext

\* Reading the index finds exactly the jobs that name the robot, for any jobs
\* and robots (jobsHeldByLocked).
THEOREM IndexComplete == IndexSpec => []IndexFindsAll
<1>1. IndexInit => IndexInv
  BY DEF IndexInit, IndexInv, IndexTyped
<1>2. IndexInv => IndexFindsAll
  BY IndexAssumption DEF IndexInv, IndexTyped, IndexFindsAll, FoundFor
<1>. QED
  BY <1>1, <1>2, IndexInvStep, PTL DEF IndexSpec

-----------------------------------------------------------------------------
\* The clock.

\* While the robot is silent, its heartbeat has grown older for at least as
\* long as the robot was fresh, starting no further than Skew in the future.
ClockInv ==
  /\ ClockTyped
  /\ offered <= Timeout + Skew
  /\ offered > 0 => offered <= Age + Skew

\* Each step of the clock, of the robot and of the process keeps it.
LEMMA ClockInvStep == ClockInv /\ [ClockNext]_clockVars => ClockInv'
<1> SUFFICES ASSUME ClockInv, [ClockNext]_clockVars PROVE ClockInv'
  OBVIOUS
<1> USE ClockAssumption DEF ClockInv, ClockTyped, TimeType, Unread
<1>1. CASE PassTime
  <2>1. ClockTyped' /\ Age' = Age + 1 /\ Age \in Int
    BY <1>1 DEF PassTime, Age
  <2>2. CASE Fresh /\ Fresh'
    <3>1. -Age <= Skew /\ Age' <= Timeout /\ offered' = offered + 1
      BY <1>1, <2>1, <2>2 DEF PassTime, Fresh, FromFuture
    <3>2. offered' <= Age' + Skew
      BY <2>1, <3>1
    <3>. QED
      BY <2>1, <3>1, <3>2
  <2>3. CASE ~(Fresh /\ Fresh')
    BY <1>1, <2>1, <2>3 DEF PassTime
  <2>. QED
    BY <2>2, <2>3
<1>2. ASSUME NEW written \in BOOLEAN, HearRobot(written) PROVE ClockInv'
  BY <1>2 DEF HearRobot
<1>3. ASSUME NEW e \in Errors, SetClock(e) PROVE ClockInv'
  BY <1>3 DEF SetClock
<1>4. CASE LoadRobots
  BY <1>4 DEF LoadRobots
<1>5. CASE UNCHANGED clockVars
  BY <1>5 DEF clockVars, Age
<1>. QED
  BY <1>1, <1>2, <1>3, <1>4, <1>5 DEF ClockNext

\* For any timeout, any tolerance and any clock, a robot that says nothing is
\* fresh for at most Timeout + Skew until it, the clock or the process is
\* touched (robotEligibleLocked, heartbeatFromFuture).
THEOREM SilentIsOfferedBriefly == ClockSpec => []OfferedBriefly
<1>1. ClockInit => ClockInv
  BY ClockAssumption DEF ClockInit, ClockInv, ClockTyped, TimeType, NoBeat, Unread
<1>2. ClockInv => OfferedBriefly
  BY ClockAssumption
     DEF ClockInv, ClockTyped, TimeType, OfferedBriefly, Fresh, Stale, FromFuture, Age, Unread
<1>. QED
  BY <1>1, <1>2, ClockInvStep, PTL DEF ClockSpec
-----------------------------------------------------------------------------
\* The pass.

InPass == {j \in Jobs : found.status[j] = "pending"}

MadeType == [status : [Jobs -> Status], robotOf : [Jobs -> Robots \cup {NoRobot}],
             attempt : [Jobs -> Nat], available : [Robots -> BOOLEAN]]

PassTyped ==
  /\ found \in Situations
  /\ made \in MadeType
  /\ line \subseteq InPass
  /\ refused \subseteq InPass \ line
  /\ picked \in [InPass -> Robots \cup {NoRobot}]
  /\ at \in {"next", "robot", "job", "ended"}

Writing == at \in {"robot", "job"}

\* The jobs that hold a robot so far, and those that are already assigned.
Holders == {j \in InPass \ (line \cup refused) : picked[j] # NoRobot}
Marked  == {j \in Holders : at = "robot" => j # given.job}

\* The pass has come to the jobs in its order.
InOrder ==
  /\ \A i \in InPass \ line, j \in line : ComesFirst(i, j)
  /\ Writing => \A i \in InPass \ line : i # given.job => ComesFirst(i, given.job)
  /\ \A j \in line : picked[j] = NoRobot
  /\ at = "ended" => line = {}

\* The job being written is the last one the pass came to.
GivenInv ==
  Writing => /\ given.job \in InPass \ (line \cup refused)
             /\ given.robot \in Robots
             /\ picked[given.job] = given.robot

\* What is made follows from what was picked and refused.
MadeInv ==
  /\ \A j \in Jobs : made.status[j] = IF j \in Marked THEN "assigned" ELSE found.status[j]
  /\ \A j \in Jobs : made.robotOf[j] = IF j \in Marked THEN picked[j] ELSE found.robotOf[j]
  /\ \A j \in Jobs : made.attempt[j] = IF j \in Marked THEN found.attempt[j] + 1
                                       ELSE found.attempt[j]
  /\ \A r \in Robots :
       made.available[r] <=> (found.available[r] /\ \A j \in Holders : picked[j] # r)

\* The robots that the one step of JobEngine would offer to the job.
Able(r, j) ==
  /\ r \in found.known /\ found.available[r]
  /\ found.ask[j].tool # NoFitting =>
       found.body[r].tool = found.ask[j].tool /\ r \in found.confirmed
  /\ found.heard[r]

FreeFor(j) ==
  {r \in Robots : /\ Able(r, j)
                  /\ \A i \in InPass \ refused : ComesFirst(i, j) => picked[i] # r}

PickedWell(j) ==
  \/ FreeFor(j) = {} /\ picked[j] = NoRobot
  \/ /\ picked[j] \in FreeFor(j)
     /\ \A s \in FreeFor(j) \ {picked[j]} :
          Preferred(found.ask[j].location, ToCompare(picked[j]), ToCompare(s))

PassInv ==
  /\ PassTyped /\ InOrder /\ GivenInv /\ MadeInv
  /\ \A j \in InPass \ line : PickedWell(j)

\* The order of a pass has no two jobs before one another.
LEMMA FirstIsAsymmetric ==
  ASSUME found \in Situations, NEW i \in Jobs, NEW j \in Jobs, ComesFirst(i, j)
  PROVE  ~ComesFirst(j, i)
<1>1. found \in SituationType
  BY PassAssumption
<1>2. /\ found.ask[i].priority \in Nat /\ found.ask[j].priority \in Nat
      /\ found.seq[i] \in Nat /\ found.seq[j] \in Nat
  BY <1>1 DEF SituationType, AskType
<1>. QED
  BY <1>2 DEF ComesFirst

\* A pass begins with nothing picked, refused or made.
LEMMA PassInvInit == PassInit => PassInv
<1> SUFFICES ASSUME PassInit PROVE PassInv
  OBVIOUS
<1>1. found \in SituationType
  BY PassAssumption DEF PassInit
<1>2. PassTyped
  BY <1>1 DEF PassInit, PassTyped, MadeType, Found, InPass, SituationType
<1>3. Holders = {} /\ Marked = {} /\ line = InPass
  BY DEF PassInit, Holders, Marked, InPass
<1>4. InOrder /\ GivenInv
  BY <1>3 DEF PassInit, InOrder, GivenInv, Writing, InPass
<1>5. MadeInv
  BY <1>3 DEF PassInit, MadeInv, Found
<1>. QED
  BY <1>2, <1>3, <1>4, <1>5 DEF PassInv

\* What the loop offers to the next job is what the one step would offer it.
LEMMA SuitedIsFree ==
  ASSUME PassInv, at = "next", NEW j \in line
  PROVE  Suited(j) = FreeFor(j)
<1>1. j \in Jobs /\ j \in InPass
  BY DEF PassInv, PassTyped, InPass
<1>2. ASSUME NEW r \in Robots
      PROVE  (\A i \in Holders : picked[i] # r)
               <=> (\A i \in InPass \ refused : ComesFirst(i, j) => picked[i] # r)
  <2>1. \A i \in Holders : i \in InPass \ refused /\ ComesFirst(i, j)
    BY DEF PassInv, InOrder, Holders
  <2>2. \A i \in InPass \ refused : i \in Holders \/ picked[i] = NoRobot
    BY DEF PassInv, InOrder, Holders
  <2>3. r # NoRobot
    BY PassAssumption DEF NoRobot
  <2>. QED
    BY <2>1, <2>2, <2>3
<1>3. \A r \in Robots : made.available[r] <=>
        (found.available[r] /\ \A i \in InPass \ refused : ComesFirst(i, j) => picked[i] # r)
  BY <1>2 DEF PassInv, MadeInv
<1>. QED
  BY <1>3 DEF Suited, MayHave, FreeFor, Able

\* Jobs the pass has come to keep the robots they were offered, whatever happens
\* to a job that comes after them.
LEMMA EarlierStayPicked ==
  ASSUME PassInv, found' = found, NEW k \in InPass, k \in InPass \ line,
         PickedWell(k), picked'[k] = picked[k],
         \A i \in InPass : ComesFirst(i, k) =>
            /\ i \in refused <=> i \in refused'
            /\ picked'[i] = picked[i]
  PROVE  PickedWell(k)'
<1>1. InPass' = InPass
  BY DEF InPass
<1>2. FreeFor(k)' = FreeFor(k)
  BY <1>1 DEF FreeFor, Able, ComesFirst
<1>. QED
  BY <1>2 DEF PickedWell, ToCompare

\* The next job picks a robot or finds none.
LEMMA TakeUpKeeps ==
  ASSUME PassInv, NEW j \in Jobs, TakeUp(j)
  PROVE  PassInv'
<1>1. /\ at = "next" /\ j \in line /\ line' = line \ {j} /\ found' = found
      /\ refused' = refused /\ \A i \in line \ {j} : ComesFirst(j, i)
  BY DEF TakeUp
<1>2. InPass' = InPass /\ j \in InPass /\ j \notin refused
  BY <1>1 DEF InPass, PassInv, PassTyped
<1>3. \A i \in InPass \ line : ComesFirst(i, j) /\ i # j
  BY <1>1 DEF PassInv, InOrder
<1>4. \A k \in InPass \ line : ~ComesFirst(j, k) /\ PickedWell(k)
  BY <1>3, FirstIsAsymmetric DEF PassInv, PassTyped, InPass
<1>5. Suited(j) = FreeFor(j)
  BY <1>1, SuitedIsFree
<1>6. picked[j] = NoRobot
  BY <1>1 DEF PassInv, InOrder
<1>7. CASE Suited(j) = {} /\ UNCHANGED <<made, given, at, picked>>
  <2>1. PassTyped' /\ InOrder' /\ GivenInv'
    BY <1>1, <1>2, <1>3, <1>7
       DEF PassInv, PassTyped, InOrder, GivenInv, Writing, ComesFirst
  <2>2. Holders' = Holders /\ Marked' = Marked
    BY <1>1, <1>2, <1>6, <1>7 DEF Holders, Marked
  <2>3. MadeInv'
    BY <1>1, <1>2, <1>7, <2>2 DEF PassInv, MadeInv
  <2>4. ASSUME NEW k \in InPass \ line PROVE PickedWell(k)'
    BY <1>1, <1>2, <1>4, <1>7, EarlierStayPicked
  <2>5. PickedWell(j)'
    BY <1>1, <1>2, <1>5, <1>6, <1>7 DEF PickedWell, FreeFor, Able, ComesFirst
  <2>. QED
    BY <1>1, <1>2, <2>1, <2>3, <2>4, <2>5 DEF PassInv
<1>8. ASSUME NEW r \in Robots, Fittest(r, j),
             made' = [made EXCEPT !.available[r] = FALSE],
             given' = [job |-> j, robot |-> r],
             picked' = [picked EXCEPT ![j] = r], at' = "robot"
      PROVE  PassInv'
  <2>1. r # NoRobot
    BY PassAssumption DEF NoRobot
  <2>2. /\ picked'[j] = r
        /\ \A k \in InPass : k # j => picked'[k] = picked[k]
        /\ picked' \in [InPass -> Robots \cup {NoRobot}]
    BY <1>2, <1>8 DEF PassInv, PassTyped
  <2>3. /\ made' \in MadeType
        /\ made'.status = made.status /\ made'.robotOf = made.robotOf
        /\ made'.attempt = made.attempt
        /\ \A s \in Robots : made'.available[s] <=> (made.available[s] /\ s # r)
    BY <1>8 DEF PassInv, PassTyped, MadeType
  <2>4. PassTyped'
    BY <1>1, <1>2, <1>8, <2>2, <2>3 DEF PassInv, PassTyped
  <2>5. InOrder' /\ GivenInv'
    BY <1>1, <1>2, <1>3, <1>8, <2>2
       DEF PassInv, PassTyped, InOrder, GivenInv, Writing, ComesFirst
  <2>6. Holders' = Holders \cup {j} /\ Marked' = Marked /\ j \notin Holders
    BY <1>1, <1>2, <1>8, <2>1, <2>2 DEF Holders, Marked
  <2>7. MadeInv'
    <3>1. \A k \in Marked : picked'[k] = picked[k]
      BY <1>1, <2>2, <2>6 DEF Marked, Holders
    <3>2. \A s \in Robots : (\A k \in Holders' : picked'[k] # s)
                              <=> (s # r /\ \A k \in Holders : picked[k] # s)
      BY <2>2, <2>6 DEF Holders
    <3>. QED
      BY <1>1, <2>3, <2>6, <3>1, <3>2 DEF PassInv, MadeInv
  <2>8. ASSUME NEW k \in InPass \ line PROVE PickedWell(k)'
    <3>1. \A i \in InPass : ComesFirst(i, k) => i # j
      BY <1>4
    <3>. QED
      BY <1>1, <1>3, <1>4, <2>2, <3>1, EarlierStayPicked
  <2>9. PickedWell(j)'
    <3>1. ~ComesFirst(j, j)
      BY FirstIsAsymmetric DEF PassInv, PassTyped
    <3>2. FreeFor(j)' = FreeFor(j)
      BY <1>1, <1>2, <2>2, <3>1 DEF FreeFor, Able, ComesFirst
    <3>3. /\ r \in FreeFor(j)
          /\ \A s \in FreeFor(j) \ {r} :
               Preferred(found.ask[j].location, ToCompare(r), ToCompare(s))
      BY <1>5, <1>8 DEF Fittest
    <3>. QED
      BY <1>1, <2>2, <3>2, <3>3 DEF PickedWell, ToCompare
  <2>. QED
    BY <1>1, <1>2, <2>4, <2>5, <2>7, <2>8, <2>9 DEF PassInv
<1>. QED
  BY <1>7, <1>8 DEF TakeUp

\* The job being written comes after all others the pass has come to, and no
\* other of them holds its robot.
LEMMA GivenComesLast ==
  ASSUME PassInv, Writing
  PROVE  /\ given.job \in InPass /\ given.job \in Jobs
         /\ \A k \in InPass \ line : ~ComesFirst(given.job, k)
         /\ \A k \in Holders : k # given.job => picked[k] # given.robot
         /\ found.available[given.robot]
         /\ given.robot # NoRobot
<1>1. given.job \in InPass \ (line \cup refused) /\ picked[given.job] = given.robot
  BY DEF PassInv, GivenInv
<1>2. given.job \in Jobs /\ found \in Situations /\ given.robot \in Robots
  BY <1>1 DEF InPass, PassInv, PassTyped, GivenInv
<1>3. given.robot # NoRobot
  BY <1>2, PassAssumption DEF NoRobot
<1>4. ~ComesFirst(given.job, given.job)
  BY <1>2, FirstIsAsymmetric
<1>5. \A k \in InPass \ line : k # given.job => ComesFirst(k, given.job)
  BY DEF PassInv, InOrder
<1>6. \A k \in InPass \ line : ~ComesFirst(given.job, k)
  BY <1>2, <1>4, <1>5, FirstIsAsymmetric DEF InPass
<1>7. given.robot \in FreeFor(given.job)
  BY <1>1, <1>3 DEF PassInv, PickedWell
<1>. QED
  BY <1>1, <1>2, <1>3, <1>5, <1>6, <1>7 DEF FreeFor, Able, Holders

\* A refused job leaves what others hold as it was.
LEMMA RefusedLeavesRest ==
  ASSUME PassInv, Writing, found' = found, line' = line, given' = given,
         picked' = picked, at' = "next", refused' = refused \cup {given.job},
         made' \in MadeType,
         \A j \in Jobs : /\ made'.status[j] = IF j = given.job THEN "pending" ELSE made.status[j]
                         /\ made'.robotOf[j] = IF j = given.job THEN NoRobot ELSE made.robotOf[j]
                         /\ made'.attempt[j] = IF j = given.job THEN found.attempt[j]
                                               ELSE made.attempt[j],
         \A r \in Robots : made'.available[r] <=> (made.available[r] \/ r = given.robot)
  PROVE  PassInv'
<1> USE GivenComesLast
<1>1. given.job \in InPass \ (line \cup refused) /\ InPass' = InPass
  BY DEF PassInv, GivenInv, InPass
<1>2. PassTyped'
  BY <1>1 DEF PassInv, PassTyped
<1>3. InOrder' /\ GivenInv'
  BY <1>1 DEF PassInv, InOrder, GivenInv, Writing, ComesFirst
<1>4. Holders' = Holders \ {given.job} /\ Marked' = Holders \ {given.job}
  BY <1>1 DEF Holders, Marked
<1>5. /\ picked[given.job] = given.robot /\ given.job \in Holders
      /\ \A j \in Jobs : j # given.job => (j \in Marked <=> j \in Marked')
  BY <1>1, <1>4 DEF PassInv, GivenInv, Holders, Marked
<1>6. found.status[given.job] = "pending" /\ found.robotOf[given.job] = NoRobot
  BY <1>1, PassAssumption DEF InPass, PassInv, PassTyped
<1>7. MadeInv'
  <2>1. \A r \in Robots : (\A j \in Holders : picked[j] # r) \/ r = given.robot
                            <=> (\A j \in Holders' : picked[j] # r)
    BY <1>4, <1>5
  <2>2. \A r \in Robots :
          made'.available[r] <=> (found.available[r] /\ \A j \in Holders' : picked[j] # r)
    BY <2>1 DEF PassInv, MadeInv
  <2>. QED
    BY <1>4, <1>5, <1>6, <2>2 DEF PassInv, MadeInv
<1>8. ASSUME NEW k \in InPass \ line PROVE PickedWell(k)'
  BY EarlierStayPicked DEF PassInv
<1>. QED
  BY <1>1, <1>2, <1>3, <1>7, <1>8 DEF PassInv

\* The write of the robot, taken or refused.
LEMMA SaveRobotKeeps ==
  ASSUME PassInv, NEW taken \in BOOLEAN, SaveRobot(taken)
  PROVE  PassInv'
<1>1. /\ at = "robot" /\ Writing /\ found' = found /\ line' = line
      /\ given' = given /\ picked' = picked
  BY DEF SaveRobot, Writing
<1>2. /\ InPass' = InPass /\ given.job \in InPass \ (line \cup refused)
      /\ given.robot \in Robots /\ picked[given.job] = given.robot
  BY <1>1 DEF InPass, PassInv, GivenInv
<1>6. /\ given.job \in Jobs /\ made \in MadeType /\ found \in SituationType
      /\ given.robot # NoRobot
  BY <1>1, GivenComesLast, PassAssumption DEF PassInv, PassTyped
<1>3. /\ given.job \in Holders /\ given.job \notin Marked
      /\ Holders = Marked \cup {given.job}
  BY <1>1, <1>2, <1>6 DEF Holders, Marked
<1>4. CASE taken
  <2>1. /\ at' = "job" /\ refused' = refused
        /\ made' = [made EXCEPT !.status[given.job] = "assigned",
                                !.robotOf[given.job] = given.robot,
                                !.attempt[given.job] = @ + 1]
    BY <1>4 DEF SaveRobot
  <2>2. /\ made' \in MadeType /\ made'.available = made.available
        /\ \A j \in Jobs :
             /\ made'.status[j] = IF j = given.job THEN "assigned" ELSE made.status[j]
             /\ made'.robotOf[j] = IF j = given.job THEN given.robot ELSE made.robotOf[j]
             /\ made'.attempt[j] = IF j = given.job THEN made.attempt[j] + 1
                                   ELSE made.attempt[j]
    <3>1. "assigned" \in Status
      BY DEF Status, InFlight
    <3>2. /\ made'.status = [made.status EXCEPT ![given.job] = "assigned"]
          /\ made'.robotOf = [made.robotOf EXCEPT ![given.job] = given.robot]
          /\ made'.attempt = [made.attempt EXCEPT ![given.job] = made.attempt[given.job] + 1]
          /\ made'.available = made.available
          /\ made' = [status |-> made'.status, robotOf |-> made'.robotOf,
                      attempt |-> made'.attempt, available |-> made'.available]
      BY <1>6, <2>1 DEF MadeType
    <3>3. /\ made.status \in [Jobs -> Status] /\ made.attempt \in [Jobs -> Nat]
          /\ made.robotOf \in [Jobs -> Robots \cup {NoRobot}]
          /\ made.available \in [Robots -> BOOLEAN]
      BY <1>6 DEF MadeType
    <3>4. /\ made'.status \in [Jobs -> Status] /\ made'.attempt \in [Jobs -> Nat]
          /\ made'.robotOf \in [Jobs -> Robots \cup {NoRobot}]
      BY <1>2, <1>6, <3>1, <3>2, <3>3
    <3>5. made' \in MadeType
      BY <3>2, <3>3, <3>4 DEF MadeType
    <3>. QED
      BY <1>6, <3>2, <3>3, <3>5
  <2>3. Holders' = Holders /\ Marked' = Holders
    BY <1>1, <1>2, <2>1 DEF Holders, Marked
  <2>4. PassTyped' /\ InOrder' /\ GivenInv'
    BY <1>1, <1>2, <2>1, <2>2
       DEF PassInv, PassTyped, InOrder, GivenInv, Writing, ComesFirst
  <2>5. MadeInv'
    BY <1>1, <1>2, <1>3, <2>2, <2>3 DEF PassInv, MadeInv
  <2>6. ASSUME NEW k \in InPass \ line PROVE PickedWell(k)'
    BY <1>1, <2>1, EarlierStayPicked DEF PassInv
  <2>. QED
    BY <1>1, <1>2, <2>4, <2>5, <2>6 DEF PassInv
<1>5. CASE ~taken
  <2>1. /\ at' = "next" /\ refused' = refused \cup {given.job}
        /\ made' = [made EXCEPT !.available[given.robot] = TRUE]
    BY <1>5 DEF SaveRobot
  <2>2. /\ made' \in MadeType /\ made'.status = made.status
        /\ made'.robotOf = made.robotOf /\ made'.attempt = made.attempt
        /\ \A r \in Robots : made'.available[r] <=> (made.available[r] \/ r = given.robot)
    BY <1>2, <1>6, <2>1 DEF MadeType
  <2>3. /\ made.status[given.job] = "pending" /\ made.robotOf[given.job] = NoRobot
        /\ made.attempt[given.job] = found.attempt[given.job]
    BY <1>1, <1>2, <1>3, PassAssumption DEF PassInv, PassTyped, MadeInv, InPass
  <2>. QED
    BY <1>1, <2>1, <2>2, <2>3, RefusedLeavesRest
<1>. QED
  BY <1>4, <1>5

\* The write of the job, taken or refused.
LEMMA SaveJobKeeps ==
  ASSUME PassInv, NEW taken \in BOOLEAN, SaveJob(taken)
  PROVE  PassInv'
<1>1. /\ at = "job" /\ at' = "next" /\ Writing /\ found' = found /\ line' = line
      /\ given' = given /\ picked' = picked
  BY DEF SaveJob, Writing
<1>2. /\ InPass' = InPass /\ given.job \in InPass \ (line \cup refused)
      /\ given.robot \in Robots /\ picked[given.job] = given.robot
  BY <1>1 DEF InPass, PassInv, GivenInv
<1>6. /\ given.job \in Jobs /\ made \in MadeType /\ found \in SituationType
      /\ given.robot # NoRobot
  BY <1>1, GivenComesLast, PassAssumption DEF PassInv, PassTyped
<1>3. given.job \in Holders /\ given.job \in Marked
  BY <1>1, <1>2, <1>6 DEF Holders, Marked
<1>4. CASE taken
  <2>1. made' = made /\ refused' = refused
    BY <1>4 DEF SaveJob
  <2>2. Holders' = Holders /\ Marked' = Marked
    BY <1>1, <1>2, <2>1 DEF Holders, Marked
  <2>3. PassTyped' /\ InOrder' /\ GivenInv' /\ MadeInv'
    BY <1>1, <1>2, <2>1, <2>2
       DEF PassInv, PassTyped, InOrder, GivenInv, MadeInv, Writing, ComesFirst
  <2>4. ASSUME NEW k \in InPass \ line PROVE PickedWell(k)'
    BY <1>1, <2>1, EarlierStayPicked DEF PassInv
  <2>. QED
    BY <1>1, <1>2, <2>3, <2>4 DEF PassInv
<1>5. CASE ~taken
  <2>1. refused' = refused \cup {given.job} /\ made' = Undone(made)
    BY <1>5 DEF SaveJob
  <2>2. made.attempt[given.job] = found.attempt[given.job] + 1
    BY <1>3, <1>6 DEF PassInv, MadeInv
  <2>3. found.attempt[given.job] \in Nat
    BY <1>6 DEF SituationType
  <2>4. /\ made' \in MadeType
        /\ \A j \in Jobs :
             /\ made'.status[j] = IF j = given.job THEN "pending" ELSE made.status[j]
             /\ made'.robotOf[j] = IF j = given.job THEN NoRobot ELSE made.robotOf[j]
             /\ made'.attempt[j] = IF j = given.job THEN found.attempt[j] ELSE made.attempt[j]
        /\ \A r \in Robots : made'.available[r] <=> (made.available[r] \/ r = given.robot)
    <3>1. "pending" \in Status /\ NoRobot \in Robots \cup {NoRobot}
      BY DEF Status, Waiting
    <3>2. found.attempt[given.job] = made.attempt[given.job] - 1
      BY <2>2, <2>3
    <3>. QED
      BY <1>2, <1>6, <2>1, <2>3, <3>1, <3>2 DEF Undone, MadeType
  <2>. QED
    BY <1>1, <2>1, <2>4, RefusedLeavesRest
<1>. QED
  BY <1>4, <1>5

\* Each step of the pass keeps its invariant.
LEMMA PassInvStep == PassInv /\ [PassNext]_passVars => PassInv'
<1> SUFFICES ASSUME PassInv, [PassNext]_passVars PROVE PassInv'
  OBVIOUS
<1>1. ASSUME NEW j \in Jobs, TakeUp(j) PROVE PassInv'
  BY <1>1, TakeUpKeeps
<1>2. ASSUME NEW taken \in BOOLEAN, SaveRobot(taken) PROVE PassInv'
  BY <1>2, SaveRobotKeeps
<1>3. ASSUME NEW taken \in BOOLEAN, SaveJob(taken) PROVE PassInv'
  BY <1>3, SaveJobKeeps
<1>4. CASE EndDispatch
  <2>1. PassTyped' /\ InOrder' /\ GivenInv'
    BY <1>4 DEF EndDispatch, PassInv, PassTyped, InOrder, GivenInv, Writing, ComesFirst, InPass
  <2>2. MadeInv'
    BY <1>4 DEF EndDispatch, PassInv, MadeInv, Holders, Marked, InPass
  <2>3. \A j \in InPass' \ line' : PickedWell(j)'
    BY <1>4 DEF EndDispatch, PassInv, PickedWell, FreeFor, Able, ToCompare, ComesFirst, InPass
  <2>. QED
    BY <2>1, <2>2, <2>3 DEF PassInv
<1>5. CASE UNCHANGED passVars
  <2>1. PassTyped' /\ InOrder' /\ GivenInv'
    BY <1>5 DEF passVars, PassInv, PassTyped, InOrder, GivenInv, Writing, ComesFirst, InPass
  <2>2. MadeInv'
    BY <1>5 DEF passVars, PassInv, MadeInv, Holders, Marked, InPass
  <2>3. \A j \in InPass' \ line' : PickedWell(j)'
    BY <1>5 DEF passVars, PassInv, PickedWell, FreeFor, Able, ToCompare, ComesFirst, InPass
  <2>. QED
    BY <2>1, <2>2, <2>3 DEF PassInv
<1>. QED
  BY <1>1, <1>2, <1>3, <1>4, <1>5 DEF PassNext

\* JobEngine compares robots the same way.
LEMMA SamePreference ==
  /\ Engine!NoRobot = NoRobot
  /\ \A p, r, s : Engine!Preferred(p, r, s) <=> Preferred(p, r, s)
<1>1. \A r, s : Engine!Lighter(r, s) <=> Lighter(r, s)
  BY DEF Engine!Lighter, Lighter
<1>2. \A a, b : /\ Engine!CostKnown(a, b) <=> CostKnown(a, b)
                /\ Engine!Cost(a, b) = Cost(a, b)
  BY DEF Engine!CostKnown, CostKnown, Engine!Cost, Cost
<1>3. \A p, r, s : Engine!Closer(p, r, s) <=> Closer(p, r, s)
  BY <1>1, <1>2 DEF Engine!Closer, Closer
<1>4. \A p, r, s : Engine!LocalFirst(p, r, s) <=> LocalFirst(p, r, s)
  BY <1>1 DEF Engine!LocalFirst, LocalFirst, Engine!Local, Local
<1>. QED
  BY <1>3, <1>4 DEF Engine!Preferred, Preferred, Engine!ByCost, ByCost,
                    Engine!NoRobot, NoRobot

\* The end of the pass shows what one step of JobEngine would have done.
LEMMA EndIsDispatch ==
  ASSUME PassInv, EndDispatch
  PROVE  Engine!DispatchOnce(refused, found.confirmed)
<1>1. /\ found \in SituationType /\ line = {} /\ at = "next" /\ at' = "ended"
      /\ found' = found /\ made' = made
  BY PassAssumption DEF EndDispatch, PassInv, PassTyped
<1>2. Seen = Found(found) /\ Seen' = made
  BY <1>1 DEF Seen
<1>3. Engine!Pending = InPass /\ picked \in Engine!Passes
  BY <1>2, SamePreference DEF Engine!Pending, Engine!Passes, Found, InPass, PassInv, PassTyped
<1>4. \A i, j \in Jobs : Engine!Before(i, j) <=> ComesFirst(i, j)
  BY DEF Engine!Before, ComesFirst
<1>5. \A r \in Robots, j \in Jobs : Engine!Eligible(r, j, found.confirmed) <=> Able(r, j)
  BY <1>2 DEF Engine!Eligible, Able, Found
<1>6. \A j \in InPass : Engine!Free(j, picked, refused, found.confirmed) = FreeFor(j)
  BY <1>3, <1>4, <1>5 DEF Engine!Free, FreeFor, InPass
<1>7. Engine!IsPass(picked, refused, found.confirmed)
  <2>1. ASSUME NEW j \in InPass, FreeFor(j) # {}
        PROVE  Engine!BestRobot(picked[j], j, FreeFor(j))
    <3>1. /\ picked[j] \in FreeFor(j)
          /\ \A s \in FreeFor(j) \ {picked[j]} :
               Preferred(found.ask[j].location, ToCompare(picked[j]), ToCompare(s))
      BY <1>1, <2>1 DEF PassInv, PickedWell
    <3>2. \A r : Engine!AsCandidate(r) = ToCompare(r)
      BY DEF Engine!AsCandidate, ToCompare
    <3>. QED
      BY <3>1, <3>2, SamePreference DEF Engine!BestRobot
  <2>2. \A j \in InPass : FreeFor(j) = {} => picked[j] = NoRobot
    BY <1>1, PassAssumption DEF PassInv, PickedWell, FreeFor, NoRobot
  <2>. QED
    BY <1>3, <1>6, <2>1, <2>2, SamePreference DEF Engine!IsPass
<1>8. Engine!Won(picked, refused) = Marked /\ Holders = Marked
  BY <1>1, <1>3, SamePreference DEF Engine!Won, Holders, Marked
<1>9. \A j \in Marked : found.attempt[j] < LastAttempt
  BY PassAssumption DEF Marked, Holders, InPass, PassInv, PassTyped
<1>10. /\ made.status = [j \in Jobs |-> IF j \in Marked THEN "assigned" ELSE found.status[j]]
       /\ made.robotOf = [j \in Jobs |-> IF j \in Marked THEN picked[j] ELSE found.robotOf[j]]
       /\ made.attempt = [j \in Jobs |-> IF j \in Marked THEN found.attempt[j] + 1
                                          ELSE found.attempt[j]]
  BY DEF PassInv, PassTyped, MadeInv, MadeType
<1>11. made.available =
         [r \in Robots |-> found.available[r] /\ r \notin {picked[j] : j \in Marked}]
  BY <1>8 DEF PassInv, PassTyped, MadeInv, MadeType
<1>12. Engine!Assign(picked, refused, found.confirmed)
  BY <1>1, <1>2, <1>7, <1>8, <1>9, <1>10, <1>11
     DEF Engine!Assign, Engine!Counted, Engine!ReservedBy, Found
<1>. QED
  BY <1>3, <1>12 DEF Engine!DispatchOnce

\* For any queue and fleet, and whatever the store refuses, the pass of
\* DispatchOnce does what the one step of JobEngine says.
THEOREM PassImplementsOneStep == PassSpec => PassIsOneStep
<1>1. PassInv /\ [PassNext]_passVars
        => [Engine!DispatchOnce(refused, found.confirmed)]_(Engine!vars)
  <2> SUFFICES ASSUME PassInv, [PassNext]_passVars
               PROVE  [Engine!DispatchOnce(refused, found.confirmed)]_(Engine!vars)
    OBVIOUS
  <2>1. CASE EndDispatch
    BY <2>1, EndIsDispatch
  <2>2. CASE ~EndDispatch
    <3>1. found' = found /\ Seen' = Seen
      BY <2>2 DEF PassNext, TakeUp, SaveRobot, SaveJob, passVars, Seen
    <3>. QED
      BY <3>1 DEF Engine!vars, Engine!jobVars, Engine!robotVars
  <2>. QED
    BY <2>1, <2>2
<1>. QED
  BY <1>1, PassInvInit, PassInvStep, PTL DEF PassSpec, PassIsOneStep

-----------------------------------------------------------------------------
\* The estimates.

\* A finite set has a member that comes before no other in a strict order: the sets of
\* those before each of its members are ordered by inclusion; a smallest one is empty.
LEMMA FirstOne ==
  ASSUME NEW S, S # {}, IsFiniteSet(S), NEW R,
         \A a \in S : <<a, a>> \notin R,
         \A a, b, c \in S : <<a, b>> \in R /\ <<b, c>> \in R => <<a, c>> \in R
  PROVE  \E a \in S : \A b \in S : <<b, a>> \notin R
<1> DEFINE Before(a) == {b \in S : <<b, a>> \in R}
           T == {Before(a) : a \in S}
           Q == StrictSubsetOrdering(S)
           FS == FiniteSubsetsOf(S)
<1>1. IsWellFoundedOn(Q, FS)
  BY FS_StrictSubsetOrderingWellFounded
<1>2. T \subseteq FS /\ T # {}
  <2>1. ASSUME NEW a \in S
        PROVE  Before(a) \in FS
    <3>1. Before(a) \subseteq S
      OBVIOUS
    <3> HIDE DEF Before
    <3>2. IsFiniteSet(Before(a))
      BY <3>1, FS_Subset
    <3>3. QED
      BY <3>1, <3>2 DEF FiniteSubsetsOf
  <2> HIDE DEF Before, FS
  <2>2. QED
    BY <2>1
<1> HIDE DEF Q, FS, T
<1>3. PICK x \in T : \A y \in T : ~(<<y, x>> \in Q)
  BY <1>1, <1>2, WFMin
<1>4. PICK a \in S : x = Before(a)
  BY DEF T
<1>5. ASSUME NEW b \in S, <<b, a>> \in R
      PROVE  FALSE
  <2>1. Before(b) \in T
    BY DEF T
  <2>2. Before(b) \subseteq Before(a) /\ b \in Before(a) /\ b \notin Before(b)
    BY <1>5
  <2>3. <<Before(b), Before(a)>> \in Q
    BY <1>4, <2>2 DEF Q, StrictSubsetOrdering
  <2>4. QED
    BY <1>3, <1>4, <2>1, <2>3
<1>6. QED
  BY <1>5

Verdicts == {"open", "estimated", "outcome_unknown", "no_duration_known",
             "dependency_will_not_finish", "no_robot_available", "no_robot_with_required_tool"}

Held == [verdict : Verdicts, robot : Robots \cup {NoRobot}, start : Int, end : Int]

\* The queue a plan is made for.
SnapTyped ==
  /\ snap.st \in [Jobs -> Status] /\ snap.dp \in Dependences /\ snap.length \in Lengths
  /\ \A j \in Jobs : snap.st[j] \notin {Absent, "cancelled"}
  /\ Settled(WaitingIn(snap.st), snap.st, snap.dp)
  /\ snap.idle \in SUBSET Robots
  /\ snap.holder \in [AssignedIn(snap) -> Robots]
  /\ \A j \in AssignedIn(snap) : snap.holder[j] \notin snap.idle

PlanTyped ==
  /\ phase \in {"idle", "planning", "planned"}
  /\ plan \in [Jobs -> Held] /\ free \in [Robots -> Int]
  /\ unplaced \in SUBSET Jobs /\ progress \in BOOLEAN
  /\ phase # "idle" => SnapTyped

\* No robot has two jobs at one time, and none is free before those it has end.
Apart ==
  /\ \A j \in Estimated : plan[j].robot \in Robots /\ plan[j].end <= free[plan[j].robot]
  /\ \A j, k \in Estimated :
       j # k /\ plan[j].robot = plan[k].robot =>
         plan[j].end <= plan[k].start \/ plan[k].end <= plan[j].start

\* Nobody starts in the past, or before what it depends on has ended.
EstimatesInOrder ==
  \A j \in Estimated \cap ToPlace(snap) :
    /\ plan[j].start >= Now
    /\ \A d \in Counting(j) : d \in Estimated /\ plan[d].end <= plan[j].start

\* What is not open stays so; a visit of this pass that placed nothing could not.
Visited ==
  /\ \A j \in AssignedIn(snap) : plan[j].verdict # "open"
  /\ \A j \in Estimated : j \in AssignedIn(snap) \cup ToPlace(snap)
  /\ unplaced \subseteq ToPlace(snap)
  /\ ~progress => \A j \in ToPlace(snap) \ unplaced :
                     plan[j].verdict = "open" => ~Dead(j) /\ ~Known(j)

PlanInv ==
  /\ PlanTyped
  /\ phase # "idle" =>
       /\ \A r \in Robots : free[r] = Unknown \/ free[r] >= Now
       /\ Apart /\ EstimatesInOrder /\ Visited
  /\ phase = "planned" => unplaced = {} /\ ~progress

-----------------------------------------------------------------------------
\* What depReady and the choice of the robot give.

LEMMA PlannerTypes ==
  /\ Now \in Nat /\ Unknown \in Int /\ Unknown < Now
  /\ \A a, b \in Int : Later(a, b) \in Int /\ Later(a, b) >= a /\ Later(a, b) >= b
  /\ \A r \in Robots : r \in Nat /\ r # NoRobot /\ BodyOf(r) \in Candidate /\ BodyOf(r).id = r
  /\ IsFiniteSet(Robots)
BY PlannerAssumption DEF Unknown, Later, NoRobot, BodyOf, Candidate

LEMMA SnapFacts ==
  ASSUME SnapTyped
  PROVE  /\ snap.dp \in [Jobs -> SUBSET Jobs] /\ AcyclicIn(snap.dp)
         /\ \A j \in Jobs : LengthOf(snap, j) \in Nat \cup {Unknown} /\ Counting(j) \subseteq Jobs
BY PlannerAssumption DEF SnapTyped, LengthOf, Counting

\* What a job depends on has ended when it is ready.
LEMMA ReadyIsLast ==
  ASSUME PlanTyped, SnapTyped, NEW j \in Jobs
  PROVE  Ready(j) \in Int /\ \A d \in Counting(j) : plan[d].end <= Ready(j)
<1> DEFINE D == Counting(j)
           LastOnes == {plan[d].end : d \in D}
           R == {p \in D \X D : plan[p[1]].end > plan[p[2]].end}
<1>1. D \subseteq Jobs /\ \A d \in D : plan[d].end \in Int
  BY SnapFacts DEF PlanTyped, Held
<1>2. CASE D = {}
  BY <1>2 DEF Ready
<1>3. CASE D # {}
  <2>1. PICK a \in D : \A b \in D : <<b, a>> \notin R
    <3> HIDE DEF D
    <3>1. IsFiniteSet(D)
      BY <1>1, JobsFinite, FS_Subset
    <3>2. /\ \A a \in D : <<a, a>> \notin R
          /\ \A a, b, c \in D : <<a, b>> \in R /\ <<b, c>> \in R => <<a, c>> \in R
      BY <1>1
    <3> HIDE DEF R
    <3>3. QED
      BY <1>3, <3>1, <3>2, FirstOne, Zenon
  <2>2. plan[a].end \in LastOnes /\ \A d \in D : plan[d].end <= plan[a].end
    <3>1. \A d \in D : ~(plan[d].end > plan[a].end)
      BY <2>1
    <3> HIDE DEF D, R
    <3>2. QED
      BY <1>1, <3>1
  <2>3. Ready(j) = CHOOSE t \in LastOnes : \A d \in D : plan[d].end <= t
    BY <1>3 DEF Ready
  <2>4. Ready(j) \in LastOnes /\ \A d \in D : plan[d].end <= Ready(j)
    <3> HIDE DEF LastOnes, D
    <3>1. QED
      BY <2>2, <2>3
  <2>5. QED
    BY <1>1, <2>4
<1>4. QED
  BY <1>2, <1>3

\* preferLocked is a strict total order on the robots.
LEMMA PrefersOrder ==
  ASSUME NEW j, NEW r \in Robots, NEW s \in Robots, NEW t \in Robots
  PROVE  /\ ~Prefers(j, r, r)
         /\ Prefers(j, r, s) /\ Prefers(j, s, t) => Prefers(j, r, t)
         /\ r # s => Prefers(j, r, s) \/ Prefers(j, s, r)
<1> DEFINE a == BodyOf(r)
           b == BodyOf(s)
           c == BodyOf(t)
<1>1. a \in Candidate /\ b \in Candidate /\ c \in Candidate /\ a.id = r /\ b.id = s
  BY PlannerTypes
<1> HIDE DEF a, b, c
<1>2. CASE ByCost(Orders[j].place)
  BY <1>1, <1>2, CloserOrder DEF Prefers, a, b, c
<1>3. CASE ~ByCost(Orders[j].place)
  BY <1>1, <1>3, LighterOrder DEF Prefers, a, b, c
<1>4. QED
  BY <1>2, <1>3

\* There is one robot that suits a job best, if any can take it.
LEMMA RobotForSuits ==
  ASSUME PlanTyped, SnapTyped, NEW j \in Jobs, Usable(j) # {}
  PROVE  /\ RobotFor(j) \in Usable(j)
         /\ \A s \in Usable(j) \ {RobotFor(j)} : Sooner(j, RobotFor(j), s)
<1> DEFINE U == Usable(j)
           R == {p \in U \X U : Sooner(j, p[1], p[2])}
<1>1. U \subseteq Robots /\ \A r \in U : StartOn(j, r) \in Int
  <2>1. Ready(j) \in Int /\ U \subseteq Robots
    BY ReadyIsLast DEF Usable
  <2>2. QED
    BY <2>1, PlannerTypes DEF StartOn, PlanTyped
<1>2. IsFiniteSet(U)
  <2> HIDE DEF U
  <2>1. QED
    BY <1>1, PlannerTypes, FS_Subset
<1>3. \A a, b \in U : <<a, b>> \in R <=> Sooner(j, a, b)
  OBVIOUS
<1> HIDE DEF R, U
<1>4. \A a \in U : <<a, a>> \notin R
  BY <1>1, <1>3, PrefersOrder DEF Sooner
<1>5. \A a, b, c \in U : <<a, b>> \in R /\ <<b, c>> \in R => <<a, c>> \in R
  BY <1>1, <1>3, PrefersOrder DEF Sooner
<1>U. U # {}
  BY DEF U
<1>6. PICK a \in U : \A b \in U : <<b, a>> \notin R
  BY <1>2, <1>4, <1>5, <1>U, FirstOne, Zenon
<1>7. \A s \in U \ {a} : Sooner(j, a, s)
  <2> SUFFICES ASSUME NEW s \in U \ {a} PROVE Sooner(j, a, s)
    OBVIOUS
  <2>1. ~Sooner(j, s, a)
    BY <1>3, <1>6
  <2>2. Prefers(j, a, s) \/ Prefers(j, s, a)
    BY <1>1, PrefersOrder
  <2>3. StartOn(j, a) \in Int /\ StartOn(j, s) \in Int
    BY <1>1
  <2>4. QED
    BY <2>1, <2>2, <2>3 DEF Sooner
<1>8. QED
  BY <1>7 DEF RobotFor, U

-----------------------------------------------------------------------------
\* How a plan begins.

LEMMA BeginsTyped ==
  ASSUME PlanTyped, Begin
  PROVE  /\ SnapTyped' /\ plan' = Laid(snap') /\ free' = FreeAt(snap')
         /\ unplaced' = ToPlace(snap') /\ progress' = FALSE /\ phase' = "planning"
         /\ snap'.start \in [AssignedIn(snap') -> 0 .. Now]
         /\ \A j, k \in AssignedIn(snap') : snap'.holder[j] = snap'.holder[k] => j = k
<1>1. PICK needs \in Dependences, was \in [Jobs -> Status \ {Absent, "cancelled"}], length \in Lengths :
        LET A == {j \in Jobs : was[j] = "assigned"}
        IN  /\ Settled(WaitingIn(was), was, needs)
            /\ \A j \in Jobs : was[j] \in InFlight => \A d \in needs[j] : was[d] = "done"
            /\ \E holder \in [A -> Robots], start \in [A -> Starts],
                  idle \in SUBSET Robots :
                 /\ \A j, k \in A : holder[j] = holder[k] => j = k
                 /\ \A j \in A : Fits(j, holder[j]) /\ holder[j] \notin idle
                 /\ snap' = [st |-> was, dp |-> needs, holder |-> holder, start |-> start,
                             idle |-> idle, length |-> length]
  BY Zenon DEF Begin
<1> DEFINE A == {j \in Jobs : was[j] = "assigned"}
<1>2. PICK holder \in [A -> Robots], start \in [A -> Starts], idle \in SUBSET Robots :
        /\ \A j, k \in A : holder[j] = holder[k] => j = k
        /\ \A j \in A : Fits(j, holder[j]) /\ holder[j] \notin idle
        /\ snap' = [st |-> was, dp |-> needs, holder |-> holder, start |-> start,
                    idle |-> idle, length |-> length]
  BY <1>1, Zenon
<1>3. /\ snap'.st = was /\ snap'.dp = needs /\ snap'.holder = holder /\ snap'.start = start
      /\ snap'.idle = idle /\ snap'.length = length
  BY <1>2
<1>4. AssignedIn(snap') = A
  BY <1>3 DEF AssignedIn
<1>5. Starts \subseteq 0 .. Now
  BY PlannerAssumption
<1> HIDE DEF A
<1>6. SnapTyped'
  BY <1>1, <1>2, <1>3, <1>4 DEF SnapTyped, A
<1>7. start \in [A -> 0 .. Now]
  BY <1>2, <1>5
<1>8. QED
  BY <1>2, <1>3, <1>4, <1>6, <1>7 DEF Begin

LEMMA PlanBegins ==
  ASSUME PlanInv, Begin
  PROVE  PlanInv'
<1> DEFINE s == snap'
           A == AssignedIn(s)
<1>1. /\ SnapTyped' /\ plan' = Laid(s) /\ free' = FreeAt(s)
      /\ unplaced' = ToPlace(s) /\ progress' = FALSE /\ phase' = "planning"
      /\ s.start \in [A -> 0 .. Now]
      /\ \A j, k \in A : s.holder[j] = s.holder[k] => j = k
  BY BeginsTyped DEF PlanInv
<1>2. /\ s.holder \in [A -> Robots] /\ A \subseteq Jobs /\ s.idle \in SUBSET Robots
      /\ \A j \in Jobs : LengthOf(s, j) \in Nat \cup {Unknown}
  BY <1>1, PlannerAssumption DEF SnapTyped, AssignedIn, LengthOf
<1>3. Now \in Nat /\ Now \in Int /\ Unknown \in Int /\ Unknown < Now
  BY PlannerTypes
<1>0. \A a \in Int : Later(a, Now) \in Int /\ Later(a, Now) >= a /\ Later(a, Now) >= Now
  BY <1>3, PlannerTypes
<1> HIDE DEF s, A
<1>4. ASSUME NEW j \in Jobs
      PROVE  /\ Laid(s)[j] \in Held
             /\ Laid(s)[j].verdict = "estimated" => j \in A /\ Laid(s)[j].robot = s.holder[j]
             /\ j \in A => Laid(s)[j].verdict # "open"
             /\ Laid(s)[j].end \in Int
  <2>1. CASE j \in A /\ LengthOf(s, j) # Unknown
    <3> DEFINE t == s.start[j]
               l == LengthOf(s, j)
    <3>1. t \in 0 .. Now /\ l \in Nat /\ s.holder[j] \in Robots
      BY <1>1, <1>2, <2>1
    <3>2. Laid(s)[j] = Estimate(s.holder[j], t, Later(t + l, Now))
      BY <2>1 DEF Laid, AssignedIn, A
    <3> HIDE DEF t, l
    <3>3. t \in Int /\ t + l \in Int
      BY <1>3, <3>1
    <3>4. Later(t + l, Now) \in Int
      BY <1>0, <3>3
    <3>5. QED
      BY <2>1, <3>1, <3>2, <3>3, <3>4 DEF Estimate, Held, Verdicts
  <2>2. CASE ~(j \in A /\ LengthOf(s, j) # Unknown)
    <3>1. \/ Laid(s)[j] = Without("outcome_unknown") /\ j \notin A
          \/ Laid(s)[j] = Without("open") /\ j \notin A
          \/ Laid(s)[j] = Without("no_duration_known")
      BY <2>2 DEF Laid, AssignedIn, A
    <3>2. ASSUME NEW v \in Verdicts
          PROVE  Without(v) \in Held /\ Without(v).verdict = v /\ Without(v).end \in Int
      BY <1>3 DEF Without, Held
    <3>3. {"outcome_unknown", "open", "no_duration_known"} \subseteq Verdicts
      BY DEF Verdicts
    <3>4. QED
      BY <3>1, <3>2, <3>3
  <2>3. QED
    BY <2>1, <2>2
<1>5. ASSUME NEW r \in Robots
      PROVE  /\ FreeAt(s)[r] \in Int /\ (FreeAt(s)[r] = Unknown \/ FreeAt(s)[r] >= Now)
             /\ \A j \in A : s.holder[j] = r => Laid(s)[j].end <= FreeAt(s)[r]
  <2>1. CASE \E j \in A : s.holder[j] = r
    <3>1. PICK j \in A : s.holder[j] = r
      BY <2>1
    <3>2. j = CHOOSE k \in A : s.holder[k] = r
      BY <1>1, <3>1
    <3>3. FreeAt(s)[r] = Later(Laid(s)[j].end, Now)
      BY <2>1, <3>2 DEF FreeAt, A
    <3>4. Laid(s)[j].end \in Int
      BY <1>2, <1>4, <3>1
    <3>5. /\ FreeAt(s)[r] \in Int /\ FreeAt(s)[r] >= Now /\ Laid(s)[j].end <= FreeAt(s)[r]
      BY <1>0, <3>3, <3>4
    <3>6. \A k \in A : s.holder[k] = r => k = j
      BY <1>1, <3>1
    <3>7. QED
      BY <3>5, <3>6
  <2>2. CASE ~ \E j \in A : s.holder[j] = r
    <3>1. FreeAt(s)[r] = IF r \in s.idle THEN Now ELSE Unknown
      BY <2>2 DEF FreeAt, A
    <3>2. FreeAt(s)[r] \in Int /\ (FreeAt(s)[r] = Unknown \/ FreeAt(s)[r] >= Now)
      BY <1>3, <3>1
    <3>3. QED
      BY <2>2, <3>2
  <2>3. QED
    BY <2>1, <2>2
<1>6. plan' \in [Jobs -> Held] /\ free' \in [Robots -> Int]
  BY <1>1, <1>4, <1>5 DEF Laid, FreeAt
<1>7. PlanTyped'
  BY <1>1, <1>6 DEF PlanTyped, ToPlace, s
<1>8. \A j \in Estimated' : j \in A /\ plan'[j].robot = s.holder[j]
  BY <1>1, <1>4 DEF Estimated
<1>9. A \cap ToPlace(s) = {}
  BY DEF AssignedIn, ToPlace, A
<1>10. Apart'
  <2>1. \A j \in Estimated' : plan'[j].robot \in Robots /\ plan'[j].end <= free'[plan'[j].robot]
    BY <1>1, <1>2, <1>5, <1>8
  <2>2. \A j, k \in Estimated' : plan'[j].robot = plan'[k].robot => j = k
    BY <1>1, <1>8
  <2>3. QED
    BY <2>1, <2>2 DEF Apart
<1>11. EstimatesInOrder'
  BY <1>8, <1>9 DEF EstimatesInOrder, s
<1>12. Visited'
  <2>1. \A j \in A : plan'[j].verdict # "open"
    BY <1>1, <1>2, <1>4
  <2>2. QED
    BY <1>1, <1>8, <2>1 DEF Visited, s, A
<1>13. QED
  BY <1>1, <1>5, <1>7, <1>10, <1>11, <1>12 DEF PlanInv

-----------------------------------------------------------------------------
\* A visit.

\* What is written about a job.
LEMMA PlacedTyped ==
  ASSUME PlanInv, SnapTyped, phase # "idle", NEW j \in Jobs
  PROVE  /\ Placed(j) \in Held /\ Placed(j).verdict # "open"
         /\ Placed(j).verdict = "estimated" =>
              /\ ~Dead(j) /\ Placed(j).robot = RobotFor(j) /\ RobotFor(j) \in Usable(j)
              /\ LengthOf(snap, j) \in Nat
              /\ Placed(j).start = StartOn(j, RobotFor(j))
              /\ Placed(j).end = Placed(j).start + LengthOf(snap, j)
<1>1. PlanTyped
  BY DEF PlanInv
<1>2. CASE ~Dead(j) /\ LengthOf(snap, j) # Unknown /\ Usable(j) # {}
  <2> DEFINE r == RobotFor(j)
             t == StartOn(j, r)
             l == LengthOf(snap, j)
  <2>1. Placed(j) = Estimate(r, t, t + l)
    BY <1>2 DEF Placed
  <2>2. r \in Usable(j) /\ r \in Robots
    BY <1>1, <1>2, RobotForSuits DEF Usable
  <2>3. l \in Nat
    BY <1>2, SnapFacts
  <2>4. t \in Int
    BY <1>1, <2>2, ReadyIsLast, PlannerTypes DEF StartOn, PlanTyped
  <2> HIDE DEF t, l
  <2>5. t + l \in Int
    BY <2>3, <2>4
  <2>6. QED
    BY <1>2, <2>1, <2>2, <2>3, <2>4, <2>5 DEF Estimate, Held, Verdicts, t, l
<1>3. CASE ~(~Dead(j) /\ LengthOf(snap, j) # Unknown /\ Usable(j) # {})
  <2>1. \E v \in Verdicts \ {"open", "estimated"} : Placed(j) = Without(v)
    BY <1>3 DEF Placed, Verdicts
  <2>2. QED
    BY <2>1, PlannerTypes DEF Without, Held, Verdicts
<1>4. QED
  BY <1>2, <1>3

\* A visit that places nothing.
LEMMA PlanPassesOver ==
  ASSUME PlanInv, NEW j \in Jobs, PlaceJob(j), ~(plan[j].verdict = "open" /\ (Dead(j) \/ Known(j)))
  PROVE  PlanInv'
<1>1. /\ unplaced' = unplaced \ {j} /\ UNCHANGED <<phase, snap, plan, free, progress>>
      /\ phase = "planning"
  BY DEF PlaceJob
<1>2. /\ SnapTyped' = SnapTyped /\ Apart' = Apart /\ EstimatesInOrder' = EstimatesInOrder
      /\ AssignedIn(snap)' = AssignedIn(snap) /\ ToPlace(snap)' = ToPlace(snap)
      /\ Estimated' = Estimated
  BY <1>1 DEF SnapTyped, Apart, EstimatesInOrder, Counting, Estimated, AssignedIn, ToPlace
<1>3. \A i \in Jobs : Dead(i)' = Dead(i) /\ Known(i)' = Known(i)
  BY <1>1 DEF Dead, Known, Counting
<1>4. PlanTyped'
  BY <1>1, <1>2 DEF PlanInv, PlanTyped
<1>5. Visited'
  <2>1. Visited /\ ToPlace(snap) \subseteq Jobs
    BY <1>1 DEF PlanInv, ToPlace
  <2>2. ASSUME ~progress', NEW i \in ToPlace(snap) \ unplaced', plan[i].verdict = "open"
        PROVE  ~Dead(i) /\ ~Known(i)
    BY <1>1, <2>1, <2>2 DEF Visited
  <2>3. QED
    BY <1>1, <1>2, <1>3, <2>1, <2>2 DEF Visited
<1>6. QED
  BY <1>1, <1>2, <1>4, <1>5 DEF PlanInv

\* A visit that places the job, or says why it cannot be placed.
LEMMA PlanPlaces ==
  ASSUME PlanInv, NEW j \in Jobs, PlaceJob(j), plan[j].verdict = "open", Dead(j) \/ Known(j)
  PROVE  PlanInv'
<1> DEFINE P == Placed(j)
           r == RobotFor(j)
<1>1. /\ unplaced' = unplaced \ {j} /\ j \in unplaced /\ UNCHANGED <<phase, snap>> /\ progress' = TRUE
      /\ plan' = [plan EXCEPT ![j] = P] /\ phase = "planning"
      /\ free' = IF P.verdict = "estimated" THEN [free EXCEPT ![r] = P.end] ELSE free
  BY DEF PlaceJob, ComesNext
<1>2. /\ PlanTyped /\ SnapTyped /\ Apart /\ EstimatesInOrder /\ Visited
      /\ \A q \in Robots : free[q] = Unknown \/ free[q] >= Now
  BY <1>1 DEF PlanInv, PlanTyped
<1>3. /\ P \in Held /\ P.verdict # "open"
      /\ P.verdict = "estimated" =>
           /\ ~Dead(j) /\ P.robot = r /\ r \in Usable(j) /\ LengthOf(snap, j) \in Nat
           /\ P.start = StartOn(j, r) /\ P.end = P.start + LengthOf(snap, j)
  BY <1>1, <1>2, PlacedTyped
<1> HIDE DEF P, r
<1>4. /\ plan \in [Jobs -> Held] /\ free \in [Robots -> Int]
      /\ plan'[j] = P /\ \A i \in Jobs \ {j} : plan'[i] = plan[i]
  BY <1>1, <1>2 DEF PlanTyped
<1>5. /\ SnapTyped' /\ AssignedIn(snap)' = AssignedIn(snap) /\ ToPlace(snap)' = ToPlace(snap)
      /\ \A i \in Jobs : Counting(i)' = Counting(i)
  BY <1>1, <1>2 DEF SnapTyped, AssignedIn, ToPlace, Counting
<1>6. /\ j \in ToPlace(snap) /\ j \notin AssignedIn(snap) /\ j \notin Estimated
      /\ AssignedIn(snap) \subseteq Jobs /\ ToPlace(snap) \subseteq Jobs /\ Estimated \subseteq Jobs
      /\ \A i \in Jobs : Counting(i) \subseteq Jobs
  BY <1>1, <1>2, SnapFacts DEF Visited, ToPlace, AssignedIn, Estimated
<1>7. Visited'
  <2>1. \A i \in AssignedIn(snap) : plan'[i].verdict # "open"
    BY <1>2, <1>4, <1>6 DEF Visited
  <2>2. Estimated' \subseteq Estimated \cup {j}
    BY <1>4 DEF Estimated
  <2>3. QED
    BY <1>1, <1>2, <1>5, <1>6, <2>1, <2>2 DEF Visited
<1>8. CASE P.verdict = "estimated"
  <2>1. /\ r \in Robots /\ free[r] \in Int /\ free[r] >= Now
    BY <1>2, <1>3, <1>4, <1>8 DEF Usable
  <2>2. /\ Ready(j) \in Int /\ \A d \in Counting(j) : plan[d].end <= Ready(j)
    BY <1>2, ReadyIsLast
  <2>3. P.start \in Int /\ P.start >= free[r] /\ P.start >= Ready(j)
    BY <1>3, <1>8, <2>1, <2>2, PlannerTypes DEF StartOn
  <2>4. P.end \in Int /\ P.end >= P.start
    BY <1>3, <1>8, <2>3
  <2>5. P.start >= Now /\ P.end >= Now /\ P.end >= free[r]
    <3>1. Now \in Int
      BY PlannerTypes
    <3>2. P.start >= Now
      BY <2>1, <2>3, <3>1
    <3>3. QED
      BY <2>1, <2>3, <2>4, <3>1, <3>2
  <2>6. Estimated' = Estimated \cup {j}
    BY <1>4, <1>8 DEF Estimated
  <2>7. /\ free' \in [Robots -> Int] /\ free'[r] = P.end
        /\ \A q \in Robots \ {r} : free'[q] = free[q]
    BY <1>1, <1>4, <1>8, <2>1, <2>4
  <2>8. PlanTyped'
    BY <1>1, <1>2, <1>3, <1>4, <1>5, <2>7 DEF PlanTyped
  <2>9. Apart'
    <3>1. \A i \in Estimated : /\ plan[i].robot \in Robots /\ plan[i].end <= free[plan[i].robot]
                               /\ plan[i].end \in Int /\ plan'[i] = plan[i]
      BY <1>2, <1>4, <1>6 DEF Apart, Held
    <3>2. \A i \in Estimated : plan'[i].end <= free'[plan'[i].robot]
      <4> SUFFICES ASSUME NEW i \in Estimated PROVE plan[i].end <= free'[plan[i].robot]
        BY <3>1
      <4>1. CASE plan[i].robot = r
        BY <2>1, <2>4, <2>5, <2>7, <3>1, <4>1
      <4>2. CASE plan[i].robot # r
        BY <2>7, <3>1, <4>2
      <4>3. QED
        BY <4>1, <4>2
    <3>3. \A i \in Estimated : plan[i].robot = r => plan'[i].end <= plan'[j].start
      BY <1>4, <2>1, <2>3, <3>1
    <3>4. plan'[j].robot = r /\ plan'[j].end <= free'[r]
      BY <1>3, <1>4, <1>8, <2>4, <2>7
    <3>5. \A i \in Estimated' : plan'[i].robot \in Robots /\ plan'[i].end <= free'[plan'[i].robot]
      BY <2>1, <2>6, <3>1, <3>2, <3>4
    <3>6. ASSUME NEW i \in Estimated', NEW k \in Estimated', i # k, plan'[i].robot = plan'[k].robot
          PROVE  plan'[i].end <= plan'[k].start \/ plan'[k].end <= plan'[i].start
      <4>1. CASE i \in Estimated /\ k \in Estimated
        BY <1>2, <3>1, <3>6, <4>1 DEF Apart
      <4>2. CASE i = j
        BY <2>6, <3>1, <3>3, <3>4, <3>6, <4>2
      <4>3. CASE k = j
        BY <2>6, <3>1, <3>3, <3>4, <3>6, <4>3
      <4>4. QED
        BY <2>6, <4>1, <4>2, <4>3
    <3>7. QED
      BY <3>5, <3>6 DEF Apart
  <2>10. EstimatesInOrder'
    <3>1. ASSUME NEW i \in Estimated \cap ToPlace(snap)
          PROVE  /\ plan'[i].start >= Now
                 /\ \A d \in Counting(i) : d \in Estimated' /\ plan'[d].end <= plan'[i].start
      BY <1>2, <1>4, <1>6, <2>6, <3>1 DEF EstimatesInOrder
    <3>2. \A d \in Counting(j) : d \in Estimated
      BY <1>3, <1>6, <1>8 DEF Dead, Known, Estimated
    <3>3. plan'[j].start >= Now /\ \A d \in Counting(j) : plan'[d].end <= plan'[j].start
      <4>1. ASSUME NEW d \in Counting(j)
            PROVE  plan'[d].end <= plan'[j].start
        <5>1. d \in Jobs /\ plan'[d] = plan[d] /\ plan[d].end \in Int
          BY <1>4, <1>6, <3>2 DEF Held
        <5>2. QED
          BY <1>4, <2>2, <2>3, <5>1
      <4>2. QED
        BY <1>4, <2>5, <4>1
    <3>4. QED
      BY <1>1, <1>5, <1>6, <2>6, <3>1, <3>2, <3>3 DEF EstimatesInOrder
  <2>11. \A q \in Robots : free'[q] = Unknown \/ free'[q] >= Now
    BY <1>2, <2>5, <2>7
  <2>12. QED
    BY <1>1, <1>7, <2>8, <2>9, <2>10, <2>11 DEF PlanInv
<1>9. CASE P.verdict # "estimated"
  <2>1. Estimated' = Estimated /\ free' = free
    BY <1>1, <1>4, <1>6, <1>9 DEF Estimated
  <2>2. PlanTyped'
    BY <1>1, <1>2, <1>3, <1>4, <1>5, <2>1 DEF PlanTyped
  <2>3. \A i \in Estimated : plan'[i] = plan[i]
    BY <1>4, <1>6
  <2>4. Apart'
    BY <1>2, <2>1, <2>3 DEF Apart
  <2>5. EstimatesInOrder'
    <3>1. ASSUME NEW i \in Estimated \cap ToPlace(snap)
          PROVE  /\ plan'[i].start >= Now
                 /\ \A d \in Counting(i) : d \in Estimated /\ plan'[d].end <= plan'[i].start
      BY <1>2, <2>3, <3>1 DEF EstimatesInOrder
    <3>2. QED
      BY <1>1, <1>5, <1>6, <2>1, <3>1 DEF EstimatesInOrder
  <2>6. QED
    BY <1>1, <1>2, <1>7, <2>1, <2>2, <2>4, <2>5 DEF PlanInv
<1>10. QED
  BY <1>8, <1>9

LEMMA RoundEnds ==
  ASSUME PlanInv, EndRound
  PROVE  PlanInv'
<1>1. /\ UNCHANGED <<snap, plan, free>> /\ progress' = FALSE /\ phase = "planning" /\ unplaced = {}
      /\ \/ unplaced' = ToPlace(snap) /\ phase' = phase
         \/ ~progress /\ unplaced' = {} /\ phase' = "planned"
  BY DEF EndRound
<1>2. /\ SnapTyped' = SnapTyped /\ Apart' = Apart /\ EstimatesInOrder' = EstimatesInOrder
      /\ AssignedIn(snap)' = AssignedIn(snap) /\ ToPlace(snap)' = ToPlace(snap)
      /\ Estimated' = Estimated /\ ToPlace(snap) \subseteq Jobs
  BY <1>1 DEF SnapTyped, Apart, EstimatesInOrder, Counting, Estimated, AssignedIn, ToPlace
<1>3. \A i \in Jobs : Dead(i)' = Dead(i) /\ Known(i)' = Known(i)
  BY <1>1 DEF Dead, Known, Counting
<1>4. PlanTyped'
  BY <1>1, <1>2 DEF PlanInv, PlanTyped
<1>5. Visited'
  BY <1>1, <1>2, <1>3 DEF PlanInv, Visited
<1>6. QED
  BY <1>1, <1>2, <1>4, <1>5 DEF PlanInv

LEMMA PlanInvInit == PlanInit => PlanInv
<1> SUFFICES ASSUME PlanInit PROVE PlanInv
  OBVIOUS
<1>1. phase = "idle" /\ unplaced = {} /\ progress = FALSE
  BY DEF PlanInit
<1>2. plan \in [Jobs -> Held] /\ free \in [Robots -> Int]
  <2>1. Unknown \in Int
    BY PlannerTypes
  <2>2. Without("open") \in Held
    BY <2>1 DEF Without, Held, Verdicts
  <2>3. QED
    BY <2>1, <2>2 DEF PlanInit
<1>3. QED
  BY <1>1, <1>2 DEF PlanInv, PlanTyped

LEMMA PlanInvStep == PlanInv /\ [PlanNext]_planVars => PlanInv'
<1> SUFFICES ASSUME PlanInv, [PlanNext]_planVars PROVE PlanInv'
  OBVIOUS
<1>1. CASE Begin
  BY <1>1, PlanBegins
<1>2. CASE EndRound
  BY <1>2, RoundEnds
<1>3. ASSUME NEW j \in Jobs, PlaceJob(j)
      PROVE  PlanInv'
  BY <1>3, PlanPassesOver, PlanPlaces
<1>4. CASE UNCHANGED planVars
  BY <1>4 DEF planVars, PlanInv, PlanTyped, SnapTyped, Apart, EstimatesInOrder, Visited, Counting, Estimated,
              AssignedIn, ToPlace, Dead, Known
<1> QED
  BY <1>1, <1>2, <1>3, <1>4 DEF PlanNext

\* When a pass places nothing, nothing is left to be placed: of the open jobs, one depends on no
\* other, and would have been.
LEMMA NothingLeftOpen ==
  ASSUME PlanInv, phase = "planned", NEW o \in ToPlace(snap), plan[o].verdict = "open"
  PROVE  FALSE
<1> DEFINE S == {i \in ToPlace(snap) : plan[i].verdict = "open"}
<1>1. /\ SnapTyped /\ Visited /\ unplaced = {} /\ ~progress
  BY DEF PlanInv, PlanTyped
<1>2. S \subseteq Jobs /\ S # {} /\ snap.dp \in [Jobs -> SUBSET Jobs] /\ AcyclicIn(snap.dp)
  BY <1>1, SnapFacts DEF ToPlace
<1>3. PICK j \in S : snap.dp[j] \cap S = {}
  <2> HIDE DEF S
  <2>1. QED
    BY <1>2 DEF AcyclicIn
<1>4. ~Dead(j) /\ ~Known(j)
  BY <1>1, <1>3 DEF Visited
<1>5. PICK d \in Counting(j) : plan[d].verdict = "open"
  BY <1>4 DEF Known
<1>6. d \in Jobs /\ d \notin S /\ d \notin ToPlace(snap) /\ snap.st[d] # "done"
  BY <1>2, <1>3, <1>5 DEF Counting
<1>7. d \notin AssignedIn(snap)
  BY <1>1, <1>5 DEF Visited
<1>8. snap.st[d] \notin {"failed", "unreachable", "cancelled", "unknown"}
  BY <1>4, <1>5 DEF Dead
<1>9. snap.st[d] \in Status \ {Absent, "cancelled"}
  BY <1>1, <1>6 DEF SnapTyped
<1>10. QED
  BY <1>6, <1>7, <1>8, <1>9 DEF ToPlace, AssignedIn, Status, Waiting, InFlight, Finished

\* A plan names an estimate or a reason for every waiting job, and its estimates could come
\* true together, for every fleet, every queue that closes no cycle and all durations (planLocked).
THEOREM PlanHolds == PlanSpec => []PlanFits
<1>1. PlanInv => PlanFits
  <2> SUFFICES ASSUME PlanInv, phase = "planned" PROVE PlanFits
    BY DEF PlanFits
  <2>1. \A j \in ToPlace(snap) : plan[j].verdict # "open"
    BY NothingLeftOpen
  <2>2. Apart /\ EstimatesInOrder
    BY DEF PlanInv
  <2>3. QED
    BY <2>1, <2>2 DEF PlanFits, Apart, EstimatesInOrder
<1>2. QED
  BY <1>1, PlanInvInit, PlanInvStep, PTL DEF PlanSpec

-----------------------------------------------------------------------------
\* What the estimates say begins now, against the pass of DispatchOnce.

Ahead == {j \in Jobs : snap.st[j] = "pending" /\
            \A k \in Jobs : snap.st[k] = "blocked" => Orders[j].rank < Orders[k].rank}

Begun(j) == IF j \in Estimated /\ plan[j].start = Now THEN plan[j].robot ELSE NoRobot

Comparable == NothingEndsNow /\ LocationCosts

\* The robots that the jobs before j leave it.
LeftFor(j) ==
  {r \in snap.idle : Fits(j, r)} \
    {Begun(k) : k \in {i \in Ahead : Orders[i].rank < Orders[j].rank}}

GivenRight(j) ==
  IF LeftFor(j) = {} THEN Begun(j) = NoRobot
  ELSE /\ Begun(j) \in LeftFor(j)
       /\ IsBest(Orders[j].place, {BodyOf(r) : r \in LeftFor(j)}, BodyOf(Begun(j)))

IsOpen(j) == plan[j].verdict = "open"

\* The first pass comes to the jobs ahead in dispatch order, and while one of them is open the
\* robots free now are the idle ones that none before it begins with.
AheadInv ==
  /\ \A j \in Ahead : IsOpen(j) => j \in unplaced
  /\ \A j \in Ahead, k \in ToPlace(snap) :
       IsOpen(j) /\ Orders[j].rank < Orders[k].rank => IsOpen(k)
  /\ \A j \in Ahead : IsOpen(j) =>
       \A r \in Robots : free[r] = Now <=> r \in snap.idle /\ \A k \in Ahead : Begun(k) # r
  /\ \A j \in Ahead : ~IsOpen(j) => GivenRight(j)

AgreeInv == PlanInv /\ (phase # "idle" /\ Comparable => AheadInv)

\* A pending job waits for nothing, and comes before every waiting job that is not ahead.
LEMMA AheadFacts ==
  ASSUME SnapTyped
  PROVE  /\ Ahead \subseteq ToPlace(snap) /\ ToPlace(snap) \subseteq Jobs
         /\ \A j \in Ahead : Counting(j) = {} /\ ~Dead(j) /\ Known(j) /\ Ready(j) = 0
         /\ \A j \in Ahead, k \in ToPlace(snap) \ Ahead : Orders[j].rank < Orders[k].rank
         /\ \A j, k \in Jobs : j # k => Orders[j].rank < Orders[k].rank \/ Orders[k].rank < Orders[j].rank
<1>1. /\ \A j \in Jobs : Orders[j].rank \in Nat
      /\ \A j, k \in Jobs : Orders[j].rank = Orders[k].rank => j = k
  BY PlannerAssumption
<1>2. Ahead \subseteq ToPlace(snap) /\ ToPlace(snap) \subseteq Jobs
  BY DEF Ahead, ToPlace
<1>3. ASSUME NEW j \in Ahead
      PROVE  Counting(j) = {}
  <2>1. snap.st[j] = "pending" /\ j \in Jobs /\ snap.dp[j] \subseteq Jobs
    BY SnapFacts DEF Ahead
  <2>2. ComputeStatus(snap.st, snap.dp[j]) = "pending"
    BY <2>1 DEF SnapTyped, Settled, WaitingIn, Waiting
  <2>3. \A d \in snap.dp[j] : Passed(snap.st[d])
    BY <2>2, PendingWhenPassed
  <2>4. QED
    BY <2>1, <2>3 DEF Counting, Passed, SnapTyped
<1>4. \A j \in Ahead : ~Dead(j) /\ Known(j) /\ Ready(j) = 0
  BY <1>3 DEF Dead, Known, Ready
<1>5. ASSUME NEW j \in Ahead, NEW k \in ToPlace(snap) \ Ahead
      PROVE  Orders[j].rank < Orders[k].rank
  <2>1. CASE snap.st[k] = "blocked"
    BY <1>2, <2>1 DEF Ahead
  <2>2. CASE snap.st[k] = "pending"
    <3>1. PICK b \in Jobs : snap.st[b] = "blocked" /\ ~(Orders[k].rank < Orders[b].rank)
      BY <1>2, <2>2 DEF Ahead
    <3>2. Orders[j].rank < Orders[b].rank
      BY <3>1 DEF Ahead
    <3>3. QED
      BY <1>1, <1>2, <3>1, <3>2
  <2>3. QED
    BY <2>1, <2>2 DEF ToPlace
<1>6. \A j, k \in Jobs : j # k => Orders[j].rank < Orders[k].rank \/ Orders[k].rank < Orders[j].rank
  BY <1>1
<1>7. QED
  BY <1>2, <1>3, <1>4, <1>5, <1>6

LEMMA AgreeBegins ==
  ASSUME PlanInv, Begin, Comparable'
  PROVE  AheadInv'
<1> DEFINE s == snap'
           A == AssignedIn(s)
<1>1. /\ SnapTyped' /\ plan' = Laid(s) /\ free' = FreeAt(s) /\ unplaced' = ToPlace(s)
      /\ \A j, k \in A : s.holder[j] = s.holder[k] => j = k
  BY BeginsTyped DEF PlanInv
<1>2. \A j \in ToPlace(s) : plan'[j] = Without("open")
  BY <1>1 DEF Laid, ToPlace
<1>3. Ahead' \subseteq ToPlace(s)
  BY DEF Ahead, ToPlace
<1>4. \A j \in ToPlace(s) : IsOpen(j)' /\ Begun(j)' = NoRobot
  BY <1>2 DEF IsOpen, Begun, Estimated, Without
<1>5. /\ \A j \in A : s.holder[j] \in Robots /\ s.holder[j] \notin s.idle
      /\ \A j \in A : plan'[j].end > Now
  BY <1>1 DEF SnapTyped, Comparable, NothingEndsNow
<1>6. /\ PlanTyped' /\ A \subseteq Jobs
  BY PlanBegins DEF PlanInv, AssignedIn
<1>7. ASSUME NEW r \in Robots
      PROVE  free'[r] = Now <=> r \in s.idle
  <2>1. CASE \E j \in A : s.holder[j] = r
    <3>1. PICK j \in A : s.holder[j] = r
      BY <2>1
    <3>2. j = CHOOSE k \in A : s.holder[k] = r
      BY <1>1, <3>1
    <3>3. free'[r] = Later(plan'[j].end, Now)
      BY <1>1, <2>1, <3>2 DEF FreeAt
    <3>4. plan'[j].end \in Int /\ Now \in Int /\ plan'[j].end > Now
      BY <1>5, <1>6, PlannerTypes DEF PlanTyped, Held
    <3>5. free'[r] # Now
      BY <3>3, <3>4 DEF Later
    <3>6. QED
      BY <1>5, <3>1, <3>5
  <2>2. CASE ~ \E j \in A : s.holder[j] = r
    <3>1. free'[r] = IF r \in s.idle THEN Now ELSE Unknown
      BY <1>1, <2>2 DEF FreeAt
    <3>2. Unknown # Now
      BY PlannerTypes
    <3>3. QED
      BY <3>1, <3>2
  <2>3. QED
    BY <2>1, <2>2
<1>8. \A r \in Robots : r # NoRobot
  BY PlannerTypes
<1> HIDE DEF A
<1>9. \A j \in Ahead' : IsOpen(j)' /\ j \in unplaced' /\ Begun(j)' = NoRobot
  BY <1>1, <1>3, <1>4
<1>10. \A r \in Robots : free'[r] = Now <=> r \in snap'.idle /\ \A k \in Ahead' : Begun(k)' # r
  BY <1>7, <1>8, <1>9
<1>11. QED
  BY <1>4, <1>9, <1>10 DEF AheadInv, s

\* The robot chosen for a job ahead is the one DispatchOnce would choose.
LEMMA ChosenAlike ==
  ASSUME PlanInv, SnapTyped, phase # "idle", Comparable, NEW j \in Ahead,
         NEW L \in SUBSET Robots,
         \A r \in Robots : r \in L <=> Fits(j, r) /\ free[r] = Now
  PROVE  /\ L = {} => ~(Placed(j).verdict = "estimated" /\ Placed(j).start = Now)
         /\ L # {} => /\ Placed(j).verdict = "estimated" /\ Placed(j).start = Now
                      /\ RobotFor(j) \in L
                      /\ IsBest(Orders[j].place, {BodyOf(r) : r \in L}, BodyOf(RobotFor(j)))
<1> DEFINE b == RobotFor(j)
<1>1. /\ PlanTyped /\ j \in Jobs /\ Now \in Nat /\ Unknown < Now /\ Unknown \in Int
      /\ \A r \in Robots : free[r] \in Int /\ (free[r] = Unknown \/ free[r] >= Now)
  BY PlannerTypes DEF PlanInv, PlanTyped, Ahead
<1>2. ~Dead(j) /\ Ready(j) = 0
  BY AheadFacts
<1>3. \A r \in Usable(j) : r \in Robots /\ free[r] >= Now /\ StartOn(j, r) = free[r]
  BY <1>1, <1>2 DEF Usable, StartOn, Later
<1>4. LengthOf(snap, j) # Unknown
  BY <1>1 DEF Comparable, NothingEndsNow, Unknown
<1>5. Placed(j).verdict = "estimated" =>
        /\ b \in Usable(j) /\ Placed(j).start = free[b]
  BY <1>1, <1>3, PlacedTyped
<1>6. ASSUME L = {}
      PROVE  ~(Placed(j).verdict = "estimated" /\ Placed(j).start = Now)
  BY <1>5, <1>6 DEF Usable
<1>7. ASSUME L # {}
      PROVE  /\ Placed(j).verdict = "estimated" /\ Placed(j).start = Now /\ b \in L
             /\ IsBest(Orders[j].place, {BodyOf(r) : r \in L}, BodyOf(b))
  <2>1. PICK q \in L : TRUE
    BY <1>7
  <2>2. \A r \in L : r \in Usable(j) /\ free[r] = Now
    BY <1>1 DEF Usable
  <2>3. /\ b \in Usable(j) /\ \A s \in Usable(j) \ {b} : Sooner(j, b, s)
    BY <1>1, <2>2, <1>7, RobotForSuits
  <2>4. free[b] = Now
    <3>1. CASE q = b
      BY <2>2, <3>1
    <3>2. CASE q # b
      <4>1. Sooner(j, b, q) /\ StartOn(j, q) = Now /\ StartOn(j, b) = free[b] /\ free[b] >= Now
        BY <1>3, <2>2, <2>3, <3>2
      <4>2. StartOn(j, b) <= Now
        BY <1>1, <1>3, <2>3, <4>1 DEF Sooner
      <4>3. free[b] \in Int
        BY <1>1, <1>3, <2>3
      <4>4. QED
        BY <1>1, <4>1, <4>2, <4>3
    <3>3. QED
      BY <3>1, <3>2
  <2>5. b \in L
    BY <1>3, <2>3, <2>4 DEF Usable
  <2>6. Placed(j).verdict = "estimated"
    BY <1>2, <1>4, <2>3 DEF Placed, Estimate
  <2>7. ASSUME NEW r \in L, r # b
        PROVE  Preferred(Orders[j].place, BodyOf(b), BodyOf(r))
    <3>1. Sooner(j, b, r) /\ StartOn(j, r) = Now /\ StartOn(j, b) = Now
      BY <1>3, <2>2, <2>3, <2>4, <2>7
    <3>2. Prefers(j, b, r)
      BY <1>1, <3>1 DEF Sooner
    <3>3. CASE ByCost(Orders[j].place)
      BY <3>2, <3>3 DEF Prefers, Preferred
    <3>4. CASE ~ByCost(Orders[j].place)
      <4>1. Orders[j].place = NoLocation
        BY <3>4 DEF ByCost, Comparable
      <4>2. Lighter(BodyOf(b), BodyOf(r))
        BY <3>2, <3>4 DEF Prefers
      <4>3. QED
        BY <3>4, <4>1, <4>2 DEF Preferred, LocalFirst, Local
    <3>5. QED
      BY <3>3, <3>4
  <2> HIDE DEF b
  <2>8. IsBest(Orders[j].place, {BodyOf(r) : r \in L}, BodyOf(b))
    BY <2>5, <2>7 DEF IsBest
  <2>9. QED
    BY <1>5, <2>4, <2>5, <2>6, <2>8 DEF b
<1>8. QED
  BY <1>6, <1>7

\* A step that writes no estimate, and takes no open job ahead off the list.
LEMMA AgreeUntouched ==
  ASSUME AheadInv, UNCHANGED <<snap, plan, free>>,
         \A j \in Ahead : IsOpen(j) /\ j \in unplaced => j \in unplaced'
  PROVE  AheadInv'
<1>1. /\ Ahead' = Ahead /\ ToPlace(snap)' = ToPlace(snap)
  BY DEF Ahead, ToPlace
<1>2. \A j : IsOpen(j)' = IsOpen(j) /\ Begun(j)' = Begun(j)
  BY DEF IsOpen, Begun, Estimated
<1>3. ASSUME NEW j \in Ahead
      PROVE  GivenRight(j)' = GivenRight(j)
  <2>1. LeftFor(j)' = LeftFor(j)
    BY <1>1, <1>2 DEF LeftFor
  <2>2. Begun(j)' = Begun(j)
    BY <1>2
  <2>3. QED
    BY <2>1, <2>2 DEF GivenRight
<1>4. QED
  BY <1>1, <1>2, <1>3 DEF AheadInv

LEMMA SameComparison ==
  ASSUME UNCHANGED snap, \A j \in AssignedIn(snap) : plan'[j] = plan[j]
  PROVE  Comparable' = Comparable
BY DEF Comparable, NothingEndsNow, AssignedIn, LengthOf

LEMMA AgreePlaces ==
  ASSUME AgreeInv, NEW j \in Jobs, PlaceJob(j), plan[j].verdict = "open", Dead(j) \/ Known(j),
         Comparable'
  PROVE  AheadInv'
<1> DEFINE P == Placed(j)
           r == RobotFor(j)
<1>1. /\ unplaced' = unplaced \ {j} /\ j \in unplaced /\ UNCHANGED <<phase, snap>>
      /\ plan' = [plan EXCEPT ![j] = P] /\ phase = "planning"
      /\ free' = IF P.verdict = "estimated" THEN [free EXCEPT ![r] = P.end] ELSE free
      /\ \A k \in unplaced : Orders[j].rank <= Orders[k].rank
  BY DEF PlaceJob, ComesNext
<1>2. PlanInv /\ PlanTyped /\ SnapTyped /\ Visited
  BY <1>1 DEF AgreeInv, PlanInv, PlanTyped
<1>3. plan'[j] = P /\ \A i \in Jobs \ {j} : plan'[i] = plan[i]
  BY <1>1, <1>2 DEF PlanTyped
<1>4. j \in ToPlace(snap) /\ j \notin AssignedIn(snap) /\ AssignedIn(snap) \subseteq Jobs
  BY <1>1, <1>2 DEF Visited, ToPlace, AssignedIn
<1>5. Comparable
  BY <1>1, <1>3, <1>4, SameComparison
<1>6. AheadInv
  BY <1>1, <1>5 DEF AgreeInv
<1>7. /\ P \in Held /\ P.verdict # "open"
      /\ P.verdict = "estimated" =>
           /\ P.robot = r /\ r \in Usable(j) /\ LengthOf(snap, j) \in Nat
           /\ P.start = StartOn(j, r) /\ P.end = P.start + LengthOf(snap, j)
  BY <1>1, <1>2, PlacedTyped
<1>8. /\ Ahead \subseteq ToPlace(snap) /\ ToPlace(snap) \subseteq Jobs
      /\ \A i \in Ahead, k \in ToPlace(snap) \ Ahead : Orders[i].rank < Orders[k].rank
      /\ \A i, k \in Jobs : i # k => Orders[i].rank < Orders[k].rank \/ Orders[k].rank < Orders[i].rank
      /\ \A i \in Jobs : Orders[i].rank \in Nat
  BY <1>2, AheadFacts, PlannerAssumption
<1>9. /\ Ahead' = Ahead /\ ToPlace(snap)' = ToPlace(snap)
  BY <1>1 DEF Ahead, ToPlace
<1> HIDE DEF P, r
<1>10. IsOpen(j) /\ ~IsOpen(j)' /\ \A i \in Jobs \ {j} : IsOpen(i)' = IsOpen(i) /\ Begun(i)' = Begun(i)
  BY <1>3, <1>7 DEF IsOpen, Begun, Estimated
<1>11. \A k \in Jobs : IsOpen(k) => Begun(k) = NoRobot
  BY DEF IsOpen, Begun, Estimated
\* No open job ahead comes before j.
<1>12. \A i \in Ahead : IsOpen(i) /\ i # j => Orders[j].rank < Orders[i].rank
  <2> SUFFICES ASSUME NEW i \in Ahead, IsOpen(i), i # j PROVE Orders[j].rank < Orders[i].rank
    OBVIOUS
  <2>1. i \in unplaced /\ i \in Jobs
    BY <1>6, <1>8 DEF AheadInv
  <2>2. Orders[j].rank <= Orders[i].rank /\ Orders[i].rank \in Nat /\ Orders[j].rank \in Nat
    BY <1>1, <1>8, <2>1
  <2>3. QED
    BY <1>8, <2>1, <2>2
<1>13. \A i \in Ahead : IsOpen(i)' => i \in unplaced'
  BY <1>1, <1>6, <1>8, <1>10 DEF AheadInv
<1>14. ASSUME NEW i \in Ahead, NEW k \in ToPlace(snap), IsOpen(i)', Orders[i].rank < Orders[k].rank
       PROVE  IsOpen(k)'
  <2>1. i # j /\ IsOpen(i) /\ i \in Jobs /\ k \in Jobs
    BY <1>8, <1>10, <1>14
  <2>2. k # j
    BY <1>8, <1>12, <1>14, <2>1
  <2>3. QED
    BY <1>6, <1>10, <1>14, <2>1, <2>2 DEF AheadInv
\* What those ahead of i in dispatch order begin with is settled before i is placed.
<1>15. ASSUME NEW i \in Ahead, ~IsOpen(i)
       PROVE  GivenRight(i)'
  <2>1. i # j /\ GivenRight(i)
    BY <1>6, <1>10, <1>15 DEF AheadInv
  <2>2. \A k \in Ahead : Orders[k].rank < Orders[i].rank => k # j /\ ~IsOpen(k)
    BY <1>4, <1>6, <1>8, <1>10, <1>15 DEF AheadInv
  <2>3. \A k \in Ahead : Orders[k].rank < Orders[i].rank => Begun(k)' = Begun(k)
    BY <1>8, <1>10, <2>2
  <2>4. LeftFor(i)' = LeftFor(i) /\ Begun(i)' = Begun(i)
    <3>1. Begun(i)' = Begun(i)
      BY <1>8, <1>10, <2>1
    <3>2. LeftFor(i)' = LeftFor(i)
      BY <1>1, <1>9, <2>3 DEF LeftFor
    <3>3. QED
      BY <3>1, <3>2
  <2>5. QED
    BY <2>1, <2>4 DEF GivenRight
<1>16. CASE j \notin Ahead
  <2>1. \A i \in Ahead : i # j /\ ~IsOpen(i)
    <3> SUFFICES ASSUME NEW i \in Ahead, IsOpen(i) PROVE FALSE
      BY <1>16
    <3>1. Orders[i].rank < Orders[j].rank /\ Orders[j].rank < Orders[i].rank
      BY <1>4, <1>8, <1>12, <1>16
    <3>2. QED
      BY <1>4, <1>8, <3>1
  <2>2. \A i \in Ahead : ~IsOpen(i)'
    BY <1>8, <1>10, <2>1
  <2>3. QED
    BY <1>9, <1>15, <2>1, <2>2 DEF AheadInv
<1>17. CASE j \in Ahead
  <2> DEFINE L == {q \in Robots : Fits(j, q) /\ free[q] = Now}
  <2>1. \A q \in Robots : free[q] = Now <=> q \in snap.idle /\ \A k \in Ahead : Begun(k) # q
    BY <1>6, <1>10, <1>17 DEF AheadInv
  <2>2. Begun(j) = NoRobot /\ NoRobot \notin Robots /\ snap.idle \subseteq Robots
    BY <1>2, <1>10, <1>11, PlannerTypes DEF SnapTyped
  <2>3. \A k \in Ahead : ~(Orders[k].rank < Orders[j].rank) => Begun(k) = NoRobot
    <3> SUFFICES ASSUME NEW k \in Ahead, ~(Orders[k].rank < Orders[j].rank) PROVE Begun(k) = NoRobot
      OBVIOUS
    <3>1. CASE k = j
      BY <2>2, <3>1
    <3>2. CASE k # j
      <4>1. Orders[j].rank < Orders[k].rank
        BY <1>4, <1>8, <3>2
      <4>2. IsOpen(k)
        BY <1>6, <1>8, <1>10, <1>17, <4>1 DEF AheadInv
      <4>3. QED
        BY <1>8, <1>11, <4>2
    <3>3. QED
      BY <3>1, <3>2
  <2>4. LeftFor(j)' = L
    <3>1. \A k \in Ahead : Orders[k].rank < Orders[j].rank => k # j
      BY <1>8, <1>4
    <3>2. \A k \in Ahead : Orders[k].rank < Orders[j].rank => Begun(k)' = Begun(k)
      BY <1>8, <1>10, <3>1
    <3>3. LeftFor(j)' = LeftFor(j)
      BY <1>1, <1>9, <3>2 DEF LeftFor
    <3>4. LeftFor(j) = L
      BY <2>1, <2>2, <2>3 DEF LeftFor
    <3>5. QED
      BY <3>3, <3>4
  <2> HIDE DEF L
  <2>5. /\ L = {} => ~(P.verdict = "estimated" /\ P.start = Now)
        /\ L # {} => /\ P.verdict = "estimated" /\ P.start = Now /\ r \in L
                     /\ IsBest(Orders[j].place, {BodyOf(q) : q \in L}, BodyOf(r))
    <3>1. L \in SUBSET Robots /\ \A q \in Robots : q \in L <=> Fits(j, q) /\ free[q] = Now
      BY DEF L
    <3>2. QED
      BY <1>1, <1>2, <1>5, <1>17, <3>1, ChosenAlike DEF P, r
  <2>6. Begun(j)' = IF P.verdict = "estimated" /\ P.start = Now THEN r ELSE NoRobot
    BY <1>3, <1>7 DEF Begun, Estimated
  <2>7. GivenRight(j)'
    BY <2>4, <2>5, <2>6 DEF GivenRight
  <2>8. ASSUME NEW q \in Robots
        PROVE  free'[q] = Now <=> q \in snap.idle /\ \A k \in Ahead : Begun(k)' # q
    <3>1. \A k \in Ahead \ {j} : Begun(k)' = Begun(k)
      BY <1>8, <1>10
    <3>2. CASE P.verdict = "estimated"
      <4>1. /\ r \in Robots /\ free[r] \in Int /\ free[r] >= Now /\ Now \in Nat
        BY <1>1, <1>2, <1>7, <3>2, PlannerTypes DEF Usable, PlanInv, PlanTyped
      <4>2. P.start = free[r]
        <5>1. Ready(j) = 0
          BY <1>2, <1>17, AheadFacts
        <5>2. QED
          BY <1>7, <3>2, <4>1, <5>1 DEF StartOn, Later
      <4>3. P.end > Now /\ P.end \in Int
        <5>1. LengthOf(snap, j) > 0 /\ LengthOf(snap, j) \in Nat
          BY <1>5, <1>7, <3>2 DEF Comparable, NothingEndsNow
        <5>2. QED
          BY <1>7, <3>2, <4>1, <4>2, <5>1
      <4>4. CASE q = r
        <5>1. free'[q] # Now
          BY <1>1, <1>2, <3>2, <4>1, <4>3, <4>4 DEF PlanTyped
        <5>2. free[r] = Now => Begun(j)' = q
          BY <2>6, <3>2, <4>2, <4>4
        <5>3. free[r] # Now => ~(q \in snap.idle /\ \A k \in Ahead : Begun(k)' # q)
          BY <2>1, <2>2, <3>1, <4>1, <4>4
        <5>4. QED
          BY <1>17, <5>1, <5>2, <5>3
      <4>5. CASE q # r
        <5>1. free'[q] = free[q] /\ Begun(j)' # q
          BY <1>1, <1>2, <2>2, <2>6, <3>2, <4>5 DEF PlanTyped
        <5>2. QED
          BY <2>1, <2>2, <3>1, <5>1
      <4>6. QED
        BY <4>4, <4>5
    <3>3. CASE P.verdict # "estimated"
      <4>1. free' = free /\ Begun(j)' = NoRobot
        BY <1>1, <2>6, <3>3
      <4>2. QED
        BY <2>1, <2>2, <3>1, <4>1
    <3>4. QED
      BY <3>2, <3>3
  <2>9. \A i \in Ahead : ~IsOpen(i)' => GivenRight(i)'
    BY <1>8, <1>10, <1>15, <2>7
  <2>10. \A i \in Ahead : IsOpen(i)' =>
           \A q \in Robots : free'[q] = Now <=> q \in snap'.idle /\ \A k \in Ahead : Begun(k)' # q
    BY <1>1, <2>8
  <2>11. QED
    BY <1>9, <1>13, <1>14, <2>9, <2>10 DEF AheadInv
<1>18. QED
  BY <1>16, <1>17

LEMMA AgreeInvStep == AgreeInv /\ [PlanNext]_planVars => AgreeInv'
<1> SUFFICES ASSUME AgreeInv, [PlanNext]_planVars PROVE AgreeInv'
  OBVIOUS
<1>1. PlanInv /\ PlanInv'
  BY PlanInvStep DEF AgreeInv
<1> SUFFICES ASSUME phase' # "idle", Comparable' PROVE AheadInv'
  BY <1>1 DEF AgreeInv
<1>2. CASE Begin
  BY <1>1, <1>2, AgreeBegins
<1>3. ASSUME UNCHANGED <<snap, plan, free>>, phase # "idle",
             \A j \in Ahead : IsOpen(j) /\ j \in unplaced => j \in unplaced'
      PROVE  AheadInv'
  <2>1. Comparable
    BY <1>3, SameComparison
  <2>2. AheadInv
    BY <1>3, <2>1 DEF AgreeInv
  <2>3. QED
    BY <1>3, <2>2, AgreeUntouched
<1>4. CASE EndRound
  BY <1>3, <1>4 DEF EndRound
<1>5. ASSUME NEW j \in Jobs, PlaceJob(j)
      PROVE  AheadInv'
  <2>1. CASE plan[j].verdict = "open" /\ (Dead(j) \/ Known(j))
    BY <1>5, <2>1, AgreePlaces
  <2>2. CASE ~(plan[j].verdict = "open" /\ (Dead(j) \/ Known(j)))
    <3>1. UNCHANGED <<phase, snap, plan, free>> /\ phase = "planning" /\ unplaced' = unplaced \ {j}
      BY <1>5, <2>2 DEF PlaceJob
    <3>2. SnapTyped
      BY <1>1, <3>1 DEF PlanInv, PlanTyped
    <3>3. ~(j \in Ahead /\ IsOpen(j))
      BY <2>2, <3>2, AheadFacts DEF IsOpen
    <3>4. QED
      BY <1>3, <3>1, <3>3
  <2>3. QED
    BY <2>1, <2>2
<1>6. CASE UNCHANGED planVars
  BY <1>3, <1>6 DEF planVars
<1> QED
  BY <1>2, <1>4, <1>5, <1>6 DEF PlanNext

\* Where the plan and DispatchOnce compare robots alike, the jobs that no blocked job precedes
\* begin now as a pass of DispatchOnce would give them away, whatever the fleet and the queue
\* (planLocked against DispatchOnce).
THEOREM PlanAgrees == PlanSpec => []AgreesWithDispatch
<1>1. PlanInit => AgreeInv
  BY PlanInvInit DEF AgreeInv, PlanInit
<1>2. AgreeInv => AgreesWithDispatch
  <2> SUFFICES ASSUME AgreeInv, phase = "planned", Comparable
               PROVE  IsDispatch([j \in Ahead |-> Begun(j)])
    BY DEF AgreesWithDispatch, Comparable, Ahead, Begun
  <2> DEFINE g == [j \in Ahead |-> Begun(j)]
  <2>1. AheadInv /\ PlanInv /\ SnapTyped
    BY DEF AgreeInv, PlanInv, PlanTyped
  <2>2. \A j \in Ahead : ~IsOpen(j)
    BY <2>1, NothingLeftOpen, AheadFacts DEF IsOpen
  <2>3. \A j \in Ahead : GivenRight(j)
    BY <2>1, <2>2 DEF AheadInv
  <2>4. DOMAIN g = Ahead /\ \A j \in Ahead : g[j] = Begun(j)
    OBVIOUS
  <2> HIDE DEF g
  <2>5. ASSUME NEW j \in Ahead
        PROVE  LeftFor(j) = {r \in snap.idle : Fits(j, r)} \
                 {g[k] : k \in {i \in DOMAIN g : Orders[i].rank < Orders[j].rank}}
    BY <2>4 DEF LeftFor
  <2>6. IsDispatch(g)
    BY <2>3, <2>4, <2>5 DEF IsDispatch, GivenRight
  <2>7. QED
    BY <2>6 DEF g
<1>3. QED
  BY <1>1, <1>2, AgreeInvStep, PTL DEF PlanSpec

=============================================================================
