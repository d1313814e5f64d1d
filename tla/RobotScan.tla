------------------------------ MODULE RobotScan ------------------------------
(***************************************************************************)
(* The loop of bestRobotFor (dispatcher.go), one robot per step, over the  *)
(* robots that may take the job, in the order of a Go map.                 *)
(***************************************************************************)
EXTENDS RobotChoice, FiniteSets

CONSTANTS
  MaxLoad   \* bound: the loads the robots start with; Robots are the eligible ones

ASSUME ScanConstants == Robots \subseteq Nat \ {0} /\ IsFiniteSet(Robots) /\ MaxLoad \in Nat

VARIABLES
  place,          \* the location of the job
  load, location, \* of the robots, constant during the scan
  unseen,         \* robots not looked at yet
  best,           \* closest, with the cost table; best without it
  bestInLocation  \* without the cost table only

scanVars == <<place, load, location, unseen, best, bestInLocation>>

AsCandidate(r) == [id |-> r, load |-> load[r], location |-> location[r]]

ScanInit ==
  /\ place \in Place
  /\ load \in [Robots -> 0 .. MaxLoad]
  /\ location \in [Robots -> Place]
  /\ unseen = Robots
  /\ best = NoRobot /\ bestInLocation = NoRobot

\* Mutant: of two robots at the same known cost the later one is kept.
TakesClosestLast(r) ==
  \/ best = NoRobot
  \/ /\ CostKnown(place, location[r])
     /\ CostKnown(place, location[best]) =>
          Cost(place, location[r]) <= Cost(place, location[best])

\* preferLocked(j, r, closest), where nil loses to every robot.
TakesClosest(r) == best = NoRobot \/ Closer(place, AsCandidate(r), AsCandidate(best))

\* The closure better(r, than), where nil loses to every robot.
IsBetter(r, than) == than = NoRobot \/ Lighter(AsCandidate(r), AsCandidate(than))

Weigh(r) ==
  /\ r \in unseen
  /\ unseen' = unseen \ {r}
  /\ IF ByCost(place)
     THEN /\ best' = IF TakesClosest(r) THEN r ELSE best
          /\ UNCHANGED bestInLocation
     ELSE /\ best' = IF IsBetter(r, best) THEN r ELSE best
          /\ bestInLocation' =
               IF Local(place, AsCandidate(r)) /\ IsBetter(r, bestInLocation)
               THEN r ELSE bestInLocation
  /\ UNCHANGED <<place, load, location>>

ScanNext == \E r \in Robots : Weigh(r)

ScanSpec == ScanInit /\ [][ScanNext]_scanVars

Chosen == IF bestInLocation # NoRobot THEN bestInLocation ELSE best

-----------------------------------------------------------------------------
ScanTyped ==
  /\ place \in Place
  /\ load \in [Robots -> Nat] /\ location \in [Robots -> Place]
  /\ unseen \in SUBSET Robots
  /\ best \in Robots \cup {NoRobot}
  /\ bestInLocation \in Robots \cup {NoRobot}

Weighed == Robots \ unseen

\* Whatever the order of the scan, the robot kept so far is the one preferred to
\* every other robot looked at; nil is kept only before the first.  So the
\* robot returned depends on the robots and the job, not on the order of a map.
KeepsTheBest ==
  \/ Weighed = {} /\ Chosen = NoRobot
  \/ /\ Chosen \in Weighed
     /\ IsBest(place, {AsCandidate(r) : r \in Weighed}, AsCandidate(Chosen))
=============================================================================
