----------------------------- MODULE RobotChoice -----------------------------
(***************************************************************************)
(* How DispatchOnce compares two robots that may both take a job           *)
(* (dispatcher.go bestRobotFor, location.go preferLocked and cost).        *)
(*                                                                         *)
(* A robot is seen here as a candidate: its identifier, its Load and the   *)
(* location it is at.  Identifiers are numbers in the order the code       *)
(* compares the id strings.  Declared costs are natural numbers standing   *)
(* for the float64 values of the table: only their order is used.          *)
(***************************************************************************)
EXTENDS Naturals

CONSTANTS
  Robots,        \* robot ids, positive numbers in the order of the id strings
  Locations,     \* names of locations
  NoLocation,    \* the empty string: a job or a robot that names no location
  LocationCosts, \* LocationConfig.Enabled: the cost table is switched on
  Costs          \* LocationConfig.Costs, a partial function of <<from, to>>

ASSUME ChoiceConstants ==
  /\ NoLocation \notin Locations
  /\ LocationCosts \in BOOLEAN
  /\ DOMAIN Costs \subseteq Locations \X Locations
  /\ \A p \in DOMAIN Costs : Costs[p] \in Nat

NoRobot == 0   \* nil; also: no robot is named

Place == Locations \cup {NoLocation}

Candidate == [id : Nat, load : Nat, location : Place]

-----------------------------------------------------------------------------
\* location.go cost: the table is read in both directions, a == b costs nothing.
CostKnown(a, b) == a = b \/ <<a, b>> \in DOMAIN Costs \/ <<b, a>> \in DOMAIN Costs

Cost(a, b) ==
  IF a = b THEN 0
  ELSE IF <<a, b>> \in DOMAIN Costs THEN Costs[<<a, b>>] ELSE Costs[<<b, a>>]

\* The closure "better" of bestRobotFor: the lower Load, then the lower id.
Lighter(r, s) == r.load < s.load \/ (r.load = s.load /\ r.id < s.id)

\* location.go preferLocked, for a job at place p (than # nil).
Closer(p, r, s) ==
  LET kr == CostKnown(p, r.location)
      ks == CostKnown(p, s.location)
  IN  \/ kr /\ ~ks
      \/ kr /\ ks /\ Cost(p, r.location) < Cost(p, s.location)
      \/ kr /\ ks /\ Cost(p, r.location) = Cost(p, s.location) /\ Lighter(r, s)
      \/ ~kr /\ ~ks /\ Lighter(r, s)

\* Without the table: a robot at the place the job names wins over any other.
Local(p, r) == p # NoLocation /\ r.location = p

LocalFirst(p, r, s) ==
  \/ Local(p, r) /\ ~Local(p, s)
  \/ (Local(p, r) <=> Local(p, s)) /\ Lighter(r, s)

ByCost(p) == LocationCosts /\ p # NoLocation

\* bestRobotFor: r is chosen over s for a job at p.
Preferred(p, r, s) == IF ByCost(p) THEN Closer(p, r, s) ELSE LocalFirst(p, r, s)

\* bestRobotFor: the candidate chosen over all the others.
IsBest(p, C, b) == b \in C /\ \A s \in C \ {b} : Preferred(p, b, s)
=============================================================================
