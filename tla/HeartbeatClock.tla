---------------------------- MODULE HeartbeatClock ----------------------------
(***************************************************************************)
(* The heartbeat of one robot and the clock of the machine, as numbers     *)
(* (dispatcher.go robotEligibleLocked, DetectStaleAssignmentsStop and      *)
(* heartbeatFromFuture; sqlitestore.go).  A time that the process took     *)
(* itself carries a monotonic reading, by which two such times are         *)
(* compared.  A time from the database is only what the clock said then,   *)
(* and that clock may have been set since, forwards or backwards.          *)
(*                                                                         *)
(* One unit of time stands for as much of it as nobody tells apart.        *)
(***************************************************************************)
EXTENDS Integers

CONSTANTS
  Timeout,  \* -robot-timeout
  Skew,     \* maxHeartbeatFutureSkew
  Errors,   \* bound: how far the clock may be off
  MaxReal   \* bound: the real time that passes

ASSUME ClockAssumption ==
  Timeout \in Nat /\ Skew \in Nat /\ Errors \subseteq Int /\ MaxReal \in Nat

Unread == -1                           \* no monotonic reading
NoBeat == [mono |-> Unread, wall |-> -1, known |-> FALSE]   \* the zero time

VARIABLES
  real,     \* real time, which is also the monotonic clock
  error,    \* what the clock of the machine says more than that
  beat,     \* LastHeartbeat of the robot
  saved,    \* the column last_heartbeat_ns, as a time without a reading
  offered   \* ghost: how long the robot, silent, has been fresh since anything happened

clockVars == <<real, error, beat, saved, offered>>

TimeType == [mono : Int, wall : Int, known : BOOLEAN]

ClockInit ==
  /\ real = 0
  /\ error \in Errors
  /\ beat = NoBeat /\ saved = NoBeat
  /\ offered = 0

-----------------------------------------------------------------------------
\* now.Sub(LastHeartbeat).
Age == IF beat.mono # Unread THEN real - beat.mono ELSE real + error - beat.wall

\* Mutant: a heartbeat from the future is as good as any.
FromFutureNever == FALSE

\* heartbeatFromFuture.
FromFuture == -Age > Skew

\* robotEligibleLocked: the robot is heard often enough to be offered work.
Fresh == beat.known /\ ~FromFuture /\ ~(Age > Timeout)

\* DetectStaleAssignmentsStop: a job of the robot is dealt with as one of a silent robot.
Stale == beat.known /\ ~(Age < Timeout /\ ~FromFuture)

\* Time passes without a heartbeat.
PassTime ==
  /\ real < MaxReal
  /\ real' = real + 1
  /\ UNCHANGED <<error, beat, saved>>
  /\ offered' = IF Fresh /\ Fresh' THEN offered + 1 ELSE offered

\* A heartbeat; its write may be refused.
HearRobot(written) ==
  /\ beat' = [mono |-> real, wall |-> real + error, known |-> TRUE]
  /\ saved' = IF written THEN [mono |-> Unread, wall |-> real + error, known |-> TRUE]
              ELSE saved
  /\ offered' = 0
  /\ UNCHANGED <<real, error>>

\* The clock of the machine is set.
SetClock(e) ==
  /\ error' = e
  /\ offered' = 0
  /\ UNCHANGED <<real, beat, saved>>

\* The service is started again, with the registry of the database.
LoadRobots ==
  /\ beat' = saved
  /\ offered' = 0
  /\ UNCHANGED <<real, error, saved>>

ClockNext ==
  \/ PassTime
  \/ \E written \in BOOLEAN : HearRobot(written)
  \/ \E e \in Errors : SetClock(e)
  \/ LoadRobots

ClockSpec == ClockInit /\ [][ClockNext]_clockVars

-----------------------------------------------------------------------------
ClockTyped ==
  /\ real \in Nat /\ error \in Int /\ offered \in Nat
  /\ beat \in TimeType /\ saved \in TimeType

\* A silent robot is fresh for a limited time in all, however wrong the clock
\* was when its heartbeat was stored: not for as long as a clock that was set
\* back needs to catch up, and not a second time after it was silent for long.
\* Whenever it is not fresh, a sweep looks after the jobs it has.
OfferedBriefly ==
  /\ offered <= Timeout + Skew
  /\ beat.known => Fresh \/ Stale
=============================================================================
