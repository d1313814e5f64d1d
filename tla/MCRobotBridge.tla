---------------------------- MODULE MCRobotBridge ----------------------------
(***************************************************************************)
(* A small instance of RobotBridge for TLC: one job, given to two robots   *)
(* that declare in every heartbeat that they can confirm a stop.           *)
(***************************************************************************)
EXTENDS RobotBridge, MCJobEngine

BridgeReports == {Report(r, Keep, TRUE, free) : r \in Robots, free \in BOOLEAN}

\* Silent robots are asked to stop, and only a confirmed stop frees their job.
AskFirst == {[FullReplan EXCEPT !.onFault = FALSE]}
=============================================================================
