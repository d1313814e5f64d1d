---------------------------- MODULE JobLifecycle ----------------------------
(***************************************************************************)
(* What the dispatcher promises to whoever submits jobs, whatever robots,  *)
(* priorities, tools, heartbeats and the archive do: the life of each job. *)
(*                                                                         *)
(* Several jobs may move in one step (a dispatch pass, a sweep, a robot    *)
(* that is replanned), so a step is a move, or none, of every job.         *)
(***************************************************************************)
EXTENDS Naturals

CONSTANTS Jobs

VARIABLES
  phase,  \* where each job is in its life
  runs,   \* how many times the job was given to a robot
  needs   \* the jobs that must be done before it is given to one

lifeVars == <<phase, runs, needs>>

LifeInit ==
  /\ phase = [j \in Jobs |-> "absent"]
  /\ runs = [j \in Jobs |-> 0]
  /\ needs = [j \in Jobs |-> {}]

Present == {j \in Jobs : phase[j] # "absent"}

\* The job enters the queue; what it needs is there already.
Enter(j) ==
  /\ phase[j] = "absent" /\ phase'[j] = "waiting"
  /\ runs'[j] = 0
  /\ needs'[j] \subseteq Present \ {j}

\* The job is given to a robot: everything it needs is done.
Start(j) ==
  /\ phase[j] = "waiting" /\ phase'[j] = "running"
  /\ \A d \in needs[j] : phase[d] = "done"
  /\ runs'[j] = runs[j] + 1
  /\ needs'[j] = needs[j]

\* Its robot reports how it ended.
End(j) ==
  /\ phase[j] = "running" /\ phase'[j] \in {"done", "failed"}
  /\ runs'[j] = runs[j] /\ needs'[j] = needs[j]

\* Its robot is given up and the job waits again.
GiveUp(j) ==
  /\ phase[j] = "running" /\ phase'[j] = "waiting"
  /\ runs'[j] = runs[j] /\ needs'[j] = needs[j]

\* The client withdraws a job that no robot has.
Withdraw(j) ==
  /\ phase[j] = "waiting" /\ phase'[j] = "cancelled"
  /\ runs'[j] = runs[j] /\ needs'[j] = needs[j]

\* The client submits again what failed or was withdrawn; never what is done.
Retry(j) ==
  /\ phase[j] \in {"failed", "cancelled"} /\ phase'[j] = "waiting"
  /\ runs'[j] = runs[j]
  /\ needs'[j] \subseteq Present \ {j}

\* The job is archived: it ended, and no job that stays needs it.
Forget(j) ==
  /\ phase[j] \in {"done", "failed", "cancelled"} /\ phase'[j] = "absent"
  /\ runs'[j] = 0 /\ needs'[j] = {}
  /\ \A i \in Jobs : phase'[i] # "absent" => j \notin needs'[i]

Stay(j) == phase'[j] = phase[j] /\ runs'[j] = runs[j] /\ needs'[j] = needs[j]

Move(j) ==
  \/ Enter(j) \/ Start(j) \/ End(j) \/ GiveUp(j)
  \/ Withdraw(j) \/ Retry(j) \/ Forget(j)

LifeNext == \A j \in Jobs : Stay(j) \/ Move(j)

LifeSpec == LifeInit /\ [][LifeNext]_lifeVars
=============================================================================
