------------------------------ MODULE JobStatus ------------------------------
(***************************************************************************)
(* The statuses of a job (dispatcher.go JobStatus) and the one derived     *)
(* from its dependencies (computeStatus).                                  *)
(***************************************************************************)
EXTENDS FiniteSets

CONSTANTS Jobs   \* job ids

ASSUME JobsFinite == IsFiniteSet(Jobs)

Waiting  == {"pending", "blocked", "unreachable"}
InFlight == {"assigned", "unknown"}
Finished == {"done", "failed", "cancelled"}
Absent   == "absent"   \* the id is not a key of e.jobs
Status   == Waiting \cup InFlight \cup Finished \cup {Absent}

Live(st) == {j \in Jobs : st[j] # Absent}

\* Mutant: a dependency that was given to a robot no longer blocks.
ComputeStatusUnblockedEarly(st, D) ==
  IF \E d \in D : st[d] \in {"failed", "unreachable", "cancelled"} THEN "unreachable"
  ELSE IF \E d \in D : st[d] \in Waiting THEN "blocked"
  ELSE "pending"

\* computeStatus, for a job with dependencies D in the table st.  A dependency
\* that is not in the queue is passed over.
ComputeStatus(st, D) ==
  IF \E d \in D : st[d] \in {"failed", "unreachable", "cancelled"} THEN "unreachable"
  ELSE IF \E d \in D : st[d] \notin {"done", Absent} THEN "blocked"
  ELSE "pending"

WaitingIn(st) == {j \in Jobs : st[j] \in Waiting}

\* Every job of T has the status its dependencies dp give it in st: where the
\* loop of refreshBlocked stops.
Settled(T, st, dp) == \A j \in T : st[j] = ComputeStatus(st, dp[j])

\* Mutant: refreshBlocked is not called.
RefreshedNever(st, dp) == {st}

\* The tables refreshBlocked may leave behind when it starts from st.
Refreshed(st, dp) ==
  LET W == WaitingIn(st)
      laid(w) == [j \in Jobs |-> IF j \in W THEN w[j] ELSE st[j]]
  IN  {laid(w) : w \in {v \in [W -> Waiting] : Settled(W, laid(v), dp)}}

\* No job depends on itself through others: every set of jobs has one that
\* depends on none of the set.
AcyclicIn(dp) == \A S \in SUBSET Jobs : S # {} => \E j \in S : dp[j] \cap S = {}
=============================================================================
