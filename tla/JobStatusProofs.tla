--------------------------- MODULE JobStatusProofs ---------------------------
(***************************************************************************)
(* Lemmas about computeStatus and about the tables refreshBlocked leaves   *)
(* behind, for every set of jobs and every table of statuses.              *)
(***************************************************************************)
EXTENDS JobStatus, TLAPS

-----------------------------------------------------------------------------
\* What the verdicts are, for every table of statuses.

\* computeStatus only ever returns one of the three waiting statuses.
LEMMA VerdictWaits ==
  ASSUME NEW st, NEW D
  PROVE  ComputeStatus(st, D) \in Waiting
BY DEF ComputeStatus, Waiting

\* refreshBlocked rewrites waiting jobs only, into waiting statuses, and leaves
\* a settled table.
LEMMA RefreshedTable ==
  ASSUME NEW st \in [Jobs -> Status], NEW dp, NEW new \in Refreshed(st, dp)
  PROVE  /\ new \in [Jobs -> Status]
         /\ \A j \in Jobs : st[j] \in Waiting <=> new[j] \in Waiting
         /\ \A j \in Jobs : st[j] \notin Waiting => new[j] = st[j]
         /\ Settled(WaitingIn(new), new, dp)
<1> DEFINE W == WaitingIn(st)
           laid(w) == [j \in Jobs |-> IF j \in W THEN w[j] ELSE st[j]]
<1>1. PICK w \in [W -> Waiting] : new = laid(w) /\ Settled(W, laid(w), dp)
  BY Zenon DEF Refreshed
<1>2. \A j \in Jobs : new[j] = IF j \in W THEN w[j] ELSE st[j]
  BY <1>1
<1>3. \A j \in Jobs : j \in W <=> st[j] \in Waiting
  BY DEF WaitingIn
<1>4. \A j \in Jobs : st[j] \in Waiting <=> new[j] \in Waiting
  BY <1>1, <1>2, <1>3
<1>5. new \in [Jobs -> Status]
  BY <1>1, <1>2, <1>3 DEF Status
<1>6. WaitingIn(new) = W
  BY <1>4 DEF WaitingIn
<1>7. QED
  BY <1>1, <1>2, <1>3, <1>4, <1>5, <1>6

\* What of a dependency its dependents see: whether it is out of the way, and
\* whether it can still become so.
Passed(s) == s \in {"done", Absent}
Broken(s) == s \in {"failed", "unreachable", "cancelled"}

\* The verdict depends on nothing else.
LEMMA SameVerdict ==
  ASSUME NEW st, NEW new, NEW D,
         \A d \in D : (Passed(st[d]) <=> Passed(new[d])) /\ (Broken(st[d]) <=> Broken(new[d]))
  PROVE  ComputeStatus(st, D) = ComputeStatus(new, D)
<1>1. (\E d \in D : st[d] \in {"failed", "unreachable", "cancelled"})
        <=> \E d \in D : new[d] \in {"failed", "unreachable", "cancelled"}
  BY DEF Broken
<1>2. (\E d \in D : st[d] \notin {"done", Absent}) <=> \E d \in D : new[d] \notin {"done", Absent}
  BY DEF Passed
<1>3. QED
  BY <1>1, <1>2 DEF ComputeStatus

\* A job waits without being blocked exactly when nothing it depends on is left
\* to do.
LEMMA PendingWhenPassed ==
  ASSUME NEW st, NEW D
  PROVE  ComputeStatus(st, D) = "pending" <=> \A d \in D : Passed(st[d])
BY DEF ComputeStatus, Passed, Absent

\* The verdicts of refreshBlocked do not depend on the order in which its loop
\* visits the jobs of the Go map: from one table, with dependencies that close
\* no cycle, at most one settled table is reached.  Two that differed would
\* differ on a job all of whose dependencies agree.
THEOREM OneSettledTable ==
  ASSUME NEW st \in [Jobs -> Status], NEW dp \in [Jobs -> SUBSET Jobs], AcyclicIn(dp),
         NEW one \in Refreshed(st, dp), NEW two \in Refreshed(st, dp)
  PROVE  one = two
<1> DEFINE S == {j \in Jobs : one[j] # two[j]}
<1>1. /\ one \in [Jobs -> Status] /\ two \in [Jobs -> Status]
      /\ \A j \in Jobs : one[j] \in Waiting <=> two[j] \in Waiting
      /\ \A j \in Jobs : one[j] \notin Waiting => one[j] = two[j]
      /\ Settled(WaitingIn(one), one, dp) /\ Settled(WaitingIn(two), two, dp)
  <2>1. /\ one \in [Jobs -> Status]
        /\ \A j \in Jobs : st[j] \in Waiting <=> one[j] \in Waiting
        /\ \A j \in Jobs : st[j] \notin Waiting => one[j] = st[j]
        /\ Settled(WaitingIn(one), one, dp)
    BY RefreshedTable
  <2>2. /\ two \in [Jobs -> Status]
        /\ \A j \in Jobs : st[j] \in Waiting <=> two[j] \in Waiting
        /\ \A j \in Jobs : st[j] \notin Waiting => two[j] = st[j]
        /\ Settled(WaitingIn(two), two, dp)
    BY RefreshedTable
  <2>3. QED
    BY <2>1, <2>2
<1>2. SUFFICES ASSUME S # {}
               PROVE  FALSE
  <2>1. S = {} => \A j \in Jobs : one[j] = two[j]
    OBVIOUS
  <2>2. QED
    BY <1>1, <1>2, <2>1
<1>3. PICK j \in S : dp[j] \cap S = {}
  BY <1>2 DEF AcyclicIn
<1>4. \A d \in dp[j] : one[d] = two[d]
  BY <1>3
<1>5. ComputeStatus(one, dp[j]) = ComputeStatus(two, dp[j])
  BY <1>4, SameVerdict
<1>6. j \in WaitingIn(one) /\ j \in WaitingIn(two)
  BY <1>1, <1>3 DEF WaitingIn
<1>7. QED
  BY <1>1, <1>3, <1>5, <1>6 DEF Settled
=============================================================================
