----------------------------- MODULE RefreshLoop -----------------------------
(***************************************************************************)
(* The loop of refreshBlocked (dispatcher.go), one job per step.  Each     *)
(* pass visits every job of the Go map once, in an order nobody controls,  *)
(* and reads the statuses as the earlier visits left them.  It runs with   *)
(* e.mu held, on a settled table in which one job has just changed.        *)
(***************************************************************************)
EXTENDS JobStatus

VARIABLES
  st,      \* the statuses, being rewritten
  dp,      \* the dependencies, constant during the loop
  from,    \* the table the loop started from
  todo,    \* jobs this pass has not visited yet
  changed, \* the loop variable of the code
  ended    \* the loop has been left

loopVars == <<st, dp, from, todo, changed, ended>>

\* What CompleteJobAttempt, CancelJob or the retry of SubmitJob turns job j into.
Changes(base, j) ==
  IF base[j] \in InFlight THEN {"done", "failed"}
  ELSE IF base[j] \in Waiting THEN {"cancelled"}
  ELSE IF base[j] \in {"failed", "cancelled"} THEN {ComputeStatus(base, dp[j])}
  ELSE {}

LoopInit ==
  /\ dp \in [Jobs -> SUBSET Jobs] /\ AcyclicIn(dp)
  /\ from \in
       {f \in [Jobs -> Status \ {Absent}] :
          \E j \in Jobs, old \in Status \ {Absent} :
            LET base == [f EXCEPT ![j] = old]
            IN  f[j] \in Changes(base, j) /\ Settled(WaitingIn(base), base, dp)}
  /\ st = from
  /\ todo = Jobs /\ changed = FALSE /\ ended = FALSE

\* Mutant: a verdict that is the same counts as a change.
VisitAlwaysChanges(j) ==
  /\ j \in todo
  /\ todo' = todo \ {j}
  /\ IF st[j] \in Waiting
     THEN st' = [st EXCEPT ![j] = ComputeStatus(st, dp[j])] /\ changed' = TRUE
     ELSE UNCHANGED <<st, changed>>
  /\ UNCHANGED <<dp, from, ended>>

\* One turn of the inner loop.
Visit(j) ==
  /\ j \in todo
  /\ todo' = todo \ {j}
  /\ IF st[j] \in Waiting /\ st[j] # ComputeStatus(st, dp[j])
     THEN st' = [st EXCEPT ![j] = ComputeStatus(st, dp[j])] /\ changed' = TRUE
     ELSE UNCHANGED <<st, changed>>
  /\ UNCHANGED <<dp, from, ended>>

\* Mutant: one pass is enough.
EndPassOnce ==
  /\ todo = {} /\ ~ended
  /\ ended' = TRUE /\ changed' = FALSE
  /\ UNCHANGED <<st, dp, from, todo>>

\* The pass is over: another one when something changed.
EndPass ==
  /\ todo = {} /\ ~ended
  /\ IF changed THEN todo' = Jobs /\ UNCHANGED ended ELSE ended' = TRUE /\ UNCHANGED todo
  /\ changed' = FALSE
  /\ UNCHANGED <<st, dp, from>>

LoopNext == (\E j \in Jobs : Visit(j)) \/ EndPass

LoopSpec == LoopInit /\ [][LoopNext]_loopVars

\* The goroutine that holds the lock runs on.
LoopFairness == WF_loopVars(LoopNext)

-----------------------------------------------------------------------------
LoopTyped ==
  /\ st \in [Jobs -> Status] /\ from \in [Jobs -> Status]
  /\ dp \in [Jobs -> SUBSET Jobs]
  /\ todo \in SUBSET Jobs /\ changed \in BOOLEAN /\ ended \in BOOLEAN

\* The loop is left only when every waiting job has the status its dependencies
\* give it, although a visit reads what the later visits may still change, and
\* it has rewritten waiting jobs only.
EndsSettled ==
  ended => /\ Settled(WaitingIn(st), st, dp)
           /\ \A j \in Jobs \ WaitingIn(from) : st[j] = from[j]
           /\ WaitingIn(st) = WaitingIn(from)

\* The verdicts do not depend on the order of the Go map: the table left behind
\* is the only settled one that can be reached from the first.
OrderDoesNotMatter == ended => Refreshed(from, dp) = {st}

\* The loop ends: verdicts do not chase each other for ever.
Ends == <>ended
=============================================================================
