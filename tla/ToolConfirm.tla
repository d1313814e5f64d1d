---------------------------- MODULE ToolConfirm ----------------------------
(***************************************************************************)
(* The physical confirmation of the tool (toolconfirm.go) and what a pass  *)
(* of POST /dispatch makes of it: ConfirmTools asks the controllers of the *)
(* free robots without the lock of the engine, keeps the answers with the  *)
(* lock, and DispatchOnce reads them later with the lock again.  Several   *)
(* calls overlap.  The setting is read at start and is on; what else       *)
(* decides who gets a job is in JobEngine.                                 *)
(***************************************************************************)
EXTENDS Integers, FiniteSets

CONSTANTS
  Carriers,    \* robots
  Heads,       \* tools
  Calls,      \* calls of POST /dispatch
  Lifetime,    \* ttl_seconds
  MaxPasses,   \* bound: confirmation passes that end
  MaxNow       \* bound: the clock

ASSUME ConfirmAssumption ==
  Lifetime \in Nat /\ MaxPasses \in Nat /\ MaxNow \in Nat

Silence == "silence"
Nothing == [tool |-> Silence, at |-> 0]

VARIABLES
  unconfirmed, \* OnUnconfirmed: "skip" or "allow"
  standing,    \* "free" (registered and available), "busy", "removed"
  seen,        \* what is kept: per robot [tool, at], or Nothing
  call,        \* per call: "idle", "asking", "dispatching"
  asking,      \* ids: the robots it asks
  answers,     \* of those asked so far: [tool, heard], tool Silence if the call failed
  tick,        \* the clock of the engine
  passes,       \* how many passes have ended
  began,       \* ghost: how many had ended when a call began
  words        \* ghost: per robot, the answers of the passes that ended

confirmVars == <<unconfirmed, standing, seen, call, asking, answers, tick, passes, began,
                 words>>

ConfirmInit ==
  /\ unconfirmed \in {"skip", "allow"}
  /\ standing = [r \in Carriers |-> "free"]
  /\ seen = [r \in Carriers |-> Nothing]
  /\ call = [p \in Calls |-> "idle"] /\ asking = [p \in Calls |-> {}]
  /\ answers = [p \in Calls |-> <<>>]
  /\ tick = 0 /\ passes = 0 /\ began = [p \in Calls |-> 0]
  /\ words = [r \in Carriers |-> {}]

-----------------------------------------------------------------------------
(* ConfirmTools. *)

StartAsking(p) ==
  /\ call[p] = "idle" /\ passes < MaxPasses
  /\ call' = [call EXCEPT ![p] = "asking"]
  /\ asking' = [asking EXCEPT ![p] = {r \in Carriers : standing[r] = "free"}]
  /\ answers' = [answers EXCEPT ![p] = <<>>]
  /\ began' = [began EXCEPT ![p] = passes]
  /\ UNCHANGED <<unconfirmed, standing, seen, tick, passes, words>>

\* fetch, one robot after the other; its tool may have been changed since it was asked last.
Ask(p, r) ==
  /\ call[p] = "asking" /\ r \in asking[p] \ DOMAIN answers[p]
  /\ \E tool \in Heads \cup {Silence} :
       answers' = [answers EXCEPT ![p] =
         [s \in DOMAIN answers[p] \cup {r} |->
            IF s = r THEN [tool |-> tool, heard |-> tick] ELSE answers[p][s]]]
  /\ UNCHANGED <<unconfirmed, standing, seen, call, asking, tick, passes, began, words>>

\* Mutant: who does not answer keeps the confirmation it had.
RememberedUnlessAnswered(p, r) ==
  IF r \in asking[p] /\ answers[p][r].tool # Silence
  THEN [tool |-> answers[p][r].tool, at |-> tick]
  ELSE IF standing[r] = "removed" THEN Nothing ELSE seen[r]

\* What is kept of r: the answer, nothing after silence; one that was not asked keeps
\* what it had while it is registered.
Remembered(p, r) ==
  IF r \in asking[p]
  THEN IF answers[p][r].tool = Silence THEN Nothing
       ELSE [tool |-> answers[p][r].tool, at |-> tick]
  ELSE IF standing[r] = "removed" THEN Nothing ELSE seen[r]

KeepAnswers(p) ==
  /\ call[p] = "asking" /\ asking[p] = DOMAIN answers[p] /\ passes < MaxPasses
  /\ seen' = [r \in Carriers |-> Remembered(p, r)]
  /\ passes' = passes + 1
  /\ words' = [r \in Carriers |->
       IF r \in asking[p]
       THEN words[r] \cup {[tool |-> answers[p][r].tool, heard |-> answers[p][r].heard,
                            at |-> tick, number |-> passes', after |-> began[p]]}
       ELSE words[r]]
  /\ call' = [call EXCEPT ![p] = "dispatching"]
  /\ asking' = [asking EXCEPT ![p] = {}] /\ answers' = [answers EXCEPT ![p] = <<>>]
  /\ began' = [began EXCEPT ![p] = 0]
  /\ UNCHANGED <<unconfirmed, standing, tick>>

-----------------------------------------------------------------------------
(* DispatchOnce, for one job that needs the tool t; the declared tool may be any. *)

\* toolConfirmedLocked.
MayTake(r, t) ==
  IF seen[r].tool # Silence /\ tick - seen[r].at <= Lifetime /\ seen[r].at <= tick
  THEN seen[r].tool = t
  ELSE unconfirmed = "allow"

Give(p, r, t) ==
  /\ call[p] = "dispatching" /\ standing[r] = "free" /\ MayTake(r, t)
  /\ standing' = [standing EXCEPT ![r] = "busy"]
  /\ call' = [call EXCEPT ![p] = "idle"]
  /\ UNCHANGED <<unconfirmed, seen, asking, answers, tick, passes, began, words>>

GiveNothing(p) ==
  /\ call[p] = "dispatching"
  /\ call' = [call EXCEPT ![p] = "idle"]
  /\ UNCHANGED <<unconfirmed, standing, seen, asking, answers, tick, passes, began, words>>

-----------------------------------------------------------------------------
(* The robots and the clock. *)

\* UpdateRobot and RemoveRobot, which leave what is kept alone.
Stand(r) ==
  /\ \E s \in {"free", "busy", "removed"} \ {standing[r]} :
       standing' = [standing EXCEPT ![r] = s]
  /\ UNCHANGED <<unconfirmed, seen, call, asking, answers, tick, passes, began, words>>

ConfirmTick ==
  /\ tick < MaxNow /\ tick' = tick + 1
  /\ UNCHANGED <<unconfirmed, standing, seen, call, asking, answers, passes, began, words>>

ConfirmNext ==
  \/ \E p \in Calls : StartAsking(p) \/ KeepAnswers(p) \/ GiveNothing(p)
  \/ \E p \in Calls, r \in Carriers : Ask(p, r) \/ \E t \in Heads : Give(p, r, t)
  \/ \E r \in Carriers : Stand(r)
  \/ ConfirmTick

ConfirmSpec == ConfirmInit /\ [][ConfirmNext]_confirmVars

-----------------------------------------------------------------------------

\* The answers for r that no pass has taken back which began after they were kept.
Unrevoked(r) == {w \in words[r] : ~\E v \in words[r] : v.after >= w.number}

(***************************************************************************)
(* With "skip", a job that needs a tool goes only to a robot whose         *)
(* controller named that tool in a pass that ended within the lifetime,    *)
(* and no later pass has asked that robot again, from beginning to end,    *)
(* and heard something else or nothing (ConfirmTools of one call between   *)
(* those of others and the dispatch).                                      *)
(***************************************************************************)
LastWord ==
  [][\A p \in Calls, r \in Carriers, t \in Heads :
       unconfirmed = "skip" /\ Give(p, r, t) =>
         \E w \in Unrevoked(r) : w.tool = t /\ tick - w.at <= Lifetime]_confirmVars

(***************************************************************************)
(* With "skip", a robot whose answer is older than the lifetime is not     *)
(* offered a job that needs a tool (API.md:511).                           *)
(***************************************************************************)
AnswersAreRecent ==
  [][\A p \in Calls, r \in Carriers, t \in Heads :
       unconfirmed = "skip" /\ Give(p, r, t) =>
         \E w \in words[r] : w.tool = t /\ tick - w.heard <= Lifetime]_confirmVars

=============================================================================
