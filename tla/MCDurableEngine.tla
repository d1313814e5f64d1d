--------------------------- MODULE MCDurableEngine ---------------------------
(***************************************************************************)
(* Small instances of DurableEngine for TLC: the submissions, reports and  *)
(* replanning configurations of its configuration files.                   *)
(***************************************************************************)
EXTENDS DurableEngine

Request(j, k, D) ==
  [id |-> j, key |-> k, deps |-> D,
   ask |-> [priority |-> 1, tool |-> NoTool, location |-> NoLocation]]

\* A first job that a second one waits for, and retries of both.
StageRequests == { Request("a", "ka", {}), Request("b", "kb", {"a"}) }

\* One job, archived and submitted again under the same id and key.
OneRequest == { Request("a", "ka", {}) }

\* Two jobs that wait for nothing.
PairRequests == { Request("a", "ka", {}), Request("b", NoKey, {}) }

Report(r, stop, free) ==
  [robot |-> r, tool |-> Keep, location |-> Keep, stopCapable |-> stop, available |-> free]

\* Robots that only say whether they are ready.
PlainReports == {Report(r, Keep, free) : r \in Robots, free \in BOOLEAN}

\* Robots of which the first may declare that it can stop.
StopReports == PlainReports \cup {Report(1, TRUE, TRUE)}

NoReplan == [enabled |-> FALSE, onStale |-> FALSE, onFault |-> FALSE,
             allowUnconfirmed |-> FALSE]
FullReplan == [enabled |-> TRUE, onStale |-> TRUE, onFault |-> TRUE,
               allowUnconfirmed |-> FALSE]

Off == {NoReplan}
Full == {FullReplan}
Reloaded == {NoReplan, FullReplan}

NoCosts == [p \in {} |-> 0]
=============================================================================
