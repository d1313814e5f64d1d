----------------------------- MODULE MCJobEngine -----------------------------
(***************************************************************************)
(* Small instances of JobEngine for TLC.  Each configuration file picks    *)
(* one of the sets of submissions, reports and replanning configurations.  *)
(***************************************************************************)
EXTENDS JobEngine

Ask(p, t) == [priority |-> p, tool |-> t, location |-> NoLocation]

Request(j, k, p, t, D) == [id |-> j, key |-> k, ask |-> Ask(p, t), deps |-> D]

\* A chain that retries may turn around: a first, b after a, c after b, and
\* retries that name other dependencies (one of them would close a cycle).
ChainRequests ==
  { Request("a", "ka", 1, NoTool, {}),
    Request("a", "ka", 1, NoTool, {"b"}),
    Request("b", "kb", 1, NoTool, {"a"}),
    Request("b", "kb", 1, NoTool, {}),
    Request("c", NoKey, 1, NoTool, {"a", "b"}) }

\* Two jobs that compete: the later one is more urgent and needs a tool.
RivalRequests ==
  { Request("a", "ka", 1, NoTool, {}),
    Request("b", NoKey, 2, "welder", {}) }

\* One job, submitted again when it failed.
OneRequest == { Request("a", "ka", 1, NoTool, {}) }

\* Two jobs that robots lose and get again; one may be retried.
PairRequests ==
  { Request("a", "ka", 1, NoTool, {}),
    Request("b", NoKey, 1, NoTool, {}) }

Report(r, t, stop, free) ==
  [robot |-> r, tool |-> t, location |-> Keep, stopCapable |-> stop, available |-> free]

\* Robots that only say whether they are ready.
PlainReports == {Report(r, Keep, Keep, free) : r \in Robots, free \in BOOLEAN}

\* Robots that also send a bare heartbeat and may declare that they can stop.
StopReports ==
  {Report(r, Keep, Keep, free) : r \in Robots, free \in BOOLEAN \cup {Keep}}
    \cup {Report(r, Keep, TRUE, TRUE) : r \in Robots}

\* As above, where only robot 1 ever has the tool.
RivalReports ==
  {[p EXCEPT !.tool = IF p.robot = 1 THEN "welder" ELSE NoTool] : p \in StopReports}

NoReplan == [enabled |-> FALSE, onStale |-> FALSE, onFault |-> FALSE,
             allowUnconfirmed |-> FALSE]
FullReplan == [enabled |-> TRUE, onStale |-> TRUE, onFault |-> TRUE,
               allowUnconfirmed |-> FALSE]
EagerReplan == [FullReplan EXCEPT !.allowUnconfirmed = TRUE]

Off == {NoReplan}
Full == {FullReplan}
Reloaded == {NoReplan, FullReplan}
AllReplan == {NoReplan, FullReplan, EagerReplan}

NoCosts == [p \in {} |-> 0]
=============================================================================
