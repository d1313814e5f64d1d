----------------------------- MODULE MCServices -----------------------------
(***************************************************************************)
(* Small instances, for TLC, of the services that run in goroutines of     *)
(* their own beside the queue.  They share no state with one another, so a *)
(* behaviour in which all of them move is one of each, interleaved: here   *)
(* one service, the subject, moves and the others stay as they began.      *)
(***************************************************************************)
EXTENDS EventHub, AsyncSink, HealthService, StatePublisher

CONSTANT Subjects

VARIABLE subject

vars == <<subject, hubVars, sinkVars, healthVars, publisherVars>>

\* A publisher that was stopped.
PublisherAtRest ==
  /\ shown = CHOOSE d \in Documents : TRUE
  /\ lastSent = Nothing /\ old = TRUE /\ sending = Nothing
  /\ wires = {} /\ retained = Nothing
  /\ running = "no" /\ faults = 0

Init ==
  /\ subject \in Subjects
  /\ HubInit /\ SinkInit /\ HealthInit
  /\ IF subject = "state" THEN PublisherInit ELSE PublisherAtRest

Next ==
  \/ subject = "events" /\ HubNext
       /\ UNCHANGED <<subject, sinkVars, healthVars, publisherVars>>
  \/ subject = "production" /\ SinkNext
       /\ UNCHANGED <<subject, hubVars, healthVars, publisherVars>>
  \/ subject = "health" /\ HealthNext
       /\ UNCHANGED <<subject, hubVars, sinkVars, publisherVars>>
  \/ subject = "state" /\ PublisherNext
       /\ UNCHANGED <<subject, hubVars, sinkVars, healthVars>>

\* The services at rest have nothing to do: no fair action of theirs is enabled.
Spec ==
  /\ Init /\ [][Next]_vars
  /\ HubFairness /\ HealthFairness /\ PublisherFairness
=============================================================================
