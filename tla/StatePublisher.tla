---------------------------- MODULE StatePublisher ----------------------------
(***************************************************************************)
(* The publisher of the state of the queue on MQTT (mqttstate.go, the      *)
(* document of state.go): a goroutine that looks at the queue every        *)
(* interval and publishes the document, retained, when it changed or when  *)
(* the last publication is old.                                            *)
(*                                                                         *)
(* Each message goes over a connection of its own, at QoS 0: nobody        *)
(* confirms it.  It may get lost after the publisher has closed the        *)
(* connection, or be handled after a later one.  A document is a name.     *)
(***************************************************************************)
EXTENDS Naturals

CONSTANTS
  Documents,   \* what State() may answer
  MaxFaults    \* bound: what goes wrong at the broker, and starts of the process

Nothing == "nothing"

ASSUME PublisherAssumption == Nothing \notin Documents /\ MaxFaults \in Nat

VARIABLES
  shown,     \* the document that State() answers now
  lastSent,      \* payload of the last publication
  old,       \* it is at least Refresh ago
  sending,   \* the payload that publishOnce is called with
  wires,     \* messages written that the broker has not handled
  retained,  \* the retained message of the topic
  running,   \* "yes", "stopping" (stop is closed), "no" (done is closed)
  faults     \* counts Fault

publisherVars == <<shown, lastSent, old, sending, wires, retained, running, faults>>

PublisherInit ==
  /\ shown \in Documents
  /\ lastSent = Nothing /\ old = TRUE /\ sending = Nothing
  /\ wires = {} /\ retained = Nothing
  /\ running = "yes" /\ faults = 0

-----------------------------------------------------------------------------
Fault == faults < MaxFaults /\ faults' = faults + 1

\* The queue changes.
ShowAnother(d) ==
  /\ d # shown
  /\ shown' = d
  /\ UNCHANGED <<lastSent, old, sending, wires, retained, running, faults>>

\* refresh_seconds have passed since the last publication.
GrowOld ==
  /\ ~old
  /\ old' = TRUE
  /\ UNCHANGED <<shown, lastSent, sending, wires, retained, running, faults>>

\* Mutant: a state that did not change is not published again.
WorthChanged == shown # lastSent

\* Tick publishes what it sees.
Worth == shown # lastSent \/ old

\* The ticker: the loop goes on also when stop was closed meanwhile, since a
\* select with two ready cases takes either.
LookAtQueue ==
  /\ running # "no" /\ sending = Nothing
  /\ Worth
  /\ sending' = shown
  /\ UNCHANGED <<shown, lastSent, old, wires, retained, running, faults>>

\* publishOnce has written the message and ends well.  How long ago that was is
\* counted from when the queue was looked at, so it may be old already.
Published(late) ==
  /\ sending # Nothing
  /\ wires' = wires \cup {sending}
  /\ lastSent' = sending /\ old' = late
  /\ sending' = Nothing
  /\ UNCHANGED <<shown, retained, running, faults>>

\* It ends with an error, before the message was written or after it.
NotPublished(written) ==
  /\ sending # Nothing /\ Fault
  /\ wires' = IF written THEN wires \cup {sending} ELSE wires
  /\ sending' = Nothing
  /\ UNCHANGED <<shown, lastSent, old, retained, running>>

\* Stop, and the select that sees it.
AskToStop ==
  /\ running = "yes"
  /\ running' = "stopping"
  /\ UNCHANGED <<shown, lastSent, old, sending, wires, retained, faults>>

EndPublisher ==
  /\ running = "stopping" /\ sending = Nothing
  /\ running' = "no"
  /\ UNCHANGED <<shown, lastSent, old, sending, wires, retained, faults>>

\* Another process starts, with a queue of its own, that has published nothing.
StartPublisher(d) ==
  /\ Fault
  /\ shown' = d
  /\ lastSent' = Nothing /\ old' = TRUE /\ sending' = Nothing /\ running' = "yes"
  /\ UNCHANGED <<wires, retained>>

-----------------------------------------------------------------------------
\* The broker: messages arrive in any order, or not at all.
Arrive(d) ==
  /\ d \in wires
  /\ wires' = wires \ {d}
  /\ retained' = d
  /\ UNCHANGED <<shown, lastSent, old, sending, running, faults>>

GetLost(d) ==
  /\ d \in wires /\ Fault
  /\ wires' = wires \ {d}
  /\ UNCHANGED <<shown, lastSent, old, sending, retained, running>>

\* The broker loses what it retained.
Forget ==
  /\ Fault
  /\ retained' = Nothing
  /\ UNCHANGED <<shown, lastSent, old, sending, wires, running>>

PublisherNext ==
  \/ \E d \in Documents : ShowAnother(d) \/ StartPublisher(d)
  \/ GrowOld
  \/ LookAtQueue
  \/ \E late \in BOOLEAN : Published(late)
  \/ \E written \in BOOLEAN : NotPublished(written)
  \/ AskToStop
  \/ EndPublisher
  \/ \E d \in Documents : Arrive(d) \/ GetLost(d)
  \/ Forget

\* Time passes, the ticker ticks, publishOnce ends within its deadlines, and the
\* broker handles what it has got.
PublisherFairness ==
  /\ WF_publisherVars(GrowOld)
  /\ WF_publisherVars(LookAtQueue)
  /\ WF_publisherVars(Published(FALSE))
  /\ \A d \in Documents : WF_publisherVars(Arrive(d))

PublisherSpec == PublisherInit /\ [][PublisherNext]_publisherVars /\ PublisherFairness

-----------------------------------------------------------------------------
\* What readers get from the broker becomes what the queue is, once the queue
\* rests and the publisher runs, and stays so: also when messages were refused,
\* lost or overtook one another, or the broker lost what it retained,
\* as long as that happens no more.
RetainedCatchesUp ==
  \A d \in Documents :
    <>[](shown = d /\ running = "yes") => <>[](retained = d)
=============================================================================
