----------------------------- MODULE Dispatcher -----------------------------
(***************************************************************************)
(* The per-context dispatcher worker of the coordinator                    *)
(* (src/Infernix/Runtime/Pulsar.hs, runDispatcherForContext and below).    *)
(*                                                                         *)
(* Every coordinator process runs one worker per conversation.  A worker   *)
(* replays the retained log through a reader, then joins the context's     *)
(* Failover subscription, folds each delivered event and publishes the     *)
(* head of its queue on the request topic.  The broker remembers, per      *)
(* producer name, the highest sequence id it accepted and drops everything *)
(* at or below it; the sequence id of a request is its prompt's id.        *)
(***************************************************************************)
EXTENDS Conversation

CONSTANTS
  Replica,       \* coordinator processes that may run a worker for the context
  NoReplica,     \* the subscription has no active consumer
  Resubmittable, \* keys whose resubmission the broker no longer deduplicates
  Fault,         \* the kinds of fault that may happen
  MaxLog,        \* bound on the events users put on the log
  MaxFaults      \* bound on the number of faults

FaultKind == {"crash", "session", "publish", "stall"}

ASSUME DispatcherAssumption ==
  /\ NoReplica \notin Replica
  /\ Resubmittable \subseteq Key
  /\ Fault \subseteq FaultKind
  /\ MaxLog \in Nat
  /\ MaxFaults \in Nat

VARIABLES
  log,        \* the conversation topic
  requests,   \* the inference request topic: dispatched envelopes
  requestSeq, \* highest sequence id accepted from producer dispatcher-<context>
  cancels,    \* the engine cancel topic: cancelled prompt ids
  cancelSeq,  \* highest sequence id accepted from producer cancellations-<context>
  acked,      \* messages the Failover subscription has acknowledged
  readPos,    \* last position delivered in the active consumer's session
  nacked,     \* messages of this session waiting for redelivery
  active,     \* the consumer the broker delivers to
  phase,      \* life cycle of each worker
  cursor,     \* replay position of each worker
  seen,       \* ids each worker has folded (seenMessageIdsRef)
  reducer,    \* each worker's projection (reducerStateRef)
  hand,       \* message a worker is handling, 0 for none
  step,       \* where in the handler it is
  faults      \* faults so far

topicVars == <<log, requests, requestSeq, cancels, cancelSeq>>
brokerVars == <<acked, readPos, nacked, active>>
workerVars == <<phase, cursor, seen, reducer, hand, step>>
vars == <<topicVars, brokerVars, workerVars, faults>>

Phase == {"down", "replaying", "joining", "live"}
Step == {"idle", "forward", "dispatch", "ack", "nack"}

\* Prompts on the request topic.
Dispatched == {requests[i].prompt : i \in DOMAIN requests}

Init ==
  /\ log = <<>>
  /\ requests = <<>>
  /\ requestSeq = 0
  /\ cancels = <<>>
  /\ cancelSeq = 0
  /\ acked = {}
  /\ readPos = 0
  /\ nacked = {}
  /\ active = NoReplica
  /\ phase = [r \in Replica |-> "down"]
  /\ cursor = [r \in Replica |-> 0]
  /\ seen = [r \in Replica |-> {}]
  /\ reducer = [r \in Replica |-> InitialReducerState]
  /\ hand = [r \in Replica |-> 0]
  /\ step = [r \in Replica |-> "idle"]
  /\ faults = 0

FaultHappens(kind) ==
  /\ kind \in Fault
  /\ faults < MaxFaults
  /\ faults' = faults + 1

-----------------------------------------------------------------------------
(***************************************************************************)
(* The users and the engines.                                              *)
(***************************************************************************)

\* The browser submits a prompt; the frontend's producer is named after the
\* client key, so a resubmission is normally dropped by the broker.
SubmitPrompt(k) ==
  /\ Len(log) < MaxLog
  /\ \/ \A i \in DOMAIN log : IsPrompt(log[i]) => log[i].key # k
     \/ k \in Resubmittable
  /\ log' = Append(log, PromptEvent(k))
  /\ UNCHANGED <<requests, requestSeq, cancels, cancelSeq, brokerVars, workerVars, faults>>

\* The browser cancels a prompt it has seen; one cancel per prompt survives the
\* broker's deduplication.
CancelPrompt(p) ==
  /\ Len(log) < MaxLog
  /\ IsPrompt(log[p])
  /\ CancelEvent(p) \notin Events(log)
  /\ log' = Append(log, CancelEvent(p))
  /\ UNCHANGED <<requests, requestSeq, cancels, cancelSeq, brokerVars, workerVars, faults>>

\* The result bridge writes the outcome of a dispatched prompt back to the log,
\* at most once per prompt.  Pipeline models how it gets there.
ResultArrives(p) ==
  /\ p \in Dispatched
  /\ ResultEvent(p) \notin Events(log)
  /\ log' = Append(log, ResultEvent(p))
  /\ UNCHANGED <<requests, requestSeq, cancels, cancelSeq, brokerVars, workerVars, faults>>

-----------------------------------------------------------------------------
(***************************************************************************)
(* A worker's start: replay the retained history, then join.               *)
(***************************************************************************)

\* Slip: the worker joins without a replay.
StartWithoutReplay(r) ==
  /\ phase[r] = "down"
  /\ phase' = [phase EXCEPT ![r] = "joining"]
  /\ cursor' = [cursor EXCEPT ![r] = 0]
  /\ UNCHANGED <<topicVars, brokerVars, seen, reducer, hand, step, faults>>

\* Discovery starts a worker for the context with an empty projection.
StartWorker(r) ==
  /\ phase[r] = "down"
  /\ phase' = [phase EXCEPT ![r] = "replaying"]
  /\ cursor' = [cursor EXCEPT ![r] = 0]
  /\ UNCHANGED <<topicVars, brokerVars, seen, reducer, hand, step, faults>>

\* Slip: redelivered messages are folded again.
FoldAgain(r, i) ==
  /\ seen' = [seen EXCEPT ![r] = @ \cup {i}]
  /\ reducer' = [reducer EXCEPT ![r] = StepReducer(@, i, log[i])]

\* Remember message i and fold it.  Remembering comes first, and a message
\* already remembered is not folded again.
FoldOnce(r, i) ==
  IF i \in seen[r]
  THEN UNCHANGED <<seen, reducer>>
  ELSE /\ seen' = [seen EXCEPT ![r] = @ \cup {i}]
       /\ reducer' = [reducer EXCEPT ![r] = StepReducer(@, i, log[i])]

\* The fold of message i changed the projection.
Advances(r, i) == i \notin seen[r] /\ ~IsDropped(reducer[r], log[i])

ReplayFrame(r) ==
  /\ phase[r] = "replaying"
  /\ cursor[r] < Len(log)
  /\ cursor' = [cursor EXCEPT ![r] = @ + 1]
  /\ FoldOnce(r, cursor[r] + 1)
  /\ UNCHANGED <<topicVars, brokerVars, phase, hand, step, faults>>

\* The reader produced nothing for the idle interval: the history is taken to
\* be complete.
ReplayCaughtUp(r) ==
  /\ phase[r] = "replaying"
  /\ cursor[r] = Len(log)
  /\ phase' = [phase EXCEPT ![r] = "joining"]
  /\ UNCHANGED <<topicVars, brokerVars, cursor, seen, reducer, hand, step, faults>>

\* The reader fell silent for the idle interval with history still unread.
ReplayStalls(r) ==
  /\ FaultHappens("stall")
  /\ phase[r] = "replaying"
  /\ cursor[r] < Len(log)
  /\ phase' = [phase EXCEPT ![r] = "joining"]
  /\ UNCHANGED <<topicVars, brokerVars, cursor, seen, reducer, hand, step>>

\* The worker's session on the Failover subscription opens; a session that was
\* lost is reopened with the projection it had.
JoinSubscription(r) ==
  /\ phase[r] = "joining"
  /\ step[r] = "idle"
  /\ phase' = [phase EXCEPT ![r] = "live"]
  /\ UNCHANGED <<topicVars, brokerVars, cursor, seen, reducer, hand, step, faults>>

\* The broker elects a connected worker and redelivers from its cursor.
Promote(r) ==
  /\ active = NoReplica
  /\ phase[r] = "live"
  /\ active' = r
  /\ readPos' = 0
  /\ nacked' = {}
  /\ UNCHANGED <<topicVars, acked, workerVars, faults>>

-----------------------------------------------------------------------------
(***************************************************************************)
(* handleDispatcherMessage.                                                *)
(***************************************************************************)

\* What the broker may hand to the active consumer next: the first message
\* after its read position that is not acknowledged, or a rejected one.
Deliverable(i) ==
  \/ /\ i > readPos
     /\ i \notin acked
     /\ \A j \in DOMAIN log : readPos < j /\ j < i => j \in acked
  \/ i \in nacked

\* Slip: only a prompt triggers a dispatch.
DispatchOnPromptsOnly(r, i) ==
  IF ~Advances(r, i) THEN "ack"
  ELSE IF IsCancel(log[i]) THEN "forward"
  ELSE IF IsPrompt(log[i]) THEN "dispatch"
  ELSE "ack"

\* Slip: a cancel is folded and not forwarded.
CancelsStayLocal(r, i) == IF Advances(r, i) THEN "dispatch" ELSE "ack"

NextStep(r, i) ==
  IF ~Advances(r, i) THEN "ack"
  ELSE IF IsCancel(log[i]) THEN "forward"
  ELSE "dispatch"

Receive(r, i) ==
  /\ active = r
  /\ phase[r] = "live"
  /\ step[r] = "idle"
  /\ Deliverable(i)
  /\ readPos' = IF i > readPos THEN i ELSE readPos
  /\ nacked' = nacked \ {i}
  /\ FoldOnce(r, i)
  /\ hand' = [hand EXCEPT ![r] = i]
  /\ step' = [step EXCEPT ![r] = NextStep(r, i)]
  /\ UNCHANGED <<topicVars, acked, active, phase, cursor, faults>>

\* The broker accepts a cancellation of p unless its producer already sent one
\* with as high a sequence id.
AcceptCancellation(p) ==
  IF p > cancelSeq
  THEN /\ cancels' = Append(cancels, p)
       /\ cancelSeq' = p
  ELSE UNCHANGED <<cancels, cancelSeq>>

\* The engines learn of a cancel event before its successor is dispatched.
ForwardCancellation(r) ==
  /\ step[r] = "forward"
  /\ AcceptCancellation(log[hand[r]].prompt)
  /\ step' = [step EXCEPT ![r] = "dispatch"]
  /\ UNCHANGED <<log, requests, requestSeq, brokerVars, phase, cursor, seen, reducer, hand, faults>>

\* Every publish attempt failed as far as the worker can tell; the broker may
\* have stored the message all the same.
ForwardCancellationFails(r) ==
  /\ FaultHappens("publish")
  /\ step[r] = "forward"
  /\ \/ AcceptCancellation(log[hand[r]].prompt)
     \/ UNCHANGED <<cancels, cancelSeq>>
  /\ step' = [step EXCEPT ![r] = "nack"]
  /\ UNCHANGED <<log, requests, requestSeq, brokerVars, phase, cursor, seen, reducer, hand>>

\* Slip: the request topic does not deduplicate.
AcceptEveryRequest(envelope) ==
  /\ requests' = Append(requests, envelope)
  /\ requestSeq' = envelope.prompt

AcceptRequest(envelope) ==
  IF envelope.prompt > requestSeq
  THEN /\ requests' = Append(requests, envelope)
       /\ requestSeq' = envelope.prompt
  ELSE UNCHANGED <<requests, requestSeq>>

\* Nothing is queued: the event is acknowledged and nothing is published.
DispatchNoOp(r) ==
  /\ step[r] = "dispatch"
  /\ InflightUserPrompts(log, reducer[r]) = {}
  /\ step' = [step EXCEPT ![r] = "ack"]
  /\ UNCHANGED <<topicVars, brokerVars, phase, cursor, seen, reducer, hand, faults>>

\* The head of the queue is published, again after every event while it is in
\* flight: the broker drops the repetitions.
DispatchPrompt(r) ==
  /\ step[r] = "dispatch"
  /\ \E k \in DOMAIN reducer[r].messages :
       /\ IsNextDispatchable(log, reducer[r], k)
       /\ AcceptRequest(EnvelopeFor(reducer[r], k))
  /\ step' = [step EXCEPT ![r] = "ack"]
  /\ UNCHANGED <<log, cancels, cancelSeq, brokerVars, phase, cursor, seen, reducer, hand, faults>>

DispatchPromptFails(r) ==
  /\ FaultHappens("publish")
  /\ step[r] = "dispatch"
  /\ \E k \in DOMAIN reducer[r].messages :
       /\ IsNextDispatchable(log, reducer[r], k)
       /\ \/ AcceptRequest(EnvelopeFor(reducer[r], k))
          \/ UNCHANGED <<requests, requestSeq>>
  /\ step' = [step EXCEPT ![r] = "nack"]
  /\ UNCHANGED <<log, cancels, cancelSeq, brokerVars, phase, cursor, seen, reducer, hand>>

\* The verdict reaches the broker only on a session that is still open.
Acknowledge(r) ==
  /\ step[r] = "ack"
  /\ acked' = IF phase[r] = "live" THEN acked \cup {hand[r]} ELSE acked
  /\ hand' = [hand EXCEPT ![r] = 0]
  /\ step' = [step EXCEPT ![r] = "idle"]
  /\ UNCHANGED <<topicVars, readPos, nacked, active, phase, cursor, seen, reducer, faults>>

NegativeAcknowledge(r) ==
  /\ step[r] = "nack"
  /\ nacked' = IF phase[r] = "live" THEN nacked \cup {hand[r]} ELSE nacked
  /\ hand' = [hand EXCEPT ![r] = 0]
  /\ step' = [step EXCEPT ![r] = "idle"]
  /\ UNCHANGED <<topicVars, acked, readPos, active, phase, cursor, seen, reducer, faults>>

-----------------------------------------------------------------------------
(***************************************************************************)
(* Faults.                                                                 *)
(***************************************************************************)

LeavesSubscription(r) == active' = IF active = r THEN NoReplica ELSE active

\* The websocket session drops; the worker keeps its projection and finishes
\* the message in hand before it reconnects.
SessionLost(r) ==
  /\ FaultHappens("session")
  /\ phase[r] = "live"
  /\ phase' = [phase EXCEPT ![r] = "joining"]
  /\ LeavesSubscription(r)
  /\ UNCHANGED <<topicVars, acked, readPos, nacked, cursor, seen, reducer, hand, step>>

\* The coordinator process dies with everything the worker held.
Crash(r) ==
  /\ FaultHappens("crash")
  /\ phase[r] # "down"
  /\ phase' = [phase EXCEPT ![r] = "down"]
  /\ LeavesSubscription(r)
  /\ seen' = [seen EXCEPT ![r] = {}]
  /\ reducer' = [reducer EXCEPT ![r] = InitialReducerState]
  /\ hand' = [hand EXCEPT ![r] = 0]
  /\ step' = [step EXCEPT ![r] = "idle"]
  /\ UNCHANGED <<topicVars, acked, readPos, nacked, cursor>>

-----------------------------------------------------------------------------
UserStep ==
  \/ \E k \in Key : SubmitPrompt(k)
  \/ \E p \in DOMAIN log : CancelPrompt(p)

Handle(r) ==
  \/ \E i \in DOMAIN log : Receive(r, i)
  \/ ForwardCancellation(r)
  \/ DispatchNoOp(r)
  \/ DispatchPrompt(r)
  \/ Acknowledge(r)
  \/ NegativeAcknowledge(r)

WorkerStep(r) ==
  \/ StartWorker(r)
  \/ ReplayFrame(r)
  \/ ReplayCaughtUp(r)
  \/ JoinSubscription(r)
  \/ Promote(r)
  \/ Handle(r)

FaultStep(r) ==
  \/ ReplayStalls(r)
  \/ ForwardCancellationFails(r)
  \/ DispatchPromptFails(r)
  \/ SessionLost(r)
  \/ Crash(r)

\* Everything but the arrival of results.
DispatcherStep == UserStep \/ \E r \in Replica : WorkerStep(r) \/ FaultStep(r)

Next == DispatcherStep \/ \E p \in Dispatched : ResultArrives(p)

Spec == Init /\ [][Next]_vars
-----------------------------------------------------------------------------
(***************************************************************************)
(* Properties.                                                             *)
(***************************************************************************)

TypeOK ==
  /\ log \in Seq(Event)
  /\ requests \in Seq(InferenceRequestEnvelope)
  /\ requestSeq \in Nat
  /\ cancels \in Seq(MessageId)
  /\ cancelSeq \in Nat
  /\ acked \subseteq DOMAIN log
  /\ readPos \in 0 .. Len(log)
  /\ nacked \subseteq DOMAIN log
  /\ active \in Replica \cup {NoReplica}
  /\ phase \in [Replica -> Phase]
  /\ cursor \in [Replica -> 0 .. Len(log)]
  /\ seen \in [Replica -> SUBSET DOMAIN log]
  /\ reducer \in [Replica -> ReducerState]
  /\ hand \in [Replica -> {0} \cup DOMAIN log]
  /\ step \in [Replica -> Step]
  /\ faults \in 0 .. MaxFaults

\* The worker has finished its replay.
CaughtUp(r) == phase[r] \in {"joining", "live"}

\* Replay joins live consumption without a gap: whatever the subscription will
\* not deliver again, a worker that may decide a dispatch has folded.
NoGap == \A r \in Replica : CaughtUp(r) => acked \subseteq seen[r]

\* A worker's projection is exactly what the log says of the messages it has
\* folded: replay, live delivery, redelivery and restarts leave no trace.
ProjectionIsFaithful == \A r \in Replica : Projects(log, seen[r], reducer[r])

\* Single flight: a prompt is on the request topic only when every prompt the
\* conversation keeps before it is settled in the log.
NoOvertaking ==
  \A p \in Dispatched : \A q \in KeptPrompts(log) : q < p => q \in Resolved(log)

\* One client submission reaches the engines at most once, whatever is
\* resubmitted, redelivered or replayed.
OneDispatchPerKey ==
  \A i, j \in DOMAIN requests :
    i # j => log[requests[i].prompt].key # log[requests[j].prompt].key

\* The oldest unsettled prompt the conversation keeps is on the request topic.
HeadDispatched ==
  \A p \in KeptPrompts(log) \ Resolved(log) :
    (\A q \in KeptPrompts(log) \ Resolved(log) : p <= q) => p \in Dispatched

\* No lost work: once every event of the log is acknowledged, the head of the
\* queue has been dispatched.
WorkConserving == acked = DOMAIN log => HeadDispatched

\* The worker folded an event after its replay.
FoldedLive(r) == \E k \in DOMAIN reducer[r].messages : reducer[r].messages[k] > cursor[r]

\* No lost work, as far as it goes: an event that reaches the worker after its
\* replay brings the head of the queue with it.
LiveEventRestoresWork ==
  \A r \in Replica : CaughtUp(r) /\ FoldedLive(r) /\ acked = DOMAIN log => HeadDispatched

\* A prompt that was cancelled while in flight is announced to the engines
\* before its successor is dispatched: the cancel topic's producer has reached
\* its sequence id.
CancelPrecedesSuccessor ==
  \A i, j \in DOMAIN requests :
    LET p == requests[i].prompt
    IN i < j /\ ResultEvent(p) \notin Events(log) => cancelSeq >= p

\* Every cancel event a worker handled after its replay is on the engine cancel
\* topic.
CancelReachesEngines ==
  \A r \in Replica : \A i \in acked :
    CaughtUp(r) /\ i > cursor[r] /\ IsCancel(log[i]) =>
      log[i].prompt \in {cancels[k] : k \in DOMAIN cancels}

\* A prompt that reaches the worker after its replay is eventually settled:
\* two prompts in a row queue, the second is dispatched when the first is
\* settled, and work the replay left behind goes first.  It holds under the
\* fairness of Pipeline's consumers.
LivePromptSettles ==
  \A p \in 1 .. MaxLog :
    (p \in KeptPrompts(log) /\ \E r \in Replica : CaughtUp(r) /\ p > cursor[r])
      ~> p \in Resolved(log)
=============================================================================
