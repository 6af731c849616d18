---------------------------- MODULE Pipeline_proofs ----------------------------
(***************************************************************************)
(* The inference path, for any engines, admission rule and faults: its     *)
(* variables keep their types, and it is the environment the dispatcher    *)
(* assumes.  Where single flight holds, nothing on it is lost.             *)
(***************************************************************************)
EXTENDS Pipeline, Dispatcher_proofs

HopTypeOK ==
  /\ reqAcked \subseteq DOMAIN requests
  /\ batch \in Seq(MessageId)
  /\ batchSeq \in Nat
  /\ batchAcked \subseteq DOMAIN batch
  /\ lent \subseteq DOMAIN batch \ batchAcked
  /\ job \in [Engine -> {0} \cup DOMAIN batch]
  /\ results \in Seq(MessageId)
  /\ resultSeq \in Nat
  /\ rejectionSeq \in Nat
  /\ resAcked \subseteq DOMAIN results
  /\ bridgeSeq \in Nat
  /\ cancelPos \in 0 .. Len(cancels)
  /\ interrupted \subseteq Engine
  /\ hopFaults \in 0 .. MaxHopFaults

\* The path carries dispatched prompts only, and the log no result beyond the
\* bridge's sequence id.
PathInv ==
  /\ \A i \in DOMAIN batch : batch[i] \in Dispatched
  /\ \A j \in DOMAIN results : results[j] \in Dispatched
  /\ \A i \in DOMAIN log : log[i].kind = "result" => log[i].prompt <= bridgeSeq

\* A producer's sequence id is that of a message of its topic.
Published(topic, seq) == seq = 0 \/ \E k \in DOMAIN topic : topic[k] = seq

\* The bridge's is that of a dispatched prompt whose result is in the log.
Bridged == bridgeSeq \in Dispatched /\ ResultEvent(bridgeSeq) \in Events(log)

\* What is acknowledged on one topic is no later than what was published on the
\* next.
HandedOn ==
  /\ Published(batch, batchSeq)
  /\ Published(results, resultSeq)
  /\ Published(results, rejectionSeq)
  /\ bridgeSeq = 0 \/ Bridged
  /\ \A i \in reqAcked :
       requests[i].prompt <= batchSeq \/ requests[i].prompt <= rejectionSeq
  /\ \A i \in batchAcked : batch[i] <= resultSeq
  /\ \A j \in resAcked : results[j] <= bridgeSeq

PInv == TypeInv /\ HopTypeOK /\ PathInv /\ HandedOn

-----------------------------------------------------------------------------
(***************************************************************************)
(* What every step does to the topics.                                     *)
(***************************************************************************)

\* A topic is only appended to.
Grows(old, new) ==
  /\ DOMAIN old \subseteq DOMAIN new
  /\ \A i \in DOMAIN old : new[i] = old[i]

LEMMA AppendGrows ==
  ASSUME NEW S, NEW old \in Seq(S), NEW x \in S
  PROVE  /\ Append(old, x) \in Seq(S)
         /\ Grows(old, Append(old, x))
         /\ DOMAIN Append(old, x) = DOMAIN old \cup {Len(old) + 1}
         /\ Append(old, x)[Len(old) + 1] = x
         /\ Len(Append(old, x)) = Len(old) + 1
BY DEF Grows

\* A deduplicating producer publishes p on a topic: the topic then holds the
\* message of its sequence id, and p is no later.
LEMMA Publish ==
  ASSUME NEW topic \in Seq(MessageId), NEW seq \in Nat, NEW p \in MessageId,
         NEW newTopic, NEW newSeq,
         IF p > seq THEN newTopic = Append(topic, p) /\ newSeq = p
                    ELSE newTopic = topic /\ newSeq = seq
  PROVE  /\ newTopic \in Seq(MessageId) /\ newSeq \in Nat
         /\ seq <= newSeq /\ p <= newSeq
         /\ Grows(topic, newTopic)
         /\ \A k \in DOMAIN newTopic : k \in DOMAIN topic \/ newTopic[k] = p
         /\ Published(topic, seq) => Published(newTopic, newSeq)
<1>1. p \in Nat
  BY DEF MessageId
<1>2. CASE p > seq
  <2>1. newTopic = Append(topic, p) /\ newSeq = p
    BY <1>2
  <2> QED
    BY <1>1, <1>2, <2>1, AppendGrows DEF Published
<1>3. CASE ~ (p > seq)
  BY <1>1, <1>3 DEF Grows
<1> QED
  BY <1>2, <1>3

\* A sequence id stays that of a message while its topic grows.
LEMMA GrownPublished ==
  ASSUME NEW topic, NEW newTopic, Grows(topic, newTopic), NEW seq, Published(topic, seq)
  PROVE  Published(newTopic, seq)
BY DEF Published, Grows

\* A step of the dispatcher extends the log, by no result, the requests and the
\* cancellations.
LEMMA DispatcherGrows ==
  ASSUME TypeInv, DispatcherStep
  PROVE  /\ Grows(log, log') /\ Grows(requests, requests') /\ Len(cancels) <= Len(cancels')
         /\ \A i \in DOMAIN log' : i \in DOMAIN log \/ log'[i].kind # "result"
<1>1. /\ log \in Seq(Event) /\ requests \in Seq(InferenceRequestEnvelope)
      /\ cancels \in Seq(MessageId)
  BY DEF TypeInv, TypeOK
<1>2. ASSUME UNCHANGED <<log, requests, cancels>>
      PROVE  /\ Grows(log, log') /\ Grows(requests, requests') /\ Len(cancels) <= Len(cancels')
             /\ \A i \in DOMAIN log' : i \in DOMAIN log
  BY <1>1, <1>2 DEF Grows
<1>3. ASSUME NEW e \in Event, e.kind # "result", log' = Append(log, e),
             UNCHANGED <<requests, cancels>>
      PROVE  /\ Grows(log, log') /\ Grows(requests, requests') /\ Len(cancels) <= Len(cancels')
             /\ \A i \in DOMAIN log' : i \in DOMAIN log \/ log'[i].kind # "result"
  <2>1. /\ Grows(log, log')
        /\ DOMAIN log' = DOMAIN log \cup {Len(log) + 1}
        /\ log'[Len(log) + 1] = e
    BY <1>1, <1>3, AppendGrows
  <2> QED
    BY <1>1, <1>3, <2>1 DEF Grows
<1>4. ASSUME NEW k \in Key, SubmitPrompt(k)
      PROVE  log' = Append(log, PromptEvent(k)) /\ UNCHANGED <<requests, cancels>>
  BY <1>4 DEF SubmitPrompt
<1>5. ASSUME NEW k \in Key
      PROVE  PromptEvent(k) \in Event /\ PromptEvent(k).kind # "result"
  BY DEF PromptEvent, Event
<1>6. ASSUME NEW p \in DOMAIN log
      PROVE  CancelEvent(p) \in Event /\ CancelEvent(p).kind # "result"
  BY <1>1 DEF CancelEvent, Event, MessageId
<1>7. ASSUME NEW p \in DOMAIN log, CancelPrompt(p)
      PROVE  log' = Append(log, CancelEvent(p)) /\ UNCHANGED <<requests, cancels>>
  BY <1>7 DEF CancelPrompt
<1>8. ASSUME NEW r \in Replica, WorkerStep(r) \/ FaultStep(r)
      PROVE  /\ Grows(log, log') /\ Grows(requests, requests') /\ Len(cancels) <= Len(cancels')
             /\ \A i \in DOMAIN log' : i \in DOMAIN log
  <2>1. CASE ForwardCancellation(r) \/ ForwardCancellationFails(r)
    <3>1. log[hand[r]].prompt \in MessageId
      <4>1. step[r] = "forward"
        BY <2>1 DEF ForwardCancellation, ForwardCancellationFails
      <4>2. hand[r] \in DOMAIN log /\ IsCancel(log[hand[r]])
        BY <4>1 DEF TypeInv, TypeOK, HandInv
      <4>3. log[hand[r]] \in Event
        BY <1>1, <4>2
      <4> QED
        BY <4>2, <4>3, EventFields
    <3>2. cancels' = cancels \/ cancels' = Append(cancels, log[hand[r]].prompt)
      BY <2>1 DEF ForwardCancellation, ForwardCancellationFails, AcceptCancellation
    <3>3. UNCHANGED <<log, requests>>
      BY <2>1 DEF ForwardCancellation, ForwardCancellationFails
    <3>4. Len(cancels) <= Len(cancels')
      BY <1>1, <3>1, <3>2, AppendGrows
    <3> QED
      BY <3>3, <3>4 DEF Grows
  <2>2. CASE DispatchPrompt(r) \/ DispatchPromptFails(r)
    <3>1. \/ requests' = requests
          \/ \E k \in DOMAIN reducer[r].messages :
               requests' = Append(requests, EnvelopeFor(reducer[r], k))
      BY <2>2 DEF DispatchPrompt, DispatchPromptFails, AcceptRequest
    <3>2. Grows(requests, requests')
      <4>1. reducer[r] \in ReducerState
        BY DEF TypeInv, TypeOK
      <4> QED
        BY <1>1, <3>1, <4>1, EnvelopeType, AppendGrows DEF Grows
    <3>3. UNCHANGED <<log, cancels>>
      BY <2>2 DEF DispatchPrompt, DispatchPromptFails
    <3> QED
      BY <1>1, <3>2, <3>3 DEF Grows
  <2>3. CASE UNCHANGED <<log, requests, cancels>>
    BY <1>2, <2>3
  <2> QED
    BY <1>8, <2>1, <2>2, <2>3
    DEF WorkerStep, FaultStep, Handle, topicVars, StartWorker, ReplayFrame, ReplayCaughtUp,
        JoinSubscription, Promote, Receive, DispatchNoOp, Acknowledge, NegativeAcknowledge,
        ReplayStalls, SessionLost, Crash
<1> QED
  BY <1>3, <1>4, <1>5, <1>6, <1>7, <1>8 DEF DispatcherStep, UserStep

-----------------------------------------------------------------------------
(***************************************************************************)
(* The invariant.                                                          *)
(***************************************************************************)

\* What a step of the path may do: append dispatched prompts to its topics,
\* move sequence ids on, and acknowledge what was handed on.
Progress ==
  /\ HopTypeOK'
  /\ Grows(log, log') /\ Grows(requests, requests')
  /\ Grows(batch, batch') /\ Grows(results, results')
  /\ batchSeq <= batchSeq' /\ resultSeq <= resultSeq'
  /\ rejectionSeq <= rejectionSeq' /\ bridgeSeq <= bridgeSeq'
  /\ \A i \in DOMAIN batch' : i \in DOMAIN batch \/ batch'[i] \in Dispatched
  /\ \A j \in DOMAIN results' : j \in DOMAIN results \/ results'[j] \in Dispatched
  /\ \A i \in DOMAIN log' :
       i \in DOMAIN log \/ (log'[i].kind = "result" => log'[i].prompt <= bridgeSeq')
  /\ Published(batch', batchSeq')
  /\ Published(results', resultSeq')
  /\ Published(results', rejectionSeq')
  /\ bridgeSeq' = bridgeSeq \/ Bridged'
  /\ \A i \in reqAcked' \ reqAcked :
       requests[i].prompt <= batchSeq' \/ requests[i].prompt <= rejectionSeq'
  /\ \A i \in batchAcked' \ batchAcked : batch[i] <= resultSeq'
  /\ \A j \in resAcked' \ resAcked : results[j] <= bridgeSeq'

LEMMA ProgressKeeps ==
  ASSUME PInv, Progress, reqAcked' \subseteq DOMAIN requests, batchAcked' \subseteq DOMAIN batch,
         resAcked' \subseteq DOMAIN results
  PROVE  HopTypeOK' /\ PathInv' /\ HandedOn'
<1>1. Dispatched \subseteq Dispatched'
  BY DEF Progress, Grows, Dispatched
<1>2. /\ batchSeq \in Nat /\ resultSeq \in Nat /\ rejectionSeq \in Nat /\ bridgeSeq \in Nat
      /\ batchSeq' \in Nat /\ resultSeq' \in Nat /\ rejectionSeq' \in Nat /\ bridgeSeq' \in Nat
  BY DEF PInv, HopTypeOK, Progress
<1>3. /\ \A i \in DOMAIN requests : requests[i].prompt \in Int
      /\ \A i \in DOMAIN batch : batch[i] \in Int
      /\ \A j \in DOMAIN results : results[j] \in Int
  <2>1. requests \in Seq(InferenceRequestEnvelope)
    BY DEF PInv, TypeInv, TypeOK
  <2>2. \A i \in DOMAIN requests : requests[i] \in InferenceRequestEnvelope
    BY <2>1
  <2> QED
    BY <2>2 DEF PInv, HopTypeOK, InferenceRequestEnvelope, MessageId
<1>4. PathInv'
  <2>1. \A i \in DOMAIN batch' : batch'[i] \in Dispatched'
    BY <1>1 DEF PInv, PathInv, Progress, Grows
  <2>2. \A j \in DOMAIN results' : results'[j] \in Dispatched'
    BY <1>1 DEF PInv, PathInv, Progress, Grows
  <2>3. ASSUME NEW i \in DOMAIN log', log'[i].kind = "result" PROVE log'[i].prompt <= bridgeSeq'
    <3>1. CASE i \in DOMAIN log
      <4>1. log[i] \in Event /\ log'[i] = log[i]
        BY <3>1 DEF PInv, TypeInv, TypeOK, Progress, Grows
      <4>2. log[i].prompt \in Int
        BY <2>3, <4>1, EventFields DEF IsResolving, MessageId
      <4> QED
        BY <1>2, <2>3, <3>1, <4>1, <4>2 DEF PInv, PathInv, Progress
    <3> QED
      BY <2>3, <3>1 DEF Progress
  <2> QED
    BY <2>1, <2>2, <2>3 DEF PathInv
<1>5. bridgeSeq' = 0 \/ Bridged'
  <2>1. Events(log) \subseteq Events(log')
    BY DEF Progress, Grows, Events
  <2> QED
    BY <1>1, <2>1 DEF PInv, HandedOn, Progress, Bridged, ResultEvent
<1>6. \A i \in reqAcked' :
        requests'[i].prompt <= batchSeq' \/ requests'[i].prompt <= rejectionSeq'
  BY <1>2, <1>3 DEF PInv, HandedOn, Progress, Grows
<1>7. \A i \in batchAcked' : batch'[i] <= resultSeq'
  BY <1>2, <1>3 DEF PInv, HandedOn, Progress, Grows
<1>8. \A j \in resAcked' : results'[j] <= bridgeSeq'
  BY <1>2, <1>3 DEF PInv, HandedOn, Progress, Grows
<1> QED
  BY <1>4, <1>5, <1>6, <1>7, <1>8 DEF HandedOn, Progress

\* Dispatched prompts are ids of messages.
LEMMA DispatchedIds == TypeInv => Dispatched \subseteq MessageId
<1> SUFFICES ASSUME TypeInv, NEW i \in DOMAIN requests PROVE requests[i].prompt \in MessageId
  BY DEF Dispatched
<1>1. requests[i] \in InferenceRequestEnvelope
  BY DEF TypeInv, TypeOK
<1> QED
  BY <1>1 DEF InferenceRequestEnvelope

\* What the hand-off of a request publishes.
LEMMA HandOffPublishes ==
  ASSUME PInv, NEW i \in DOMAIN requests,
         PublishHandOff(i) \/ UNCHANGED <<batch, batchSeq, results, rejectionSeq>>
  PROVE  /\ batch' \in Seq(MessageId) /\ batchSeq' \in Nat
         /\ results' \in Seq(MessageId) /\ rejectionSeq' \in Nat
         /\ Grows(batch, batch') /\ Grows(results, results')
         /\ batchSeq <= batchSeq' /\ rejectionSeq <= rejectionSeq'
         /\ \A k \in DOMAIN batch' : k \in DOMAIN batch \/ batch'[k] \in Dispatched
         /\ \A k \in DOMAIN results' : k \in DOMAIN results \/ results'[k] \in Dispatched
         /\ Published(batch', batchSeq') /\ Published(results', rejectionSeq')
         /\ Published(results', resultSeq)
         /\ PublishHandOff(i) =>
              requests[i].prompt <= batchSeq' \/ requests[i].prompt <= rejectionSeq'
<1> DEFINE p == requests[i].prompt
<1>1. /\ batch \in Seq(MessageId) /\ results \in Seq(MessageId)
      /\ batchSeq \in Nat /\ rejectionSeq \in Nat /\ resultSeq \in Nat
      /\ p \in Dispatched /\ p \in MessageId
      /\ Published(batch, batchSeq) /\ Published(results, rejectionSeq)
      /\ Published(results, resultSeq)
  BY DispatchedIds DEF PInv, HopTypeOK, HandedOn, Dispatched
<1>0. Grows(batch, batch) /\ Grows(results, results)
  BY DEF Grows
<1>2. CASE UNCHANGED <<batch, batchSeq, results, rejectionSeq>> /\ ~ PublishHandOff(i)
  BY <1>0, <1>1, <1>2
<1>3. CASE PublishHandOff(i) /\ IsRefused(i)
  <2>1. /\ IF p > rejectionSeq THEN results' = Append(results, p) /\ rejectionSeq' = p
                               ELSE results' = results /\ rejectionSeq' = rejectionSeq
        /\ UNCHANGED <<batch, batchSeq>>
    BY <1>3 DEF PublishHandOff, AcceptRejection
  <2>2. /\ results' \in Seq(MessageId) /\ rejectionSeq' \in Nat
        /\ rejectionSeq <= rejectionSeq' /\ p <= rejectionSeq' /\ Grows(results, results')
        /\ \A k \in DOMAIN results' : k \in DOMAIN results \/ results'[k] = p
        /\ Published(results', rejectionSeq')
    <3> HIDE DEF p
    <3> QED
      BY <1>1, <2>1, Publish, SMTT(30)
  <2>3. Published(results', resultSeq)
    BY <1>1, <2>2, GrownPublished
  <2> QED
    BY <1>0, <1>1, <1>3, <2>1, <2>2, <2>3
<1>4. CASE PublishHandOff(i) /\ ~ IsRefused(i)
  <2>1. /\ IF p > batchSeq THEN batch' = Append(batch, p) /\ batchSeq' = p
                           ELSE batch' = batch /\ batchSeq' = batchSeq
        /\ UNCHANGED <<results, rejectionSeq>>
    BY <1>4 DEF PublishHandOff, AcceptBatch
  <2>2. /\ batch' \in Seq(MessageId) /\ batchSeq' \in Nat
        /\ batchSeq <= batchSeq' /\ p <= batchSeq' /\ Grows(batch, batch')
        /\ \A k \in DOMAIN batch' : k \in DOMAIN batch \/ batch'[k] = p
        /\ Published(batch', batchSeq')
    <3> HIDE DEF p
    <3> QED
      BY <1>1, <2>1, Publish, SMTT(30)
  <2> QED
    BY <1>0, <1>1, <1>4, <2>1, <2>2
<1> QED
  BY <1>2, <1>3, <1>4

\* What an engine's result publishes.
LEMMA ResultPublishes ==
  ASSUME PInv, NEW p \in Dispatched, AcceptResult(p) \/ UNCHANGED <<results, resultSeq>>
  PROVE  /\ results' \in Seq(MessageId) /\ resultSeq' \in Nat
         /\ Grows(results, results') /\ resultSeq <= resultSeq'
         /\ \A k \in DOMAIN results' : k \in DOMAIN results \/ results'[k] \in Dispatched
         /\ Published(results', resultSeq') /\ Published(results', rejectionSeq)
         /\ AcceptResult(p) => p <= resultSeq'
<1>1. /\ results \in Seq(MessageId) /\ rejectionSeq \in Nat /\ resultSeq \in Nat
      /\ p \in MessageId /\ Published(results, rejectionSeq) /\ Published(results, resultSeq)
  BY DispatchedIds DEF PInv, HopTypeOK, HandedOn
<1>2. CASE AcceptResult(p)
  <2>1. IF p > resultSeq THEN results' = Append(results, p) /\ resultSeq' = p
                         ELSE results' = results /\ resultSeq' = resultSeq
    BY <1>2 DEF AcceptResult
  <2>2. /\ results' \in Seq(MessageId) /\ resultSeq' \in Nat
        /\ resultSeq <= resultSeq' /\ p <= resultSeq' /\ Grows(results, results')
        /\ \A k \in DOMAIN results' : k \in DOMAIN results \/ results'[k] = p
        /\ Published(results', resultSeq')
    BY <1>1, <2>1, Publish, SMTT(30)
  <2> QED
    BY <1>1, <2>2, GrownPublished
<1>3. CASE ~ AcceptResult(p)
  BY <1>1, <1>3 DEF Grows
<1> QED
  BY <1>2, <1>3

\* What the bridge appends to the log: a result the dispatcher's environment may
\* send.
LEMMA BridgeAppends ==
  ASSUME PInv, NEW p \in Dispatched, AppendResult(p) \/ UNCHANGED <<log, bridgeSeq>>,
         UNCHANGED <<requests, requestSeq, cancels, cancelSeq, brokerVars, workerVars, faults>>
  PROVE  /\ ResultArrives(p) \/ UNCHANGED vars
         /\ bridgeSeq' \in Nat /\ bridgeSeq <= bridgeSeq' /\ Grows(log, log')
         /\ \A i \in DOMAIN log' :
              i \in DOMAIN log \/ (log'[i].kind = "result" => log'[i].prompt <= bridgeSeq')
         /\ bridgeSeq' = bridgeSeq \/ Bridged'
         /\ AppendResult(p) => p <= bridgeSeq'
<1>1. log \in Seq(Event) /\ bridgeSeq \in Nat /\ p \in MessageId
  BY DispatchedIds DEF PInv, TypeInv, TypeOK, HopTypeOK
<1>2. p \in Nat
  BY <1>1 DEF MessageId
<1>3. CASE AppendResult(p) /\ p > bridgeSeq
  <2>1. log' = Append(log, ResultEvent(p)) /\ bridgeSeq' = p
    BY <1>3 DEF AppendResult
  <2>2. ResultEvent(p) \in Event
    BY <1>1 DEF ResultEvent, Event
  <2>3. /\ Grows(log, log')
        /\ DOMAIN log' = DOMAIN log \cup {Len(log) + 1}
        /\ log'[Len(log) + 1] = ResultEvent(p)
    BY <1>1, <2>1, <2>2, AppendGrows
  <2>4. ResultEvent(p) \notin Events(log)
    <3> SUFFICES ASSUME NEW i \in DOMAIN log, log[i] = ResultEvent(p) PROVE FALSE
      BY DEF Events
    <3>1. log[i].kind = "result" /\ log[i].prompt = p
      BY DEF ResultEvent
    <3>2. p <= bridgeSeq
      BY <3>1 DEF PInv, PathInv
    <3> QED
      BY <1>1, <1>2, <1>3, <3>2
  <2>5. ResultArrives(p)
    BY <2>1, <2>4 DEF ResultArrives
  <2> QED
    BY <1>1, <1>2, <1>3, <2>1, <2>3, <2>5 DEF Bridged, Dispatched, Events, ResultEvent
<1>4. CASE ~ (AppendResult(p) /\ p > bridgeSeq)
  <2>1. UNCHANGED <<log, bridgeSeq>>
    BY <1>4 DEF AppendResult
  <2> QED
    BY <1>1, <1>2, <1>4, <2>1 DEF Grows, vars, topicVars
<1> QED
  BY <1>3, <1>4

-----------------------------------------------------------------------------
\* No request, batch message or result is anything but dispatched prompts, so a
\* step of the path is one of the dispatcher's environment, or none.
\* A step that publishes and acknowledges nothing.
LEMMA QuietHop ==
  ASSUME PInv, HopTypeOK',
         UNCHANGED <<vars, reqAcked, batch, batchSeq, batchAcked, results, resultSeq, rejectionSeq,
                     resAcked, bridgeSeq>>
  PROVE  [Next]_vars /\ Progress
<1>1. UNCHANGED <<log, requests>>
  BY DEF vars, topicVars
<1>2. Grows(log, log) /\ Grows(requests, requests) /\ Grows(batch, batch) /\ Grows(results, results)
  BY DEF Grows
<1>3. batchSeq \in Nat /\ resultSeq \in Nat /\ rejectionSeq \in Nat /\ bridgeSeq \in Nat
  BY DEF PInv, HopTypeOK
<1>4. Published(batch, batchSeq) /\ Published(results, resultSeq) /\ Published(results, rejectionSeq)
  BY DEF PInv, HandedOn
<1> QED
  BY <1>1, <1>2, <1>3, <1>4 DEF Progress

LEMMA HopStepInv ==
  ASSUME PInv, HopStep \/ HopFaultStep
  PROVE  /\ [Next]_vars /\ Progress
         /\ reqAcked' \subseteq DOMAIN requests
         /\ batchAcked' \subseteq DOMAIN batch
         /\ resAcked' \subseteq DOMAIN results
<1> USE DEF HopFaultHappens
<1>1. /\ requests \in Seq(InferenceRequestEnvelope) /\ log \in Seq(Event) /\ HopTypeOK
      /\ Published(batch, batchSeq) /\ Published(results, resultSeq)
      /\ Published(results, rejectionSeq) /\ MaxHopFaults \in Nat
      /\ \A i \in DOMAIN batch : batch[i] \in Dispatched
      /\ \A j \in DOMAIN results : results[j] \in Dispatched
  BY PipelineAssumption DEF PInv, TypeInv, TypeOK, PathInv, HandedOn
<1>2. Grows(log, log) /\ Grows(requests, requests) /\ Grows(batch, batch) /\ Grows(results, results)
  BY DEF Grows
<1>3. ASSUME NEW i \in DOMAIN requests, HandOff(i) \/ HandOffLost(i)
      PROVE  [Next]_vars /\ Progress
  <2>1. PublishHandOff(i) \/ UNCHANGED <<batch, batchSeq, results, rejectionSeq>>
    BY <1>3 DEF HandOff, HandOffLost
  <2>2. /\ UNCHANGED <<vars, batchAcked, lent, job, resultSeq, resAcked, bridgeSeq, cancelPos,
                       interrupted>>
        /\ UNCHANGED <<log, requests, cancels>>
        /\ reqAcked' \subseteq DOMAIN requests /\ hopFaults' \in 0 .. MaxHopFaults
    <3>1. reqAcked \subseteq DOMAIN requests /\ hopFaults \in 0 .. MaxHopFaults
      BY <1>1 DEF HopTypeOK
    <3>2. /\ UNCHANGED <<vars, batchAcked, lent, job, resultSeq, resAcked, bridgeSeq, cancelPos,
                         interrupted>>
          /\ reqAcked' \in {reqAcked, reqAcked \cup {i}}
          /\ hopFaults' = hopFaults \/ (hopFaults' = hopFaults + 1 /\ hopFaults < MaxHopFaults)
      BY <1>3 DEF HandOff, HandOffLost
    <3>3. UNCHANGED <<log, requests, cancels>>
      BY <3>2 DEF vars, topicVars
    <3> QED
      BY <1>1, <1>3, <3>1, <3>2, <3>3
  <2>3. HopTypeOK'
    BY <1>1, <2>1, <2>2, HandOffPublishes DEF HopTypeOK, Grows
  <2>4. \A k \in reqAcked' \ reqAcked :
          requests[k].prompt <= batchSeq' \/ requests[k].prompt <= rejectionSeq'
    BY <1>3, <2>1, HandOffPublishes DEF HandOff, HandOffLost
  <2>5. /\ Grows(batch, batch') /\ Grows(results, results')
        /\ batchSeq <= batchSeq' /\ rejectionSeq <= rejectionSeq'
        /\ \A k \in DOMAIN batch' : k \in DOMAIN batch \/ batch'[k] \in Dispatched
        /\ \A k \in DOMAIN results' : k \in DOMAIN results \/ results'[k] \in Dispatched
        /\ Published(batch', batchSeq') /\ Published(results', rejectionSeq')
        /\ Published(results', resultSeq)
    BY <2>1, HandOffPublishes
  <2>6. resultSeq \in Nat /\ bridgeSeq \in Nat
    BY <1>1 DEF HopTypeOK
  <2> QED
    BY <1>2, <2>2, <2>3, <2>4, <2>5, <2>6 DEF Progress
<1>4. ASSUME NEW e \in Engine, NEW i \in DOMAIN batch, TakeJob(e, i)
      PROVE  [Next]_vars /\ Progress
  <2>1. UNCHANGED <<vars, log, requests, cancels>>
    BY <1>4 DEF TakeJob, vars, topicVars
  <2>2. HopTypeOK'
    BY <1>1, <1>4, <2>1 DEF TakeJob, HopTypeOK
  <2> QED
    BY <1>4, <2>2, QuietHop DEF TakeJob
<1>5. ASSUME NEW e \in Engine, job[e] # 0 PROVE job[e] \in DOMAIN batch /\ batch[job[e]] \in Dispatched
  BY <1>1, <1>5 DEF HopTypeOK
<1>6. ASSUME NEW e \in Engine, FinishJob(e) PROVE [Next]_vars /\ Progress
  <2>1. job[e] \in DOMAIN batch /\ batch[job[e]] \in Dispatched /\ AcceptResult(batch[job[e]])
    BY <1>5, <1>6 DEF FinishJob
  <2>2. UNCHANGED <<vars, log, requests, cancels>>
    BY <1>6 DEF FinishJob, vars, topicVars
  <2>3. HopTypeOK'
    BY <1>1, <1>6, <2>1, <2>2, ResultPublishes DEF FinishJob, HopTypeOK, Grows
  <2>4. \A k \in batchAcked' \ batchAcked : batch[k] <= resultSeq'
    BY <1>6, <2>1, ResultPublishes DEF FinishJob
  <2>5. /\ Grows(results, results') /\ resultSeq <= resultSeq'
        /\ \A k \in DOMAIN results' : k \in DOMAIN results \/ results'[k] \in Dispatched
        /\ Published(results', resultSeq') /\ Published(results', rejectionSeq)
    BY <2>1, ResultPublishes
  <2>6. batchSeq \in Nat /\ rejectionSeq \in Nat /\ bridgeSeq \in Nat
    BY <1>1 DEF HopTypeOK
  <2>7. UNCHANGED <<reqAcked, batch, batchSeq, rejectionSeq, resAcked, bridgeSeq>>
    BY <1>6 DEF FinishJob
  <2> QED
    BY <1>1, <1>2, <2>2, <2>3, <2>4, <2>5, <2>6, <2>7 DEF Progress
<1>7. ASSUME NEW e \in Engine, job[e] # 0, GiveBack(e),
             AcceptResult(batch[job[e]]) \/ UNCHANGED <<results, resultSeq>>,
             interrupted' = interrupted \ {e}, hopFaults' \in 0 .. MaxHopFaults,
             UNCHANGED <<vars, reqAcked, batch, batchSeq, batchAcked, rejectionSeq, resAcked,
                         bridgeSeq, cancelPos>>
      PROVE  [Next]_vars /\ Progress
  <2>1. batch[job[e]] \in Dispatched
    BY <1>5, <1>7
  <2>2. UNCHANGED <<log, requests, cancels>>
    BY <1>7 DEF vars, topicVars
  <2>3. HopTypeOK'
    BY <1>1, <1>7, <2>1, <2>2, ResultPublishes DEF GiveBack, HopTypeOK, Grows
  <2>4. /\ Grows(results, results') /\ resultSeq <= resultSeq'
        /\ \A k \in DOMAIN results' : k \in DOMAIN results \/ results'[k] \in Dispatched
        /\ Published(results', resultSeq') /\ Published(results', rejectionSeq)
    BY <1>7, <2>1, ResultPublishes
  <2>5. batchSeq \in Nat /\ rejectionSeq \in Nat /\ bridgeSeq \in Nat
    BY <1>1 DEF HopTypeOK
  <2> QED
    BY <1>1, <1>2, <1>7, <2>2, <2>3, <2>4, <2>5 DEF Progress
<1>8. ASSUME NEW e \in Engine, JobLost(e) PROVE [Next]_vars /\ Progress
  BY <1>1, <1>7, <1>8 DEF JobLost, HopTypeOK
<1>9. ASSUME NEW e \in Engine, ConsumeCancellation(e) PROVE [Next]_vars /\ Progress
  <2>1. UNCHANGED <<vars, log, requests, cancels>>
    BY <1>9 DEF ConsumeCancellation, vars, topicVars
  <2>2. cancelPos + 1 \in 0 .. Len(cancels)
    BY <1>1, <1>9 DEF ConsumeCancellation, HopTypeOK, PInv, TypeInv, TypeOK
  <2>3. HopTypeOK'
    BY <1>1, <1>9, <2>1, <2>2 DEF ConsumeCancellation, HopTypeOK
  <2> QED
    BY <1>9, <2>3, QuietHop DEF ConsumeCancellation
<1>10. ASSUME NEW e \in Engine, InterruptStrikes(e) PROVE [Next]_vars /\ Progress
  <2>1. CASE job[e] # 0
    BY <1>1, <1>7, <1>10, <2>1 DEF InterruptStrikes, HopTypeOK
  <2>2. CASE job[e] = 0
    <3>1. UNCHANGED <<vars, log, requests, cancels, lent, job, results, resultSeq>>
      BY <1>10, <2>2 DEF InterruptStrikes, vars, topicVars
    <3>2. HopTypeOK'
      BY <1>1, <1>10, <3>1 DEF InterruptStrikes, HopTypeOK
    <3> QED
      BY <1>10, <3>1, <3>2, QuietHop DEF InterruptStrikes
  <2> QED
    BY <2>1, <2>2
<1>11. ASSUME NEW i \in lent, AckTimeout(i) PROVE [Next]_vars /\ Progress
  <2>1. UNCHANGED <<vars, log, requests, cancels>>
    BY <1>11 DEF AckTimeout, vars, topicVars
  <2>2. HopTypeOK'
    BY <1>1, <1>11, <2>1 DEF AckTimeout, HopTypeOK
  <2> QED
    BY <1>11, <2>2, QuietHop DEF AckTimeout
<1>12. ASSUME NEW j \in DOMAIN results, BridgeResult(j) \/ BridgeResultLost(j)
       PROVE  [Next]_vars /\ Progress
  <2>1. /\ results[j] \in Dispatched
        /\ AppendResult(results[j]) \/ UNCHANGED <<log, bridgeSeq>>
        /\ UNCHANGED <<requests, requestSeq, cancels, cancelSeq, brokerVars, workerVars, faults>>
    BY <1>1, <1>12 DEF BridgeResult, BridgeResultLost
  <2>2. UNCHANGED <<reqAcked, batch, batchSeq, batchAcked, lent, job, results, resultSeq,
                    rejectionSeq, cancelPos, interrupted>>
    BY <1>12 DEF BridgeResult, BridgeResultLost
  <2>3. HopTypeOK'
    <3>1. resAcked' \subseteq DOMAIN results /\ hopFaults' \in 0 .. MaxHopFaults
      <4>1. resAcked \subseteq DOMAIN results /\ hopFaults \in 0 .. MaxHopFaults
        BY <1>1 DEF HopTypeOK
      <4>2. resAcked' \subseteq DOMAIN results
        BY <1>12, <4>1 DEF BridgeResult, BridgeResultLost
      <4>3. hopFaults' = hopFaults \/ (hopFaults' = hopFaults + 1 /\ hopFaults < MaxHopFaults)
        BY <1>12 DEF BridgeResult, BridgeResultLost
      <4> QED
        BY <1>1, <4>1, <4>2, <4>3
    <3>2. bridgeSeq' \in Nat
      BY <2>1, BridgeAppends
    <3> QED
      BY <1>1, <2>1, <2>2, <3>1, <3>2 DEF HopTypeOK
  <2>4. \A k \in resAcked' \ resAcked : results[k] <= bridgeSeq'
    BY <1>12, <2>1, BridgeAppends DEF BridgeResult, BridgeResultLost
  <2>5. [Next]_vars
    BY <2>1, BridgeAppends DEF Next
  <2> QED
    BY <1>1, <1>2, <2>1, <2>2, <2>3, <2>4, <2>5, BridgeAppends DEF Progress, HopTypeOK
<1>13. [Next]_vars /\ Progress
  BY <1>3, <1>4, <1>6, <1>8, <1>9, <1>10, <1>11, <1>12 DEF HopStep, HopFaultStep
<1>14. reqAcked' \subseteq DOMAIN requests
  BY <1>1 DEF HopStep, HopFaultStep, HandOff, HandOffLost, TakeJob, FinishJob, JobLost,
     ConsumeCancellation, InterruptStrikes, AckTimeout, BridgeResult, BridgeResultLost, HopTypeOK
<1>15. batchAcked' \subseteq DOMAIN batch
  BY <1>1, <1>5 DEF HopStep, HopFaultStep, HandOff, HandOffLost, TakeJob, FinishJob, JobLost,
     ConsumeCancellation, InterruptStrikes, AckTimeout, BridgeResult, BridgeResultLost, HopTypeOK
<1>16. resAcked' \subseteq DOMAIN results
  BY <1>1 DEF HopStep, HopFaultStep, HandOff, HandOffLost, TakeJob, FinishJob, JobLost,
     ConsumeCancellation, InterruptStrikes, AckTimeout, BridgeResult, BridgeResultLost, HopTypeOK
<1> QED
  BY <1>13, <1>14, <1>15, <1>16

LEMMA PipelineInitInv == PInit => PInv
<1> SUFFICES ASSUME PInit PROVE PInv
  OBVIOUS
<1>1. TypeInv
  BY InitTypeInv DEF PInit
<1>2. HopTypeOK
  BY PipelineAssumption DEF PInit, Init, HopTypeOK
<1>3. PathInv /\ HandedOn
  BY DEF PInit, Init, PathInv, HandedOn, Published
<1> QED
  BY <1>1, <1>2, <1>3 DEF PInv

\* Every step of the pipeline is one of the dispatcher or its environment, or
\* none, and keeps the invariant.
LEMMA PipelineStepInv == PInv /\ [PNext]_pvars => [Next]_vars /\ PInv'
<1> SUFFICES ASSUME PInv, [PNext]_pvars PROVE [Next]_vars /\ PInv'
  OBVIOUS
<1>1. CASE HopStep \/ HopFaultStep
  BY <1>1, HopStepInv, ProgressKeeps, NextTypeInv DEF PInv
<1>2. CASE DispatcherStep /\ UNCHANGED hopVars
  <2>1. TypeInv' /\ [Next]_vars
    BY <1>2, NextTypeInv DEF PInv, Next
  <2>2. /\ Grows(log, log') /\ Grows(requests, requests') /\ Len(cancels) <= Len(cancels')
        /\ \A i \in DOMAIN log' : i \in DOMAIN log \/ log'[i].kind # "result"
    BY <1>2, DispatcherGrows DEF PInv
  <2>3. HopTypeOK'
    <3>1. Len(cancels) \in Nat /\ Len(cancels') \in Nat
      <4>1. cancels \in Seq(MessageId)
        BY DEF PInv, TypeInv, TypeOK
      <4>2. cancels' \in Seq(MessageId)
        BY <2>1 DEF TypeInv, TypeOK
      <4> QED
        BY <4>1, <4>2
    <3>2. DOMAIN requests \subseteq DOMAIN requests' /\ HopTypeOK
      BY <2>2 DEF PInv, Grows
    <3>3. cancelPos' \in 0 .. Len(cancels')
      BY <1>2, <2>2, <3>1, <3>2 DEF HopTypeOK, hopVars
    <3> QED
      BY <1>2, <3>2, <3>3 DEF HopTypeOK, hopVars
  <2>4. Progress
    BY <1>2, <2>2, <2>3 DEF PInv, HopTypeOK, HandedOn, Progress, hopVars, Grows
  <2> QED
    BY <1>2, <2>1, <2>3, <2>4, ProgressKeeps DEF PInv, HopTypeOK, hopVars
<1>3. CASE UNCHANGED pvars
  <2>1. UNCHANGED vars
    BY <1>3 DEF pvars
  <2>2. TypeInv'
    BY <2>1, NextTypeInv DEF PInv
  <2> QED
    BY <1>3, <2>1, <2>2
    DEF PInv, HopTypeOK, PathInv, HandedOn, Bridged, Dispatched, pvars, vars, topicVars, hopVars
<1> QED
  BY <1>1, <1>2, <1>3 DEF PNext

LEMMA PipelineInv == PSpec => []PInv
  BY PipelineInitInv, PipelineStepInv, PTL DEF PSpec

\* Every variable of the path keeps its type, whatever the engines and faults.
THEOREM PipelineTypeCorrect == PSpec => []PTypeOK
<1>1. PInv => PTypeOK
  BY DEF PInv, TypeInv, HopTypeOK, PTypeOK
<1> QED
  BY <1>1, PipelineInv, PTL

\* The path is the environment the dispatcher assumes: a result reaches the log
\* at most once per prompt, and for dispatched prompts only, through every fault
\* and every order of delivery.
THEOREM PipelineImplementsDispatcher == PSpec => ImplementsDispatcher
<1>1. PInit => Init
  BY DEF PInit
<1> QED
  BY <1>1, PipelineInv, PipelineStepInv, PTL DEF PSpec, Spec, ImplementsDispatcher

\* So what the dispatcher promises of its environment's every behaviour holds on
\* the path: a live event brings the head of the queue with it, and a
\* cancellation goes before the successor of its prompt.
COROLLARY PipelineKeepsOrder ==
  ASSUME Uninterrupted, {"publish", "crash"} \cap Fault = {}
  PROVE  PSpec => [](LiveEventRestoresWork /\ CancelPrecedesSuccessor)
<1>1. PSpec => Spec
  BY PipelineImplementsDispatcher DEF ImplementsDispatcher
<1>2. Spec => []LiveEventRestoresWork
  BY LiveEventsRestoreWork
<1>3. Spec => []CancelPrecedesSuccessor
  BY CancelGoesFirst
<1> QED
  BY <1>1, <1>2, <1>3, PTL

-----------------------------------------------------------------------------
(***************************************************************************)
(* Nothing is lost.                                                        *)
(*                                                                         *)
(* The argument: by single flight an unsettled prompt is the last of those *)
(* dispatched, so no producer of the path is beyond it; a producer that    *)
(* has reached it put it on its topic, and the bridge's settled it.        *)
(***************************************************************************)

LEMMA UnsettledIsLast ==
  ASSUME QueueInv, NEW p \in Dispatched \ Resolved(log), NEW q \in Dispatched
  PROVE  q <= p
<1>1. p \in KeptPrompts(log) /\ q \in KeptPrompts(log)
  BY DEF QueueInv, RequestInv, Dispatched
<1>2. p \in Int /\ q \in Int
  BY <1>1 DEF KeptPrompts, QueueInv, TypeInv, TypeOK
<1>3. ~ (p < q)
  BY <1>1 DEF QueueInv, RequestInv, NoOvertaking
<1> QED
  BY <1>2, <1>3

LEMMA UnsettledIsInFlight ==
  ASSUME QueueInv, PInv, NEW p \in Dispatched \ Resolved(log)
  PROVE  InFlight(p)
<1>1. PICK i \in DOMAIN requests : requests[i].prompt = p
  BY DEF Dispatched
<1>2. /\ p \in Int /\ p > 0
      /\ batchSeq \in Nat /\ resultSeq \in Nat /\ rejectionSeq \in Nat /\ bridgeSeq \in Nat
  BY DispatchedIds DEF PInv, HopTypeOK, MessageId
\* A producer of the path is not beyond p, and one that reached p published it.
<1>3. ASSUME NEW topic, NEW seq \in Nat, \A k \in DOMAIN topic : topic[k] \in Dispatched,
             Published(topic, seq), p <= seq
      PROVE  \E k \in DOMAIN topic : topic[k] = p
  <2>1. PICK k \in DOMAIN topic : topic[k] = seq
    BY <1>2, <1>3 DEF Published
  <2>2. seq <= p
    BY <1>3, <2>1, UnsettledIsLast
  <2> QED
    BY <1>2, <1>3, <2>1, <2>2
<1>4. ASSUME NEW j \in DOMAIN results, results[j] = p PROVE InFlight(p)
  <2>1. CASE j \notin resAcked
    BY <1>4, <2>1 DEF InFlight
  <2>2. CASE j \in resAcked
    <3>1. p <= bridgeSeq /\ Bridged
      BY <1>2, <1>4, <2>2 DEF PInv, HandedOn
    <3>2. bridgeSeq = p
      BY <1>2, <3>1, UnsettledIsLast DEF Bridged
    <3>3. p \in Resolved(log)
      BY <3>1, <3>2 DEF Bridged, Events, ResultEvent, Resolved, IsResolving
    <3> QED
      BY <3>3
  <2> QED
    BY <2>1, <2>2
<1>5. ASSUME p <= resultSeq \/ p <= rejectionSeq PROVE InFlight(p)
  <2>1. \E j \in DOMAIN results : results[j] = p
    BY <1>2, <1>3, <1>5 DEF PInv, PathInv, HandedOn
  <2> QED
    BY <1>4, <2>1
<1>6. ASSUME NEW b \in DOMAIN batch, batch[b] = p PROVE InFlight(p)
  <2>1. CASE b \notin batchAcked
    BY <1>6, <2>1 DEF InFlight
  <2>2. CASE b \in batchAcked
    BY <1>5, <1>6, <2>2 DEF PInv, HandedOn
  <2> QED
    BY <2>1, <2>2
<1>7. CASE i \notin reqAcked
  BY <1>1, <1>7 DEF InFlight
<1>8. CASE i \in reqAcked
  <2>1. p <= batchSeq \/ p <= rejectionSeq
    BY <1>1, <1>8 DEF PInv, HandedOn
  <2>2. CASE p <= batchSeq
    <3>1. \E b \in DOMAIN batch : batch[b] = p
      BY <1>2, <1>3, <2>2 DEF PInv, PathInv, HandedOn
    <3> QED
      BY <1>6, <3>1
  <2> QED
    BY <1>5, <2>1, <2>2
<1> QED
  BY <1>7, <1>8

\* No dispatched prompt is lost between the topics: until it is settled some
\* consumer owes it a step, whatever attempts, sessions and engines are lost.
THEOREM NothingIsLost ==
  ASSUME Uninterrupted PROVE PSpec => []NothingLost
<1> DEFINE Inv == QueueInv /\ PInv
<1>1. PInit => Inv
  BY PipelineInitInv, InitQueueInv DEF PInit
<1>2. Inv /\ [PNext]_pvars => Inv'
  BY PipelineStepInv, NextQueueInv
<1>3. Inv => NothingLost
  BY UnsettledIsInFlight DEF NothingLost
<1> QED
  BY <1>1, <1>2, <1>3, PTL DEF PSpec
=============================================================================
