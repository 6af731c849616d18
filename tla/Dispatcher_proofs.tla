-------------------------- MODULE Dispatcher_proofs --------------------------
(***************************************************************************)
(* What the reducer computes; type correctness of the dispatcher for every *)
(* set of replicas and every fault; and, where one coordinator replica     *)
(* runs and replay is never cut short, gap-free recovery, single flight,   *)
(* one dispatch per client key, a cancel before what it frees and a queue  *)
(* that is picked up again after a loss.                                   *)
(***************************************************************************)
EXTENDS Dispatcher, TLAPS

-----------------------------------------------------------------------------
(***************************************************************************)
(* What the reducer computes, for every log.                               *)
(***************************************************************************)

\* An event has the field its kind promises.
LEMMA EventFields ==
  ASSUME NEW e \in Event
  PROVE  /\ IsPrompt(e) => e.key \in Key
         /\ IsResolving(e) => e.prompt \in MessageId
         /\ IsCancel(e) => IsResolving(e)
         /\ IsPrompt(e) <=> ~ IsResolving(e)
BY DEF Event, IsPrompt, IsResolving, IsCancel

\* Folding a message keeps the projection well formed.
LEMMA StepReducerType ==
  ASSUME NEW state \in ReducerState, NEW i \in MessageId, NEW e \in Event
  PROVE  StepReducer(state, i, e) \in ReducerState
<1>1. KeysOf(e) \subseteq Key /\ SettledBy(e) \subseteq MessageId
  BY EventFields DEF KeysOf, SettledBy
<1>2. Append(state.messages, i) \in Seq(MessageId)
  BY DEF ReducerState
<1> QED
  BY <1>1, <1>2 DEF StepReducer, ReducerState

\* A message keeps its event, and the conversation keeps its prompts, when the
\* log grows.
LEMMA GrownLog ==
  ASSUME NEW events \in Seq(Event), NEW e \in Event
  PROVE  /\ Append(events, e) \in Seq(Event)
         /\ Len(Append(events, e)) = Len(events) + 1
         /\ DOMAIN Append(events, e) = DOMAIN events \cup {Len(events) + 1}
         /\ \A i \in DOMAIN events : Append(events, e)[i] = events[i]
         /\ \A i \in DOMAIN events : FirstOfKey(Append(events, e), i) <=> FirstOfKey(events, i)
<1> DEFINE new == Append(events, e)
<1>1. new \in Seq(Event) /\ Len(new) = Len(events) + 1
  OBVIOUS
<1>2. DOMAIN new = DOMAIN events \cup {Len(events) + 1}
  OBVIOUS
<1>3. \A i \in DOMAIN events : new[i] = events[i]
  OBVIOUS
<1>4. ASSUME NEW i \in DOMAIN events PROVE FirstOfKey(new, i) <=> FirstOfKey(events, i)
  <2>1. \A j \in DOMAIN new : j < i => j \in DOMAIN events
    BY <1>2
  <2> QED
    BY <1>2, <1>3, <2>1 DEF FirstOfKey
<1> QED
  BY <1>1, <1>2, <1>3, <1>4

\* A projection stays faithful to the messages it folded when the log grows.
LEMMA ProjectsGrownLog ==
  ASSUME NEW events \in Seq(Event), NEW e \in Event, NEW S \in SUBSET DOMAIN events,
         NEW state, Projects(events, S, state)
  PROVE  Projects(Append(events, e), S, state)
BY GrownLog DEF Projects

\* Folding a message after all that are folded keeps the projection faithful,
\* if the keys folded so far tell whether it is a resubmission.
LEMMA FoldProjects ==
  ASSUME NEW events \in Seq(Event), NEW S \in SUBSET DOMAIN events,
         NEW state \in ReducerState, Projects(events, S, state),
         NEW i \in DOMAIN events, i \notin S, \A j \in S : j < i,
         IsDropped(state, events[i]) <=> IsPrompt(events[i]) /\ ~ FirstOfKey(events, i)
  PROVE  Projects(events, S \cup {i}, StepReducer(state, i, events[i]))
<1> DEFINE m == state.messages
           new == StepReducer(state, i, events[i])
<1>1. events[i] \in Event
  OBVIOUS
<1>3. CASE IsDropped(state, events[i])
  BY <1>1, <1>3, EventFields DEF Projects, StepReducer, IsDropped
<1>4. CASE ~ IsDropped(state, events[i])
  <2>1. /\ new.messages = Append(m, i)
        /\ new.keys = state.keys \cup KeysOf(events[i])
        /\ new.resolved = state.resolved \cup SettledBy(events[i])
    BY <1>4 DEF StepReducer
  <2>2. m \in Seq(MessageId) /\ Append(m, i) \in Seq(Nat)
    BY DEF ReducerState, MessageId
  <2>3. /\ DOMAIN Append(m, i) = DOMAIN m \cup {Len(m) + 1}
        /\ \A k \in DOMAIN m : Append(m, i)[k] = m[k]
        /\ Append(m, i)[Len(m) + 1] = i
    BY <2>2
  <2>4. \A k \in DOMAIN m : m[k] \in S
    BY DEF Projects
  <2>5. \A j, k \in DOMAIN new.messages : j < k => new.messages[j] < new.messages[k]
    BY <2>1, <2>2, <2>3, <2>4 DEF Projects
  <2>6. {new.messages[k] : k \in DOMAIN new.messages} = {m[k] : k \in DOMAIN m} \cup {i}
    BY <2>1, <2>3
  <2>7. {j \in S \cup {i} : IsPrompt(events[j]) => FirstOfKey(events, j)}
          = {j \in S : IsPrompt(events[j]) => FirstOfKey(events, j)} \cup {i}
    BY <1>4
  <2>8. new.keys = {events[j].key : j \in {h \in S \cup {i} : IsPrompt(events[h])}}
    BY <2>1 DEF Projects, KeysOf
  <2>9. new.resolved = {events[j].prompt : j \in {h \in S \cup {i} : IsResolving(events[h])}}
    BY <2>1 DEF Projects, SettledBy
  <2> QED
    BY <2>5, <2>6, <2>7, <2>8, <2>9 DEF Projects
<1> QED
  BY <1>3, <1>4

\* They do if nothing before it is missing.
LEMMA StepReducerProjects ==
  ASSUME NEW events \in Seq(Event), NEW S \in SUBSET DOMAIN events,
         NEW state \in ReducerState, Projects(events, S, state),
         NEW i \in DOMAIN events, i \notin S,
         \A j \in DOMAIN events : j < i => j \in S,
         \A j \in S : j < i
  PROVE  Projects(events, S \cup {i}, StepReducer(state, i, events[i]))
<1>1. IsDropped(state, events[i]) <=> IsPrompt(events[i]) /\ ~ FirstOfKey(events, i)
  BY DEF Projects, IsDropped, FirstOfKey
<1> QED
  BY <1>1, FoldProjects

\* The head of the queue is an unsettled prompt the conversation keeps, and every
\* kept prompt before it is settled among the messages folded.
LEMMA HeadIsNext ==
  ASSUME NEW events \in Seq(Event), NEW S \in SUBSET DOMAIN events,
         NEW state \in ReducerState, Projects(events, S, state),
         \A i \in S, j \in DOMAIN events : j < i => j \in S,
         NEW k \in DOMAIN state.messages, IsNextDispatchable(events, state, k)
  PROVE  /\ state.messages[k] \in KeptPrompts(events) \ state.resolved
         /\ \A q \in KeptPrompts(events) :
              q < state.messages[k] => q \in state.resolved \cap Resolved(events)
<1> DEFINE m == state.messages
<1>1. m \in Seq(MessageId) /\ \A j \in DOMAIN m : m[j] \in S /\ m[j] \in Nat
  BY DEF ReducerState, Projects, MessageId
<1>2. m[k] \in KeptPrompts(events) \ state.resolved
  BY <1>1 DEF Projects, IsNextDispatchable, InflightUserPrompts, KeptPrompts
<1>3. ASSUME NEW q \in KeptPrompts(events), q < m[k] PROVE q \in state.resolved \cap Resolved(events)
  <2>1. q \in S
    BY <1>1, <1>3 DEF KeptPrompts
  <2>2. PICK j \in DOMAIN m : m[j] = q
    BY <2>1 DEF Projects, KeptPrompts
  <2>3. j \in Nat /\ k \in Nat
    BY <1>1
  <2>4. \A h, l \in DOMAIN m : h < l => m[h] < m[l]
    BY DEF Projects
  <2>5. j < k
    <3>1. ~ (k < j)
      BY <1>1, <1>3, <2>2, <2>4
    <3>2. j # k
      BY <1>1, <1>3, <2>2
    <3> QED
      BY <2>3, <3>1, <3>2
  <2>6. j \notin InflightUserPrompts(events, state)
    BY <2>3, <2>5 DEF IsNextDispatchable
  <2>7. q \in state.resolved
    BY <2>2, <2>6 DEF InflightUserPrompts, KeptPrompts
  <2> QED
    BY <2>7 DEF Projects, Resolved
<1> QED
  BY <1>2, <1>3

-----------------------------------------------------------------------------
(***************************************************************************)
(* The invariants.                                                         *)
(***************************************************************************)

\* A worker past the idle step holds a message it has folded, and forwards only
\* cancels.
HandInv ==
  \A r \in Replica :
    step[r] # "idle" => /\ hand[r] \in seen[r]
                        /\ step[r] = "forward" => IsCancel(log[hand[r]])

TypeInv == TypeOK /\ HandInv

-----------------------------------------------------------------------------
(***************************************************************************)
(* What several actions have in common.                                    *)
(***************************************************************************)

\* Growing the log keeps every other variable within its type.
LEMMA GrowTypeInv ==
  ASSUME TypeInv, NEW e \in Event, log' = Append(log, e),
         UNCHANGED <<requests, requestSeq, cancels, cancelSeq, brokerVars, workerVars, faults>>
  PROVE  TypeInv'
<1>1. /\ log' \in Seq(Event)
      /\ Len(log') = Len(log) + 1
      /\ DOMAIN log \subseteq DOMAIN log'
      /\ \A i \in DOMAIN log : log'[i] = log[i]
  BY GrownLog DEF TypeInv, TypeOK
<1>2. TypeOK'
  BY <1>1 DEF TypeInv, TypeOK, brokerVars, workerVars
<1>3. HandInv'
  BY <1>1 DEF TypeInv, TypeOK, HandInv, brokerVars, workerVars
<1> QED
  BY <1>2, <1>3 DEF TypeInv

\* Folding a message of the log.
LEMMA FoldOnceType ==
  ASSUME TypeInv, NEW r \in Replica, NEW i \in DOMAIN log, FoldOnce(r, i)
  PROVE  /\ seen' \in [Replica -> SUBSET DOMAIN log]
         /\ reducer' \in [Replica -> ReducerState]
         /\ seen'[r] = seen[r] \cup {i}
         /\ \A s \in Replica : s # r => seen'[s] = seen[s]
<1>1. log[i] \in Event /\ i \in MessageId
  BY DEF TypeInv, TypeOK, MessageId
<1>2. StepReducer(reducer[r], i, log[i]) \in ReducerState
  BY <1>1, StepReducerType DEF TypeInv, TypeOK
<1>3. /\ seen[r] \cup {i} \in SUBSET DOMAIN log
      /\ seen \in [Replica -> SUBSET DOMAIN log]
      /\ reducer \in [Replica -> ReducerState]
  BY DEF TypeInv, TypeOK
<1>4. CASE i \in seen[r]
  BY <1>3, <1>4 DEF FoldOnce
<1>5. CASE i \notin seen[r]
  BY <1>2, <1>3, <1>5 DEF FoldOnce
<1> QED
  BY <1>4, <1>5

\* Publishing a request or a cancellation.
LEMMA AcceptType ==
  ASSUME TypeOK
  PROVE  /\ \A x \in InferenceRequestEnvelope :
              AcceptRequest(x) => requests' \in Seq(InferenceRequestEnvelope) /\ requestSeq' \in Nat
         /\ \A p \in MessageId :
              AcceptCancellation(p) => cancels' \in Seq(MessageId) /\ cancelSeq' \in Nat
<1>1. ASSUME NEW x \in InferenceRequestEnvelope, AcceptRequest(x)
      PROVE  requests' \in Seq(InferenceRequestEnvelope) /\ requestSeq' \in Nat
  <2>1. x.prompt \in Nat
    BY DEF InferenceRequestEnvelope, MessageId
  <2>2. requests \in Seq(InferenceRequestEnvelope) /\ requestSeq \in Nat
    BY DEF TypeOK
  <2>3. Append(requests, x) \in Seq(InferenceRequestEnvelope)
    BY <2>2
  <2> QED
    BY <1>1, <2>1, <2>2, <2>3 DEF AcceptRequest
<1>2. ASSUME NEW p \in MessageId, AcceptCancellation(p)
      PROVE  cancels' \in Seq(MessageId) /\ cancelSeq' \in Nat
  <2>1. p \in Nat
    BY DEF MessageId
  <2>2. cancels \in Seq(MessageId) /\ cancelSeq \in Nat
    BY DEF TypeOK
  <2> QED
    BY <1>2, <2>1, <2>2 DEF AcceptCancellation
<1> QED
  BY <1>1, <1>2

LEMMA EnvelopeType ==
  ASSUME NEW state \in ReducerState, NEW k \in DOMAIN state.messages
  PROVE  EnvelopeFor(state, k) \in InferenceRequestEnvelope
<1>1. state.messages \in Seq(MessageId) /\ k \in Nat /\ k - 1 \in Nat
  BY DEF ReducerState
<1> QED
  BY <1>1 DEF EnvelopeFor, InferenceRequestEnvelope

-----------------------------------------------------------------------------
(***************************************************************************)
(* Type correctness.                                                       *)
(***************************************************************************)

LEMMA InitTypeInv == Init => TypeInv
<1> SUFFICES ASSUME Init PROVE TypeInv
  OBVIOUS
<1>1. InitialReducerState \in ReducerState
  BY DEF InitialReducerState, ReducerState
<1>2. TypeOK
  BY <1>1, DispatcherAssumption DEF Init, TypeOK, Phase, Step
<1> QED
  BY <1>2 DEF Init, TypeInv, HandInv

LEMMA NextTypeInv == TypeInv /\ [Next]_vars => TypeInv'
<1> SUFFICES ASSUME TypeInv, [Next]_vars PROVE TypeInv'
  OBVIOUS
<1> USE DispatcherAssumption
<1>1. ASSUME NEW k \in Key, SubmitPrompt(k) PROVE TypeInv'
  <2>1. PromptEvent(k) \in Event
    BY DEF PromptEvent, Event
  <2> QED
    BY <1>1, <2>1, GrowTypeInv DEF SubmitPrompt
<1>2. ASSUME NEW p \in DOMAIN log, CancelPrompt(p) PROVE TypeInv'
  <2>1. CancelEvent(p) \in Event
    BY DEF CancelEvent, Event, MessageId, TypeInv, TypeOK
  <2> QED
    BY <1>2, <2>1, GrowTypeInv DEF CancelPrompt
<1>3. ASSUME NEW p \in Dispatched, ResultArrives(p) PROVE TypeInv'
  <2>1. p \in MessageId
    <3>1. PICK i \in DOMAIN requests : p = requests[i].prompt
      BY DEF Dispatched
    <3>2. requests[i] \in InferenceRequestEnvelope
      BY DEF TypeInv, TypeOK
    <3> QED
      BY <3>1, <3>2 DEF InferenceRequestEnvelope
  <2>2. ResultEvent(p) \in Event
    BY <2>1 DEF ResultEvent, Event
  <2> QED
    BY <1>3, <2>2, GrowTypeInv DEF ResultArrives
<1>4. ASSUME NEW r \in Replica, WorkerStep(r) \/ FaultStep(r) PROVE TypeInv'
  <2>1. CASE StartWorker(r)
    BY <2>1 DEF StartWorker, TypeInv, TypeOK, HandInv, Phase, topicVars, brokerVars
  <2>2. CASE ReplayFrame(r)
    <3>1. cursor[r] + 1 \in DOMAIN log
      BY <2>2 DEF ReplayFrame, TypeInv, TypeOK
    <3>2. FoldOnce(r, cursor[r] + 1)
      BY <2>2 DEF ReplayFrame
    <3>3. /\ seen' \in [Replica -> SUBSET DOMAIN log]
          /\ reducer' \in [Replica -> ReducerState]
          /\ \A s \in Replica : seen[s] \subseteq seen'[s]
      BY <3>1, <3>2, FoldOnceType
    <3>4. TypeOK'
      <4>1. cursor[r] + 1 \in 0 .. Len(log)
        BY <3>1 DEF TypeInv, TypeOK
      <4>2. cursor' \in [Replica -> 0 .. Len(log)]
        BY <2>2, <4>1 DEF ReplayFrame, TypeInv, TypeOK
      <4> QED
        BY <2>2, <3>3, <4>2 DEF ReplayFrame, TypeInv, TypeOK, topicVars, brokerVars
    <3>5. HandInv'
      BY <2>2, <3>3 DEF ReplayFrame, TypeInv, HandInv, topicVars
    <3> QED
      BY <3>4, <3>5 DEF TypeInv
  <2>3. CASE ReplayCaughtUp(r)
    BY <2>3 DEF ReplayCaughtUp, TypeInv, TypeOK, HandInv, Phase, topicVars, brokerVars
  <2>4. CASE JoinSubscription(r)
    BY <2>4 DEF JoinSubscription, TypeInv, TypeOK, HandInv, Phase, topicVars, brokerVars
  <2>5. CASE Promote(r)
    BY <2>5 DEF Promote, TypeInv, TypeOK, HandInv, topicVars, workerVars
  <2>6. ASSUME NEW i \in DOMAIN log, Receive(r, i) PROVE TypeInv'
    <3>1. NextStep(r, i) \in Step
      BY DEF NextStep, Step
    <3>2. NextStep(r, i) = "forward" => IsCancel(log[i])
      BY DEF NextStep
    <3>3. TypeOK'
      BY <2>6, <3>1, FoldOnceType DEF Receive, TypeInv, TypeOK, topicVars
    <3>4. HandInv'
      BY <2>6, <3>1, <3>2, FoldOnceType DEF Receive, TypeInv, TypeOK, HandInv, topicVars
    <3> QED
      BY <3>3, <3>4 DEF TypeInv
  <2>7. CASE ForwardCancellation(r) \/ ForwardCancellationFails(r)
    <3>1. log[hand[r]].prompt \in MessageId
      <4>1. step[r] = "forward"
        BY <2>7 DEF ForwardCancellation, ForwardCancellationFails
      <4>2. hand[r] \in DOMAIN log /\ IsCancel(log[hand[r]])
        BY <4>1 DEF TypeInv, TypeOK, HandInv
      <4>3. log[hand[r]] \in Event
        BY <4>2 DEF TypeInv, TypeOK
      <4> QED
        BY <4>2, <4>3, EventFields
    <3>2. cancels' \in Seq(MessageId) /\ cancelSeq' \in Nat
      BY <2>7, <3>1, AcceptType
      DEF ForwardCancellation, ForwardCancellationFails, TypeInv, TypeOK
    <3>3. /\ step' \in [Replica -> Step]
          /\ step'[r] # "forward" /\ step[r] # "idle"
          /\ \A s \in Replica : s # r => step'[s] = step[s]
      BY <2>7 DEF ForwardCancellation, ForwardCancellationFails, TypeInv, TypeOK, Step
    <3>4. TypeOK'
      <4>1. /\ UNCHANGED <<log, requests, requestSeq, brokerVars, phase, cursor, seen, reducer, hand>>
            /\ faults' = faults \/ FaultHappens("publish")
        BY <2>7 DEF ForwardCancellation, ForwardCancellationFails
      <4> QED
        BY <3>2, <3>3, <4>1 DEF FaultHappens, TypeInv, TypeOK, brokerVars
    <3>5. HandInv'
      BY <2>7, <3>3 DEF ForwardCancellation, ForwardCancellationFails, TypeInv, HandInv
    <3> QED
      BY <3>4, <3>5 DEF TypeInv
  <2>8. CASE DispatchNoOp(r)
    BY <2>8 DEF DispatchNoOp, TypeInv, TypeOK, HandInv, Step, topicVars, brokerVars
  <2>9. CASE DispatchPrompt(r) \/ DispatchPromptFails(r)
    <3>1. requests' \in Seq(InferenceRequestEnvelope) /\ requestSeq' \in Nat
      BY <2>9, AcceptType, EnvelopeType DEF DispatchPrompt, DispatchPromptFails, TypeInv, TypeOK
    <3>2. /\ step' \in [Replica -> Step]
          /\ step'[r] # "forward" /\ step[r] # "idle"
          /\ \A s \in Replica : s # r => step'[s] = step[s]
      BY <2>9 DEF DispatchPrompt, DispatchPromptFails, TypeInv, TypeOK, Step
    <3>3. TypeOK'
      <4>1. /\ UNCHANGED <<log, cancels, cancelSeq, brokerVars, phase, cursor, seen, reducer, hand>>
            /\ faults' = faults \/ FaultHappens("publish")
        BY <2>9 DEF DispatchPrompt, DispatchPromptFails
      <4> QED
        BY <3>1, <3>2, <4>1 DEF FaultHappens, TypeInv, TypeOK, brokerVars
    <3>4. HandInv'
      BY <2>9, <3>2 DEF DispatchPrompt, DispatchPromptFails, TypeInv, HandInv
    <3> QED
      BY <3>3, <3>4 DEF TypeInv
  <2>10. CASE Acknowledge(r)
    BY <2>10 DEF Acknowledge, TypeInv, TypeOK, HandInv, Step, topicVars
  <2>11. CASE NegativeAcknowledge(r)
    BY <2>11 DEF NegativeAcknowledge, TypeInv, TypeOK, HandInv, Step, topicVars
  <2>12. CASE ReplayStalls(r)
    BY <2>12 DEF ReplayStalls, FaultHappens, TypeInv, TypeOK, HandInv, Phase, topicVars, brokerVars
  <2>13. CASE SessionLost(r)
    BY <2>13 DEF SessionLost, FaultHappens, LeavesSubscription, TypeInv, TypeOK, HandInv, Phase,
       topicVars
  <2>14. CASE Crash(r)
    <3>1. InitialReducerState \in ReducerState
      BY DEF InitialReducerState, ReducerState
    <3>2. TypeOK'
      BY <2>14, <3>1 DEF Crash, FaultHappens, LeavesSubscription, TypeInv, TypeOK,
         Phase, Step, topicVars
    <3>3. HandInv'
      BY <2>14 DEF Crash, TypeInv, TypeOK, HandInv, topicVars
    <3> QED
      BY <3>2, <3>3 DEF TypeInv
  <2> QED
    BY <1>4, <2>1, <2>2, <2>3, <2>4, <2>5, <2>6, <2>7, <2>8, <2>9, <2>10, <2>11, <2>12, <2>13,
       <2>14 DEF WorkerStep, FaultStep, Handle
<1>5. CASE UNCHANGED vars
  BY <1>5 DEF vars, topicVars, brokerVars, workerVars, TypeInv, TypeOK, HandInv
<1> QED
  BY <1>1, <1>2, <1>3, <1>4, <1>5 DEF Next, DispatcherStep, UserStep

\* Every variable keeps its type, whatever the replicas and the faults.
THEOREM TypeCorrect == Spec => []TypeOK
<1>1. TypeInv => TypeOK
  BY DEF TypeInv
<1> QED
  BY <1>1, InitTypeInv, NextTypeInv, PTL DEF Spec

-----------------------------------------------------------------------------
(***************************************************************************)
(* Single flight.                                                          *)
(*                                                                         *)
(* The argument: a worker has always folded an initial segment of the log, *)
(* and from its replay on that segment covers everything the subscription  *)
(* will not deliver again.  So the next message it folds is the next one   *)
(* of the log, its projection says of its segment what the log says, and   *)
(* the head of its queue is the head of the conversation's.                *)
(***************************************************************************)

\* One coordinator replica runs, and no replay ends before the history does.
Uninterrupted == (\E r \in Replica : Replica = {r}) /\ "stall" \notin Fault

WorkerInv(r) ==
  /\ phase[r] = "down" => /\ step[r] = "idle"
                          /\ seen[r] = {}
                          /\ reducer[r] = InitialReducerState
  /\ phase[r] = "replaying" => step[r] = "idle" /\ seen[r] = 1 .. cursor[r]
  /\ active = r => /\ phase[r] = "live"
                   /\ nacked \subseteq seen[r]
                   /\ \A j \in DOMAIN log : j <= readPos => j \in seen[r]
  /\ \A i \in seen[r], j \in DOMAIN log : j < i => j \in seen[r]
  /\ CaughtUp(r) => acked \subseteq seen[r]
  /\ Projects(log, seen[r], reducer[r])

RequestInv ==
  /\ \A i \in DOMAIN requests :
       requests[i].prompt \in KeptPrompts(log) /\ requests[i].prompt <= requestSeq
  /\ \A i, j \in DOMAIN requests : i < j => requests[i].prompt < requests[j].prompt
  /\ NoOvertaking

QueueInv == TypeInv /\ (\A r \in Replica : WorkerInv(r)) /\ RequestInv

LEMMA InitQueueInv == Init => QueueInv
<1> SUFFICES ASSUME Init PROVE QueueInv
  OBVIOUS
<1>1. TypeInv
  BY InitTypeInv
<1>2. ASSUME NEW r \in Replica PROVE WorkerInv(r)
  BY DispatcherAssumption DEF Init, WorkerInv, CaughtUp, Projects, InitialReducerState
<1>3. RequestInv
  BY DEF Init, RequestInv, NoOvertaking, Dispatched
<1> QED
  BY <1>1, <1>2, <1>3 DEF QueueInv

\* The prompts the conversation keeps, and the ones settled, only grow; a new
\* prompt comes after all others.
LEMMA GrownPrompts ==
  ASSUME NEW old \in Seq(Event), NEW e \in Event
  PROVE  /\ KeptPrompts(old) \subseteq KeptPrompts(Append(old, e))
         /\ KeptPrompts(Append(old, e)) \subseteq KeptPrompts(old) \cup {Len(old) + 1}
         /\ Resolved(old) \subseteq Resolved(Append(old, e))
<1>1. KeptPrompts(old) \subseteq KeptPrompts(Append(old, e))
  BY GrownLog DEF KeptPrompts
<1>2. KeptPrompts(Append(old, e)) \subseteq KeptPrompts(old) \cup {Len(old) + 1}
  BY GrownLog DEF KeptPrompts
<1>3. Resolved(old) \subseteq Resolved(Append(old, e))
  BY GrownLog DEF Resolved
<1> QED
  BY <1>1, <1>2, <1>3

LEMMA GrowQueueInv ==
  ASSUME QueueInv, NEW e \in Event, log' = Append(log, e),
         UNCHANGED <<requests, requestSeq, cancels, cancelSeq, brokerVars, workerVars, faults>>
  PROVE  QueueInv'
<1>1. TypeInv'
  BY GrowTypeInv DEF QueueInv
<1>2. /\ log \in Seq(Event)
      /\ DOMAIN log' = DOMAIN log \cup {Len(log) + 1}
      /\ \A i \in DOMAIN log : i < Len(log) + 1
  BY GrownLog DEF QueueInv, TypeInv, TypeOK
<1>3. ASSUME NEW r \in Replica PROVE WorkerInv(r)'
  <2>1. seen[r] \in SUBSET DOMAIN log /\ readPos \in 0 .. Len(log)
    BY DEF QueueInv, TypeInv, TypeOK
  <2>2. Projects(log', seen[r], reducer[r])
    BY <1>2, <2>1, ProjectsGrownLog DEF QueueInv, WorkerInv
  <2>3. \A i \in seen[r], j \in DOMAIN log' : j < i => j \in seen[r]
    BY <1>2, <2>1 DEF QueueInv, WorkerInv
  <2>4. \A j \in DOMAIN log' : j <= readPos => j \in DOMAIN log
    BY <1>2, <2>1
  <2> QED
    BY <2>2, <2>3, <2>4 DEF QueueInv, WorkerInv, CaughtUp, brokerVars, workerVars
<1>4. RequestInv'
  <2>1. /\ KeptPrompts(log) \subseteq KeptPrompts(log')
        /\ KeptPrompts(log') \subseteq KeptPrompts(log) \cup {Len(log) + 1}
        /\ Resolved(log) \subseteq Resolved(log')
    BY <1>2, GrownPrompts
  <2>2. \A p \in Dispatched : p \in DOMAIN log
    BY DEF QueueInv, RequestInv, Dispatched, KeptPrompts
  <2>3. NoOvertaking'
    <3> SUFFICES ASSUME NEW p \in Dispatched, NEW q \in KeptPrompts(log'), q < p
                 PROVE  q \in Resolved(log')
      BY DEF NoOvertaking, Dispatched
    <3>1. q # Len(log) + 1
      BY <1>2, <2>2
    <3> QED
      BY <2>1, <3>1 DEF QueueInv, RequestInv, NoOvertaking
  <2> QED
    BY <2>1, <2>3 DEF QueueInv, RequestInv
<1> QED
  BY <1>1, <1>3, <1>4 DEF QueueInv

\* Folding a message whose predecessors are all folded.
LEMMA FoldNext ==
  ASSUME QueueInv, NEW r \in Replica, NEW i \in DOMAIN log, FoldOnce(r, i),
         \A j \in DOMAIN log : j < i => j \in seen[r]
  PROVE  /\ seen'[r] = seen[r] \cup {i}
         /\ Projects(log, seen'[r], reducer'[r])
         /\ \A h \in seen'[r], j \in DOMAIN log : j < h => j \in seen'[r]
         /\ \A s \in Replica : s # r => seen'[s] = seen[s] /\ reducer'[s] = reducer[s]
<1>1. /\ log \in Seq(Event)
      /\ seen \in [Replica -> SUBSET DOMAIN log]
      /\ reducer \in [Replica -> ReducerState]
      /\ Projects(log, seen[r], reducer[r])
      /\ \A h \in seen[r], j \in DOMAIN log : j < h => j \in seen[r]
  BY DEF QueueInv, TypeInv, TypeOK, WorkerInv
<1>2. seen'[r] = seen[r] \cup {i}
  BY FoldOnceType DEF QueueInv
<1>3. CASE i \in seen[r]
  BY <1>1, <1>2, <1>3 DEF FoldOnce
<1>4. CASE i \notin seen[r]
  <2>1. seen[r] \in SUBSET DOMAIN log /\ reducer[r] \in ReducerState
    BY <1>1
  <2>2. \A j \in seen[r] : j < i
    BY <1>1, <1>4
  <2>3. Projects(log, seen[r] \cup {i}, StepReducer(reducer[r], i, log[i]))
    BY <1>1, <1>4, <2>1, <2>2, StepReducerProjects
  <2>4. /\ reducer'[r] = StepReducer(reducer[r], i, log[i])
        /\ \A s \in Replica : s # r => seen'[s] = seen[s] /\ reducer'[s] = reducer[s]
    BY <1>1, <1>4 DEF FoldOnce
  <2> QED
    BY <1>1, <1>2, <2>3, <2>4
<1> QED
  BY <1>3, <1>4

\* Whatever the broker delivers, the worker has folded all that comes before.
LEMMA DeliveredIsNext ==
  ASSUME QueueInv, NEW r \in Replica, active = r, NEW i \in DOMAIN log, Deliverable(i)
  PROVE  \A j \in DOMAIN log : j < i => j \in seen[r]
<1>1. /\ nacked \subseteq seen[r]
      /\ acked \subseteq seen[r]
      /\ \A j \in DOMAIN log : j <= readPos => j \in seen[r]
      /\ \A h \in seen[r], j \in DOMAIN log : j < h => j \in seen[r]
  BY DEF QueueInv, WorkerInv, CaughtUp
<1>2. readPos \in Int /\ \A j \in DOMAIN log : j \in Int
  BY DEF QueueInv, TypeInv, TypeOK
<1> QED
  BY <1>1, <1>2 DEF Deliverable

\* The request for the head of a worker's queue keeps the requests in order.
LEMMA AcceptHead ==
  ASSUME QueueInv, UNCHANGED log, NEW r \in Replica, NEW k \in DOMAIN reducer[r].messages,
         IsNextDispatchable(log, reducer[r], k),
         AcceptRequest(EnvelopeFor(reducer[r], k))
  PROVE  RequestInv'
<1> DEFINE p == reducer[r].messages[k]
<1>1. /\ log \in Seq(Event)
      /\ seen[r] \in SUBSET DOMAIN log
      /\ reducer[r] \in ReducerState
      /\ Projects(log, seen[r], reducer[r])
      /\ \A h \in seen[r], j \in DOMAIN log : j < h => j \in seen[r]
  BY DEF QueueInv, TypeInv, TypeOK, WorkerInv
<1>2. /\ p \in KeptPrompts(log)
      /\ \A q \in KeptPrompts(log) : q < p => q \in Resolved(log)
  BY <1>1, HeadIsNext
<1>3. EnvelopeFor(reducer[r], k).prompt = p
  BY DEF EnvelopeFor
<1>4. CASE p > requestSeq
  <2>1. requests' = Append(requests, EnvelopeFor(reducer[r], k)) /\ requestSeq' = p
    BY <1>3, <1>4 DEF AcceptRequest
  <2>2. requests \in Seq(InferenceRequestEnvelope) /\ requestSeq \in Int /\ p \in Int
    BY <1>2 DEF QueueInv, TypeInv, TypeOK, KeptPrompts
  <2>3. EnvelopeFor(reducer[r], k) \in InferenceRequestEnvelope
    BY <1>1, EnvelopeType
  <2>4. /\ DOMAIN requests' = DOMAIN requests \cup {Len(requests) + 1}
        /\ \A i \in DOMAIN requests : requests'[i] = requests[i] /\ i < Len(requests) + 1
        /\ requests'[Len(requests) + 1].prompt = p
    BY <1>3, <2>1, <2>2, <2>3
  <2>5. \A i \in DOMAIN requests :
          requests[i].prompt \in KeptPrompts(log) /\ requests[i].prompt <= requestSeq
    BY DEF QueueInv, RequestInv
  <2>6. \A i \in DOMAIN requests : requests[i].prompt \in Int /\ requests[i].prompt < p
    BY <1>4, <2>2, <2>5 DEF KeptPrompts
  <2>7. \A i \in DOMAIN requests' :
          requests'[i].prompt \in KeptPrompts(log') /\ requests'[i].prompt <= requestSeq'
    BY <1>2, <2>1, <2>2, <2>4, <2>5, <2>6
  <2>8. \A i, j \in DOMAIN requests' : i < j => requests'[i].prompt < requests'[j].prompt
    BY <2>2, <2>4, <2>6 DEF QueueInv, RequestInv
  <2>9. NoOvertaking'
    BY <1>2, <2>4 DEF QueueInv, RequestInv, NoOvertaking, Dispatched
  <2> QED
    BY <2>7, <2>8, <2>9 DEF RequestInv
<1>5. CASE ~ (p > requestSeq)
  BY <1>3, <1>5 DEF AcceptRequest, QueueInv, RequestInv, NoOvertaking, Dispatched
<1> QED
  BY <1>4, <1>5

\* A step that leaves the topics' requests alone keeps what is said of them.
LEMMA SameRequests ==
  ASSUME QueueInv, UNCHANGED <<log, requests, requestSeq>>
  PROVE  RequestInv'
BY DEF QueueInv, RequestInv, NoOvertaking, Dispatched

\* A step of worker r's handler that leaves every projection alone, and the
\* broker but for acknowledging or rejecting what is folded.
LEMMA HandlerStep ==
  ASSUME Uninterrupted, QueueInv, NEW r \in Replica, step[r] # "idle",
         UNCHANGED <<log, readPos, active, phase, cursor, seen, reducer>>,
         acked' \subseteq acked \cup {hand[r]},
         nacked' \subseteq nacked \cup {hand[r]},
         \A s \in Replica : s # r => step'[s] = step[s]
  PROVE  \A s \in Replica : WorkerInv(s)'
<1>1. Replica = {r}
  BY DEF Uninterrupted
<1>2. hand[r] \in seen[r]
  BY DEF QueueInv, TypeInv, HandInv
<1>3. phase[r] \notin {"down", "replaying"}
  BY DEF QueueInv, WorkerInv
<1> QED
  BY <1>1, <1>2, <1>3 DEF QueueInv, WorkerInv, CaughtUp

LEMMA NextQueueInv == Uninterrupted /\ QueueInv /\ [Next]_vars => QueueInv'
<1> SUFFICES ASSUME Uninterrupted, QueueInv, [Next]_vars PROVE QueueInv'
  OBVIOUS
<1> USE DispatcherAssumption
<1>1. TypeInv'
  BY NextTypeInv DEF QueueInv
<1>2. ASSUME NEW k \in Key, SubmitPrompt(k) PROVE QueueInv'
  <2>1. PromptEvent(k) \in Event
    BY DEF PromptEvent, Event
  <2> QED
    BY <1>2, <2>1, GrowQueueInv DEF SubmitPrompt
<1>3. ASSUME NEW p \in DOMAIN log, CancelPrompt(p) PROVE QueueInv'
  <2>1. CancelEvent(p) \in Event
    BY DEF CancelEvent, Event, MessageId, QueueInv, TypeInv, TypeOK
  <2> QED
    BY <1>3, <2>1, GrowQueueInv DEF CancelPrompt
<1>4. ASSUME NEW p \in Dispatched, ResultArrives(p) PROVE QueueInv'
  <2>1. p \in MessageId
    BY DEF Dispatched, MessageId, KeptPrompts, QueueInv, RequestInv, TypeInv, TypeOK
  <2>2. ResultEvent(p) \in Event
    BY <2>1 DEF ResultEvent, Event
  <2> QED
    BY <1>4, <2>2, GrowQueueInv DEF ResultArrives
<1>5. ASSUME NEW r \in Replica, WorkerStep(r) \/ FaultStep(r) PROVE QueueInv'
  <2>1. Replica = {r}
    BY DEF Uninterrupted
  <2>2. /\ WorkerInv(r) /\ TypeOK
        /\ phase[r] \in Phase /\ cursor[r] \in 0 .. Len(log)
        /\ log \in Seq(Event) /\ seen[r] \in SUBSET DOMAIN log /\ acked \subseteq DOMAIN log
    BY DEF QueueInv, TypeInv, TypeOK
  <2>3. CASE StartWorker(r)
    <3>1. phase'[r] = "replaying" /\ seen'[r] = 1 .. cursor'[r] /\ step'[r] = "idle"
      BY <2>2, <2>3 DEF StartWorker, WorkerInv, TypeOK
    <3>2. WorkerInv(r)'
      BY <2>2, <2>3, <3>1 DEF StartWorker, WorkerInv, CaughtUp, topicVars, brokerVars
    <3> QED
      BY <1>1, <2>1, <2>3, <3>2, SameRequests DEF StartWorker, QueueInv, topicVars
  <2>4. CASE ReplayFrame(r)
    <3> DEFINE i == cursor[r] + 1
    <3>1. i \in DOMAIN log /\ \A j \in DOMAIN log : j < i => j \in seen[r]
      BY <2>2, <2>4 DEF ReplayFrame, WorkerInv
    <3>2. /\ seen'[r] = seen[r] \cup {i}
          /\ Projects(log, seen'[r], reducer'[r])
          /\ \A h \in seen'[r], j \in DOMAIN log : j < h => j \in seen'[r]
      BY <2>4, <3>1, FoldNext DEF ReplayFrame
    <3>3. cursor'[r] = i /\ phase'[r] = "replaying" /\ step'[r] = "idle"
      BY <2>2, <2>4 DEF ReplayFrame, TypeOK, WorkerInv
    <3>4. seen'[r] = 1 .. cursor'[r]
      BY <2>2, <2>4, <3>2, <3>3 DEF ReplayFrame, WorkerInv
    <3>5. WorkerInv(r)'
      BY <2>2, <2>4, <3>2, <3>3, <3>4
      DEF ReplayFrame, WorkerInv, CaughtUp, topicVars, brokerVars
    <3> QED
      BY <1>1, <2>1, <2>4, <3>5, SameRequests DEF ReplayFrame, QueueInv, topicVars
  <2>5. CASE ReplayCaughtUp(r)
    <3>1. seen[r] = DOMAIN log
      BY <2>2, <2>5 DEF ReplayCaughtUp, WorkerInv
    <3>2. WorkerInv(r)'
      BY <2>2, <2>5, <3>1 DEF ReplayCaughtUp, WorkerInv, CaughtUp, TypeOK, topicVars, brokerVars
    <3> QED
      BY <1>1, <2>1, <2>5, <3>2, SameRequests DEF ReplayCaughtUp, QueueInv, topicVars
  <2>6. CASE JoinSubscription(r)
    <3>1. WorkerInv(r)'
      BY <2>2, <2>6 DEF JoinSubscription, WorkerInv, CaughtUp, TypeOK, topicVars, brokerVars
    <3> QED
      BY <1>1, <2>1, <2>6, <3>1, SameRequests DEF JoinSubscription, QueueInv, topicVars
  <2>7. CASE Promote(r)
    <3>1. WorkerInv(r)'
      BY <2>2, <2>7 DEF Promote, WorkerInv, CaughtUp, topicVars, workerVars
    <3> QED
      BY <1>1, <2>1, <2>7, <3>1, SameRequests DEF Promote, QueueInv, topicVars
  <2>8. ASSUME NEW i \in DOMAIN log, Receive(r, i) PROVE QueueInv'
    <3>1. \A j \in DOMAIN log : j < i => j \in seen[r]
      BY <2>8, DeliveredIsNext DEF Receive
    <3>2. /\ seen'[r] = seen[r] \cup {i}
          /\ Projects(log, seen'[r], reducer'[r])
          /\ \A h \in seen'[r], j \in DOMAIN log : j < h => j \in seen'[r]
      BY <2>8, <3>1, FoldNext DEF Receive
    <3>3. phase'[r] = "live" /\ log' = log /\ active = r /\ active' = active /\ acked' = acked
      BY <2>8 DEF Receive, topicVars
    <3>4. nacked' \subseteq seen'[r] /\ \A j \in DOMAIN log : j <= readPos' => j \in seen'[r]
      BY <2>2, <2>8, <3>1, <3>2 DEF Receive, WorkerInv, TypeOK
    <3>5. acked \subseteq seen'[r]
      BY <2>2, <2>8, <3>2 DEF Receive, WorkerInv, CaughtUp
    <3>6. WorkerInv(r)'
      BY <3>2, <3>3, <3>4, <3>5 DEF WorkerInv, CaughtUp
    <3> QED
      BY <1>1, <2>1, <2>8, <3>6, SameRequests DEF Receive, QueueInv, topicVars
  <2>9. CASE ForwardCancellation(r) \/ ForwardCancellationFails(r) \/ DispatchNoOp(r)
    <3>1. /\ step[r] # "idle"
          /\ UNCHANGED <<log, readPos, active, phase, cursor, seen, reducer>>
          /\ \A s \in Replica : s # r => step'[s] = step[s]
      BY <2>2, <2>9 DEF ForwardCancellation, ForwardCancellationFails, DispatchNoOp, TypeOK, topicVars, brokerVars
    <3>2. acked' \subseteq acked \cup {hand[r]} /\ nacked' \subseteq nacked \cup {hand[r]}
      BY <2>9 DEF ForwardCancellation, ForwardCancellationFails, DispatchNoOp, brokerVars
    <3>3. \A s \in Replica : WorkerInv(s)'
      BY <3>1, <3>2, HandlerStep
    <3> QED
      BY <1>1, <2>9, <3>3, SameRequests
      DEF ForwardCancellation, ForwardCancellationFails, DispatchNoOp, QueueInv, topicVars
  <2>10. CASE DispatchPrompt(r) \/ DispatchPromptFails(r)
    <3>1. /\ step[r] # "idle"
          /\ UNCHANGED <<log, readPos, active, phase, cursor, seen, reducer>>
          /\ \A s \in Replica : s # r => step'[s] = step[s]
      BY <2>2, <2>10 DEF DispatchPrompt, DispatchPromptFails, TypeOK, topicVars, brokerVars
    <3>2. acked' \subseteq acked \cup {hand[r]} /\ nacked' \subseteq nacked \cup {hand[r]}
      BY <2>10 DEF DispatchPrompt, DispatchPromptFails, brokerVars
    <3>3. \A s \in Replica : WorkerInv(s)'
      BY <3>1, <3>2, HandlerStep
    <3>4. RequestInv'
      BY <2>10, AcceptHead, SameRequests DEF DispatchPrompt, DispatchPromptFails
    <3> QED
      BY <1>1, <3>3, <3>4 DEF QueueInv
  <2>11. CASE Acknowledge(r) \/ NegativeAcknowledge(r)
    <3>1. /\ step[r] # "idle"
          /\ UNCHANGED <<log, readPos, active, phase, cursor, seen, reducer>>
          /\ \A s \in Replica : s # r => step'[s] = step[s]
      BY <2>2, <2>11 DEF Acknowledge, NegativeAcknowledge, TypeOK, topicVars, brokerVars
    <3>2. acked' \subseteq acked \cup {hand[r]} /\ nacked' \subseteq nacked \cup {hand[r]}
      BY <2>11 DEF Acknowledge, NegativeAcknowledge, brokerVars
    <3>3. \A s \in Replica : WorkerInv(s)'
      BY <3>1, <3>2, HandlerStep
    <3> QED
      BY <1>1, <2>11, <3>3, SameRequests DEF Acknowledge, NegativeAcknowledge, QueueInv, topicVars
  <2>12. CASE ReplayStalls(r)
    BY <2>12 DEF ReplayStalls, FaultHappens, Uninterrupted
  <2>13. CASE SessionLost(r)
    <3>1. phase'[r] = "joining" /\ active' # r
      BY <2>2, <2>13 DEF SessionLost, LeavesSubscription, TypeOK
    <3>2. WorkerInv(r)'
      BY <2>2, <2>13, <3>1 DEF SessionLost, WorkerInv, CaughtUp, topicVars
    <3> QED
      BY <1>1, <2>1, <2>13, <3>2, SameRequests DEF SessionLost, QueueInv, topicVars
  <2>14. CASE Crash(r)
    <3>1. /\ phase'[r] = "down" /\ step'[r] = "idle" /\ active' # r
          /\ seen'[r] = {} /\ reducer'[r] = InitialReducerState
      BY <2>2, <2>14 DEF Crash, LeavesSubscription, TypeOK
    <3>2. Projects(log', {}, InitialReducerState)
      BY DEF Projects, InitialReducerState
    <3>3. WorkerInv(r)'
      BY <3>1, <3>2 DEF WorkerInv, CaughtUp
    <3> QED
      BY <1>1, <2>1, <2>14, <3>3, SameRequests DEF Crash, QueueInv, topicVars
  <2> QED
    BY <1>5, <2>3, <2>4, <2>5, <2>6, <2>7, <2>8, <2>9, <2>10, <2>11, <2>12, <2>13, <2>14
    DEF WorkerStep, FaultStep, Handle
<1>6. CASE UNCHANGED vars
  BY <1>1, <1>6, SameRequests
  DEF vars, topicVars, brokerVars, workerVars, QueueInv, WorkerInv, CaughtUp
<1> QED
  BY <1>2, <1>3, <1>4, <1>5, <1>6 DEF Next, DispatcherStep, UserStep

\* Single flight: no prompt is dispatched before the ones the conversation keeps
\* ahead of it are settled, through crashes, lost sessions and failed publishes.
THEOREM SingleFlight ==
  ASSUME Uninterrupted PROVE Spec => []NoOvertaking
<1>1. QueueInv => NoOvertaking
  BY DEF QueueInv, RequestInv
<1>2. Init => QueueInv
  BY InitQueueInv
<1>3. QueueInv /\ [Next]_vars => QueueInv'
  BY NextQueueInv
<1> QED
  BY <1>1, <1>2, <1>3, PTL DEF Spec

\* Recovery: a restarted worker has folded whatever its subscription will not
\* deliver again before it decides anything.
THEOREM RecoveryHasNoGap ==
  ASSUME Uninterrupted PROVE Spec => []NoGap
<1>1. QueueInv => NoGap
  BY DEF QueueInv, WorkerInv, NoGap
<1>2. Init => QueueInv
  BY InitQueueInv
<1>3. QueueInv /\ [Next]_vars => QueueInv'
  BY NextQueueInv
<1> QED
  BY <1>1, <1>2, <1>3, PTL DEF Spec

\* Every worker's projection says of the messages it folded what the log says.
THEOREM ProjectionFaithful ==
  ASSUME Uninterrupted PROVE Spec => []ProjectionIsFaithful
<1>1. QueueInv => ProjectionIsFaithful
  BY DEF QueueInv, WorkerInv, ProjectionIsFaithful
<1>2. Init => QueueInv
  BY InitQueueInv
<1>3. QueueInv /\ [Next]_vars => QueueInv'
  BY NextQueueInv
<1> QED
  BY <1>1, <1>2, <1>3, PTL DEF Spec

\* One client submission is dispatched at most once, however often it is
\* resubmitted, redelivered or replayed.
THEOREM DispatchedOncePerKey ==
  ASSUME Uninterrupted PROVE Spec => []OneDispatchPerKey
<1>1. ASSUME QueueInv PROVE OneDispatchPerKey
  <2> SUFFICES ASSUME NEW i \in DOMAIN requests, NEW j \in DOMAIN requests, i # j
               PROVE  log[requests[i].prompt].key # log[requests[j].prompt].key
    BY DEF OneDispatchPerKey
  <2>1. /\ requests[i].prompt \in KeptPrompts(log)
        /\ requests[j].prompt \in KeptPrompts(log)
        /\ i \in Int /\ j \in Int
    BY <1>1 DEF QueueInv, RequestInv, TypeInv, TypeOK
  <2>2. \/ requests[i].prompt < requests[j].prompt
        \/ requests[j].prompt < requests[i].prompt
    BY <1>1, <2>1 DEF QueueInv, RequestInv
  <2> QED
    BY <2>1, <2>2 DEF KeptPrompts, FirstOfKey
<1>2. Init => QueueInv
  BY InitQueueInv
<1>3. QueueInv /\ [Next]_vars => QueueInv'
  BY NextQueueInv
<1> QED
  BY <1>1, <1>2, <1>3, PTL DEF Spec

-----------------------------------------------------------------------------
(***************************************************************************)
(* Several coordinators.                                                   *)
(*                                                                         *)
(* Replicas that take over from one another, or whose replay ended early,  *)
(* miss messages, and with them the order of the queue.  But what a worker *)
(* misses of the messages before one it has folded is acknowledged and     *)
(* will not be delivered again, so it folds in the order of the log.  As   *)
(* long as the broker keeps resubmissions off the log, its projection is   *)
(* right about what it has folded, and a key is dispatched once.           *)
(***************************************************************************)

\* No two prompts of the log have one client key.
KeysOnce ==
  \A i, j \in DOMAIN log :
    IsPrompt(log[i]) /\ IsPrompt(log[j]) /\ log[i].key = log[j].key => i = j

ReplicaInv(r) ==
  /\ phase[r] = "down" => /\ step[r] = "idle"
                          /\ seen[r] = {}
                          /\ reducer[r] = InitialReducerState
  /\ phase[r] = "replaying" => step[r] = "idle" /\ seen[r] = 1 .. cursor[r]
  /\ phase[r] = "live" /\ step[r] # "idle" => active = r
  /\ active = r => /\ phase[r] = "live"
                   /\ nacked \subseteq seen[r]
                   /\ \A j \in DOMAIN log : j <= readPos => j \in seen[r] \cup acked
  /\ \A i \in seen[r], j \in DOMAIN log : j < i => j \in seen[r] \cup acked
  /\ Projects(log, seen[r], reducer[r])

RequestsRise ==
  /\ \A i \in DOMAIN requests :
       /\ requests[i].prompt \in DOMAIN log /\ IsPrompt(log[requests[i].prompt])
       /\ requests[i].prompt <= requestSeq
  /\ \A i, j \in DOMAIN requests : i < j => requests[i].prompt < requests[j].prompt

SharedInv == TypeInv /\ KeysOnce /\ (\A r \in Replica : ReplicaInv(r)) /\ RequestsRise

LEMMA InitSharedInv == Init => SharedInv
<1> SUFFICES ASSUME Init PROVE SharedInv
  OBVIOUS
<1>1. TypeInv
  BY InitTypeInv
<1>2. ASSUME NEW r \in Replica PROVE ReplicaInv(r)
  BY DispatcherAssumption DEF Init, ReplicaInv, Projects, InitialReducerState
<1>3. KeysOnce /\ RequestsRise
  BY DEF Init, KeysOnce, RequestsRise
<1> QED
  BY <1>1, <1>2, <1>3 DEF SharedInv

\* Something is appended to the log that is no resubmission.
LEMMA GrowSharedInv ==
  ASSUME SharedInv, NEW e \in Event, log' = Append(log, e),
         \A i \in DOMAIN log : IsPrompt(log[i]) /\ IsPrompt(e) => log[i].key # e.key,
         UNCHANGED <<requests, requestSeq, cancels, cancelSeq, brokerVars, workerVars, faults>>
  PROVE  SharedInv'
<1>1. TypeInv'
  BY GrowTypeInv DEF SharedInv
<1>2. /\ log \in Seq(Event) /\ Len(log) \in Nat
      /\ DOMAIN log' = DOMAIN log \cup {Len(log) + 1}
      /\ \A i \in DOMAIN log : i < Len(log) + 1 /\ log'[i] = log[i]
      /\ log'[Len(log) + 1] = e
  BY GrownLog DEF SharedInv, TypeInv, TypeOK
<1>3. ASSUME NEW r \in Replica PROVE ReplicaInv(r)'
  <2>1. seen[r] \in SUBSET DOMAIN log /\ readPos \in 0 .. Len(log)
    BY DEF SharedInv, TypeInv, TypeOK
  <2>2. Projects(log', seen[r], reducer[r])
    BY <1>2, <2>1, ProjectsGrownLog DEF SharedInv, ReplicaInv
  <2>3. \A i \in seen[r], j \in DOMAIN log' : j < i => j \in seen[r] \cup acked
    BY <1>2, <2>1 DEF SharedInv, ReplicaInv
  <2>4. \A j \in DOMAIN log' : j <= readPos => j \in DOMAIN log
    BY <1>2, <2>1
  <2> QED
    BY <1>2, <2>2, <2>3, <2>4 DEF SharedInv, ReplicaInv, brokerVars, workerVars
<1>4. KeysOnce'
  BY <1>2 DEF SharedInv, KeysOnce
<1>5. RequestsRise'
  BY <1>2 DEF SharedInv, RequestsRise
<1> QED
  BY <1>1, <1>3, <1>4, <1>5 DEF SharedInv

\* Folding a message when all before it is folded or acknowledged.
LEMMA FoldShared ==
  ASSUME SharedInv, NEW r \in Replica, NEW i \in DOMAIN log, FoldOnce(r, i),
         i \notin acked \/ i \in seen[r] \/ \A h \in seen[r] : h < i,
         \A j \in DOMAIN log : j < i => j \in seen[r] \cup acked
  PROVE  /\ seen'[r] = seen[r] \cup {i}
         /\ Projects(log, seen'[r], reducer'[r])
         /\ \A h \in seen'[r], j \in DOMAIN log : j < h => j \in seen'[r] \cup acked
         /\ \A s \in Replica : s # r => seen'[s] = seen[s] /\ reducer'[s] = reducer[s]
<1>1. /\ log \in Seq(Event)
      /\ seen \in [Replica -> SUBSET DOMAIN log]
      /\ reducer \in [Replica -> ReducerState]
      /\ Projects(log, seen[r], reducer[r])
      /\ \A h \in seen[r], j \in DOMAIN log : j < h => j \in seen[r] \cup acked
  BY DEF SharedInv, TypeInv, TypeOK, ReplicaInv
<1>2. seen'[r] = seen[r] \cup {i}
  BY FoldOnceType DEF SharedInv
<1>3. CASE i \in seen[r]
  BY <1>1, <1>2, <1>3 DEF FoldOnce
<1>4. CASE i \notin seen[r]
  <2>1. seen[r] \in SUBSET DOMAIN log /\ reducer[r] \in ReducerState
    BY <1>1
  <2>2. \A j \in seen[r] : j < i
    BY <1>1, <1>4
  <2>3. IsDropped(reducer[r], log[i]) <=> IsPrompt(log[i]) /\ ~ FirstOfKey(log, i)
    <3>1. IsPrompt(log[i]) => FirstOfKey(log, i)
      BY <1>1 DEF SharedInv, KeysOnce, FirstOfKey
    <3>2. ~ IsDropped(reducer[r], log[i])
      BY <1>1, <1>4 DEF SharedInv, KeysOnce, IsDropped, Projects
    <3> QED
      BY <3>1, <3>2
  <2>4. Projects(log, seen[r] \cup {i}, StepReducer(reducer[r], i, log[i]))
    BY <1>1, <1>4, <2>1, <2>2, <2>3, FoldProjects
  <2>5. /\ reducer'[r] = StepReducer(reducer[r], i, log[i])
        /\ \A s \in Replica : s # r => seen'[s] = seen[s] /\ reducer'[s] = reducer[s]
    BY <1>1, <1>4 DEF FoldOnce
  <2> QED
    BY <1>1, <1>2, <2>4, <2>5
<1> QED
  BY <1>3, <1>4

\* The request for the head of any worker's queue keeps the requests in order.
LEMMA AcceptShared ==
  ASSUME SharedInv, UNCHANGED log, NEW r \in Replica, NEW k \in DOMAIN reducer[r].messages,
         IsNextDispatchable(log, reducer[r], k),
         AcceptRequest(EnvelopeFor(reducer[r], k))
  PROVE  RequestsRise'
<1> DEFINE p == reducer[r].messages[k]
<1>1. /\ log \in Seq(Event) /\ seen[r] \in SUBSET DOMAIN log /\ reducer[r] \in ReducerState
      /\ Projects(log, seen[r], reducer[r]) /\ requestSeq \in Int
      /\ requests \in Seq(InferenceRequestEnvelope)
  BY DEF SharedInv, TypeInv, TypeOK, ReplicaInv
<1>2. p \in DOMAIN log /\ IsPrompt(log[p]) /\ p \in Int
  BY <1>1 DEF Projects, IsNextDispatchable, InflightUserPrompts
<1>3. EnvelopeFor(reducer[r], k).prompt = p
  BY DEF EnvelopeFor
<1>4. CASE p > requestSeq
  <2>1. requests' = Append(requests, EnvelopeFor(reducer[r], k)) /\ requestSeq' = p
    BY <1>3, <1>4 DEF AcceptRequest
  <2>2. EnvelopeFor(reducer[r], k) \in InferenceRequestEnvelope
    BY <1>1, EnvelopeType
  <2>3. /\ DOMAIN requests' = DOMAIN requests \cup {Len(requests) + 1}
        /\ \A i \in DOMAIN requests : requests'[i] = requests[i] /\ i < Len(requests) + 1
        /\ requests'[Len(requests) + 1].prompt = p
    BY <1>1, <1>3, <2>1, <2>2
  <2>4. \A i \in DOMAIN requests : requests[i].prompt \in Int /\ requests[i].prompt < p
    BY <1>1, <1>2, <1>4 DEF SharedInv, RequestsRise
  <2>5. \A i \in DOMAIN requests' :
          /\ requests'[i].prompt \in DOMAIN log' /\ IsPrompt(log'[requests'[i].prompt])
          /\ requests'[i].prompt <= requestSeq'
    BY <1>2, <2>1, <2>3, <2>4 DEF SharedInv, RequestsRise
  <2>6. \A i, j \in DOMAIN requests' : i < j => requests'[i].prompt < requests'[j].prompt
    BY <1>1, <2>3, <2>4 DEF SharedInv, RequestsRise
  <2> QED
    BY <2>5, <2>6 DEF RequestsRise
<1>5. CASE ~ (p > requestSeq)
  BY <1>3, <1>5 DEF AcceptRequest, SharedInv, RequestsRise
<1> QED
  BY <1>4, <1>5

\* A step of worker r's handler that leaves every projection alone, and the
\* broker but for acknowledging or, in an open session, rejecting its message.
LEMMA SharedHandlerStep ==
  ASSUME SharedInv, NEW r \in Replica, step[r] # "idle",
         UNCHANGED <<log, readPos, active, phase, cursor, seen, reducer>>,
         acked \subseteq acked',
         nacked' \subseteq nacked \cup (IF phase[r] = "live" THEN {hand[r]} ELSE {}),
         \A s \in Replica : s # r => step'[s] = step[s]
  PROVE  \A s \in Replica : ReplicaInv(s)'
<1> SUFFICES ASSUME NEW s \in Replica PROVE ReplicaInv(s)'
  OBVIOUS
<1>1. hand[r] \in seen[r] /\ phase[r] \notin {"down", "replaying"}
  BY DEF SharedInv, TypeInv, HandInv, ReplicaInv
<1>2. phase[r] = "live" => active = r
  BY DEF SharedInv, ReplicaInv
<1>3. ReplicaInv(s)
  BY DEF SharedInv
<1>4. active = s => nacked' \subseteq seen[s]
  BY <1>1, <1>2, <1>3 DEF ReplicaInv
<1>5. CASE s = r
  BY <1>1, <1>2, <1>3, <1>4, <1>5 DEF ReplicaInv
<1>6. CASE s # r
  BY <1>3, <1>4, <1>6 DEF ReplicaInv
<1> QED
  BY <1>5, <1>6

LEMMA NextSharedInv == Resubmittable = {} /\ SharedInv /\ [Next]_vars => SharedInv'
<1> SUFFICES ASSUME Resubmittable = {}, SharedInv, [Next]_vars PROVE SharedInv'
  OBVIOUS
<1> USE DispatcherAssumption
<1>1. TypeInv'
  BY NextTypeInv DEF SharedInv
<1>2. ASSUME NEW k \in Key, SubmitPrompt(k) PROVE SharedInv'
  <2>1. PromptEvent(k) \in Event /\ PromptEvent(k).key = k
    BY DEF PromptEvent, Event
  <2> QED
    BY <1>2, <2>1, GrowSharedInv DEF SubmitPrompt
<1>3. ASSUME NEW p \in DOMAIN log, CancelPrompt(p) PROVE SharedInv'
  <2>1. CancelEvent(p) \in Event /\ ~ IsPrompt(CancelEvent(p))
    BY DEF CancelEvent, Event, IsPrompt, MessageId, SharedInv, TypeInv, TypeOK
  <2> QED
    BY <1>3, <2>1, GrowSharedInv DEF CancelPrompt
<1>4. ASSUME NEW p \in Dispatched, ResultArrives(p) PROVE SharedInv'
  <2>1. p \in MessageId
    BY DEF Dispatched, MessageId, SharedInv, RequestsRise, TypeInv, TypeOK
  <2>2. ResultEvent(p) \in Event /\ ~ IsPrompt(ResultEvent(p))
    BY <2>1 DEF ResultEvent, Event, IsPrompt
  <2> QED
    BY <1>4, <2>2, GrowSharedInv DEF ResultArrives
<1>5. ASSUME NEW r \in Replica, WorkerStep(r) \/ FaultStep(r) PROVE SharedInv'
  <2>1. /\ TypeOK /\ KeysOnce /\ RequestsRise /\ \A s \in Replica : ReplicaInv(s)
        /\ phase \in [Replica -> Phase] /\ step \in [Replica -> Step]
        /\ cursor \in [Replica -> 0 .. Len(log)] /\ seen \in [Replica -> SUBSET DOMAIN log]
        /\ reducer \in [Replica -> ReducerState]
        /\ log \in Seq(Event) /\ acked \subseteq DOMAIN log /\ readPos \in 0 .. Len(log)
    BY DEF SharedInv, TypeInv, TypeOK
  <2>2. UNCHANGED <<log, requests, requestSeq>> => KeysOnce' /\ RequestsRise'
    BY <2>1 DEF KeysOnce, RequestsRise
  <2>3. CASE \/ StartWorker(r) \/ ReplayCaughtUp(r) \/ ReplayStalls(r)
             \/ JoinSubscription(r) \/ SessionLost(r)
    <3>1. /\ UNCHANGED <<topicVars, acked, readPos, nacked, seen, reducer, hand, step>>
          /\ active' = active \/ (active = r /\ active' = NoReplica)
          /\ \A s \in Replica : s # r => phase'[s] = phase[s] /\ cursor'[s] = cursor[s]
          /\ phase'[r] # "down" /\ (phase'[r] = "live" => phase[r] # "live" /\ step[r] = "idle")
          /\ active' = r => phase'[r] = "live"
          /\ phase'[r] = "replaying" => step[r] = "idle" /\ seen[r] = 1 .. cursor'[r]
      <4>0. ReplicaInv(r) /\ r # NoReplica
        BY <2>1
      <4>1. CASE StartWorker(r)
        <5>1. phase'[r] = "replaying" /\ cursor'[r] = 0 /\ seen[r] = {} /\ step[r] = "idle"
          BY <2>1, <4>0, <4>1 DEF StartWorker, ReplicaInv
        <5>2. seen[r] = 1 .. cursor'[r] /\ active # r
          BY <4>0, <4>1, <5>1 DEF StartWorker, ReplicaInv
        <5> QED
          BY <2>1, <4>1, <5>1, <5>2 DEF StartWorker, brokerVars
      <4>2. CASE ReplayCaughtUp(r) \/ ReplayStalls(r)
        <5>1. phase'[r] = "joining" /\ active # r
          BY <2>1, <4>0, <4>2 DEF ReplayCaughtUp, ReplayStalls, ReplicaInv
        <5> QED
          BY <2>1, <4>2, <5>1 DEF ReplayCaughtUp, ReplayStalls, brokerVars
      <4>3. CASE JoinSubscription(r)
        BY <2>1, <4>0, <4>3 DEF JoinSubscription, brokerVars
      <4>4. CASE SessionLost(r)
        BY <2>1, <4>0, <4>4 DEF SessionLost, LeavesSubscription
      <4> QED
        BY <2>3, <4>1, <4>2, <4>3, <4>4
    <3>2. ASSUME NEW s \in Replica PROVE ReplicaInv(s)'
      <4>1. CASE s = r
        BY <2>1, <3>1, <4>1 DEF ReplicaInv, topicVars
      <4>2. CASE s # r
        BY <2>1, <3>1, <4>2 DEF ReplicaInv, topicVars
      <4> QED
        BY <4>1, <4>2
    <3> QED
      BY <1>1, <2>2, <3>1, <3>2 DEF SharedInv, topicVars
  <2>4. CASE ReplayFrame(r)
    <3> DEFINE i == cursor[r] + 1
    <3>1. /\ i \in DOMAIN log /\ i \notin seen[r] /\ \A h \in seen[r] : h < i
          /\ \A j \in DOMAIN log : j < i => j \in seen[r]
      BY <2>1, <2>4 DEF ReplayFrame, ReplicaInv
    <3>2. /\ seen'[r] = seen[r] \cup {i}
          /\ Projects(log, seen'[r], reducer'[r])
          /\ \A h \in seen'[r], j \in DOMAIN log : j < h => j \in seen'[r] \cup acked
          /\ \A s \in Replica : s # r => seen'[s] = seen[s] /\ reducer'[s] = reducer[s]
      BY <2>4, <3>1, FoldShared DEF ReplayFrame
    <3>3. /\ cursor' = [cursor EXCEPT ![r] = i] /\ phase[r] = "replaying"
          /\ UNCHANGED <<topicVars, brokerVars, phase, hand, step>>
      BY <2>4 DEF ReplayFrame
    <3>4. seen'[r] = 1 .. cursor'[r]
      BY <2>1, <3>2, <3>3 DEF ReplicaInv
    <3>5. ASSUME NEW s \in Replica PROVE ReplicaInv(s)'
      <4>1. CASE s = r
        BY <2>1, <3>2, <3>3, <3>4, <4>1 DEF ReplicaInv, topicVars, brokerVars
      <4>2. CASE s # r
        BY <2>1, <3>2, <3>3, <4>2 DEF ReplicaInv, topicVars, brokerVars
      <4> QED
        BY <4>1, <4>2
    <3> QED
      BY <1>1, <2>2, <3>3, <3>5 DEF SharedInv, topicVars
  <2>5. CASE Promote(r)
    <3>1. /\ active = NoReplica /\ active' = r /\ readPos' = 0 /\ nacked' = {}
          /\ phase[r] = "live" /\ UNCHANGED <<topicVars, acked, workerVars>>
      BY <2>5 DEF Promote
    <3>2. ASSUME NEW s \in Replica PROVE ReplicaInv(s)'
      <4>1. s # NoReplica /\ ReplicaInv(s)
        BY <2>1
      <4>2. ~ (phase[s] = "live" /\ step[s] # "idle")
        BY <3>1, <4>1 DEF ReplicaInv
      <4>3. \A j \in DOMAIN log : ~ (j <= 0)
        BY <2>1
      <4> QED
        BY <3>1, <4>1, <4>2, <4>3 DEF ReplicaInv, topicVars, workerVars
    <3> QED
      BY <1>1, <2>2, <3>1, <3>2 DEF SharedInv, topicVars
  <2>6. ASSUME NEW i \in DOMAIN log, Receive(r, i) PROVE SharedInv'
    <3>1. /\ active = r /\ phase[r] = "live" /\ Deliverable(i)
          /\ readPos' = (IF i > readPos THEN i ELSE readPos) /\ nacked' = nacked \ {i}
          /\ FoldOnce(r, i) /\ UNCHANGED <<topicVars, acked, active, phase, cursor>>
          /\ \A s \in Replica : s # r => step'[s] = step[s]
      BY <2>1, <2>6 DEF Receive
    <3>2. ReplicaInv(r)
      BY <2>1
    <3>3. /\ i \notin acked \/ i \in seen[r]
          /\ \A j \in DOMAIN log : j < i => j \in seen[r] \cup acked
      BY <2>1, <3>1, <3>2 DEF Deliverable, ReplicaInv
    <3>4. /\ seen'[r] = seen[r] \cup {i}
          /\ Projects(log, seen'[r], reducer'[r])
          /\ \A h \in seen'[r], j \in DOMAIN log : j < h => j \in seen'[r] \cup acked
          /\ \A s \in Replica : s # r => seen'[s] = seen[s] /\ reducer'[s] = reducer[s]
      BY <3>1, <3>3, FoldShared
    <3>5. ReplicaInv(r)'
      <4>1. nacked' \subseteq seen'[r]
        BY <3>1, <3>2, <3>4 DEF ReplicaInv
      <4>2. \A j \in DOMAIN log : j <= readPos' => j \in seen'[r] \cup acked
        BY <2>1, <3>1, <3>2, <3>3, <3>4 DEF ReplicaInv
      <4> QED
        BY <3>1, <3>4, <4>1, <4>2 DEF ReplicaInv, topicVars
    <3>6. ASSUME NEW s \in Replica, s # r PROVE ReplicaInv(s)'
      BY <2>1, <3>1, <3>4, <3>6 DEF ReplicaInv, topicVars
    <3> QED
      BY <1>1, <2>2, <3>1, <3>5, <3>6 DEF SharedInv, topicVars
  <2>7. CASE \/ ForwardCancellation(r) \/ ForwardCancellationFails(r) \/ DispatchNoOp(r)
             \/ DispatchPrompt(r) \/ DispatchPromptFails(r)
    <3>1. /\ step[r] # "idle"
          /\ UNCHANGED <<log, brokerVars, phase, cursor, seen, reducer>>
          /\ \A s \in Replica : s # r => step'[s] = step[s]
      BY <2>1, <2>7
      DEF ForwardCancellation, ForwardCancellationFails, DispatchNoOp, DispatchPrompt,
          DispatchPromptFails, topicVars
    <3>2. \A s \in Replica : ReplicaInv(s)'
      BY <3>1, SharedHandlerStep DEF brokerVars
    <3>3. RequestsRise'
      <4>1. CASE UNCHANGED <<requests, requestSeq>>
        BY <2>2, <3>1, <4>1
      <4>2. CASE DispatchPrompt(r) \/ DispatchPromptFails(r)
        BY <3>1, <4>1, <4>2, AcceptShared DEF DispatchPrompt, DispatchPromptFails
      <4> QED
        BY <2>7, <4>1, <4>2
        DEF ForwardCancellation, ForwardCancellationFails, DispatchNoOp, topicVars
    <3>4. KeysOnce'
      BY <2>1, <3>1 DEF KeysOnce
    <3> QED
      BY <1>1, <3>2, <3>3, <3>4 DEF SharedInv
  <2>8. CASE Acknowledge(r) \/ NegativeAcknowledge(r)
    <3>1. /\ step[r] # "idle"
          /\ UNCHANGED <<log, readPos, active, phase, cursor, seen, reducer>>
          /\ UNCHANGED <<requests, requestSeq>>
          /\ \A s \in Replica : s # r => step'[s] = step[s]
          /\ acked \subseteq acked'
          /\ nacked' \subseteq nacked \cup (IF phase[r] = "live" THEN {hand[r]} ELSE {})
      BY <2>1, <2>8 DEF Acknowledge, NegativeAcknowledge, topicVars
    <3>2. \A s \in Replica : ReplicaInv(s)'
      BY <3>1, SharedHandlerStep
    <3> QED
      BY <1>1, <2>2, <3>1, <3>2 DEF SharedInv
  <2>9. CASE Crash(r)
    <3>1. /\ UNCHANGED <<topicVars, acked, readPos, nacked, cursor>>
          /\ active' # r /\ (active' = active \/ active' = NoReplica)
          /\ phase'[r] = "down" /\ step'[r] = "idle"
          /\ seen'[r] = {} /\ reducer'[r] = InitialReducerState
          /\ \A s \in Replica : s # r => /\ phase'[s] = phase[s] /\ step'[s] = step[s]
                                         /\ seen'[s] = seen[s] /\ reducer'[s] = reducer[s]
          /\ \A s \in Replica : active = s /\ s # r => active' = s
      BY <2>1, <2>9 DEF Crash, LeavesSubscription
    <3>2. Projects(log, {}, InitialReducerState)
      BY DEF Projects, InitialReducerState
    <3>3. ASSUME NEW s \in Replica PROVE ReplicaInv(s)'
      <4>1. CASE s = r
        BY <3>1, <3>2, <4>1 DEF ReplicaInv, topicVars
      <4>2. CASE s # r
        BY <2>1, <3>1, <4>2 DEF ReplicaInv, topicVars
      <4> QED
        BY <4>1, <4>2
    <3> QED
      BY <1>1, <2>2, <3>1, <3>3 DEF SharedInv, topicVars
  <2> QED
    BY <1>5, <2>3, <2>4, <2>5, <2>6, <2>7, <2>8, <2>9 DEF WorkerStep, FaultStep, Handle
<1>6. CASE UNCHANGED vars
  BY <1>1, <1>6
  DEF vars, topicVars, brokerVars, workerVars, SharedInv, ReplicaInv, KeysOnce, RequestsRise
<1> QED
  BY <1>2, <1>3, <1>4, <1>5, <1>6 DEF Next, DispatcherStep, UserStep

\* Any number of coordinators, replays that end early, every fault: as long as
\* the broker drops resubmissions, each worker's projection says of what it has
\* folded what the log says, whatever another replica acknowledged meanwhile.
THEOREM HandoffKeepsProjections ==
  ASSUME Resubmittable = {} PROVE Spec => []ProjectionIsFaithful
<1>1. SharedInv => ProjectionIsFaithful
  BY DEF SharedInv, ReplicaInv, ProjectionIsFaithful
<1> QED
  BY <1>1, InitSharedInv, NextSharedInv, PTL DEF Spec

\* Replicas that disagree on the queue share one producer, whose sequence ids
\* only rise: one client submission is still dispatched at most once.
THEOREM HandoffDispatchesOnce ==
  ASSUME Resubmittable = {} PROVE Spec => []OneDispatchPerKey
<1>1. ASSUME SharedInv PROVE OneDispatchPerKey
  <2> SUFFICES ASSUME NEW i \in DOMAIN requests, NEW j \in DOMAIN requests, i # j
               PROVE  log[requests[i].prompt].key # log[requests[j].prompt].key
    BY DEF OneDispatchPerKey
  <2>1. i \in Int /\ j \in Int
    BY <1>1 DEF SharedInv, TypeInv, TypeOK
  <2>2. requests[i].prompt # requests[j].prompt
    <3>1. requests[i].prompt \in Int /\ requests[j].prompt \in Int
      BY <1>1 DEF SharedInv, RequestsRise, TypeInv, TypeOK
    <3>2. i < j \/ j < i
      BY <2>1
    <3> QED
      BY <1>1, <3>1, <3>2 DEF SharedInv, RequestsRise
  <2> QED
    BY <1>1, <2>2 DEF SharedInv, RequestsRise, KeysOnce
<1> QED
  BY <1>1, InitSharedInv, NextSharedInv, PTL DEF Spec

-----------------------------------------------------------------------------
(***************************************************************************)
(* Live events restore lost work.                                          *)
(*                                                                         *)
(* The argument: a worker that has caught up knows of every prompt the     *)
(* conversation keeps before a dispatched one that it is settled, so the   *)
(* head of its queue is either newer than every request or the last of     *)
(* them.  Once it has handled a live event, that head is on the request    *)
(* topic; and a worker that has folded the whole log has the head of the   *)
(* conversation.                                                           *)
(***************************************************************************)

\* The head of a worker's queue, if it has one, is on the request topic.
HeadIsOut(r) ==
  \A k \in DOMAIN reducer[r].messages :
    IsNextDispatchable(log, reducer[r], k) => reducer[r].messages[k] \in Dispatched

\* Everything before a request is settled in the worker's own projection.
KnowsSettled(r) ==
  \A p \in Dispatched, q \in KeptPrompts(log) : q < p => q \in reducer[r].resolved

RestoreInv(r) ==
  /\ step[r] # "nack"
  /\ step[r] # "idle" => hand[r] \notin acked
  /\ CaughtUp(r) => KnowsSettled(r)
  /\ CaughtUp(r) /\ FoldedLive(r) /\ step[r] \notin {"forward", "dispatch"} => HeadIsOut(r)

RestoringInv ==
  /\ nacked = {}
  /\ requestSeq = 0 \/ requestSeq \in Dispatched
  /\ \A r \in Replica : RestoreInv(r)

\* What the invariants say of the one worker.
LEMMA WorkerFacts ==
  ASSUME QueueInv, NEW r \in Replica
  PROVE  /\ log \in Seq(Event) /\ acked \subseteq DOMAIN log
         /\ seen[r] \in SUBSET DOMAIN log /\ reducer[r] \in ReducerState
         /\ phase[r] \in Phase /\ cursor[r] \in 0 .. Len(log) /\ step[r] \in Step
         /\ Projects(log, seen[r], reducer[r])
         /\ \A h \in seen[r], j \in DOMAIN log : j < h => j \in seen[r]
         /\ step[r] # "idle" => hand[r] \in seen[r] /\ CaughtUp(r)
BY DEF QueueInv, TypeInv, TypeOK, HandInv, WorkerInv, CaughtUp, Phase

\* A worker's queue does not change when the log grows.
LEMMA GrownQueue ==
  ASSUME NEW old \in Seq(Event), NEW e \in Event, NEW S \in SUBSET DOMAIN old,
         NEW state, Projects(old, S, state), NEW k \in DOMAIN state.messages
  PROVE  IsNextDispatchable(Append(old, e), state, k) <=> IsNextDispatchable(old, state, k)
<1>1. \A j \in DOMAIN state.messages : state.messages[j] \in DOMAIN old
  BY DEF Projects
<1>2. InflightUserPrompts(Append(old, e), state) = InflightUserPrompts(old, state)
  BY <1>1, GrownLog DEF InflightUserPrompts
<1> QED
  BY <1>2 DEF IsNextDispatchable

LEMMA InitRestoringInv == Init => RestoringInv
BY DispatcherAssumption DEF Init, RestoringInv, RestoreInv, CaughtUp

LEMMA GrowRestoringInv ==
  ASSUME QueueInv, RestoringInv, NEW e \in Event, log' = Append(log, e),
         UNCHANGED <<requests, requestSeq, cancels, cancelSeq, brokerVars, workerVars, faults>>
  PROVE  RestoringInv'
<1>1. Dispatched' = Dispatched
  BY DEF Dispatched
<1>2. ASSUME NEW r \in Replica PROVE RestoreInv(r)'
  <2>1. /\ KnowsSettled(r) => KnowsSettled(r)'
    <3>1. KeptPrompts(log') \subseteq KeptPrompts(log) \cup {Len(log) + 1}
      BY WorkerFacts, GrownPrompts
    <3>2. \A p \in Dispatched : ~ (Len(log) + 1 < p)
      BY WorkerFacts DEF QueueInv, RequestInv, Dispatched, KeptPrompts
    <3> QED
      BY <1>1, <3>1, <3>2 DEF KnowsSettled, workerVars
  <2>2. HeadIsOut(r) => HeadIsOut(r)'
    BY <1>1, WorkerFacts, GrownQueue DEF HeadIsOut, workerVars
  <2> QED
    BY <2>1, <2>2 DEF RestoringInv, RestoreInv, CaughtUp, FoldedLive, brokerVars, workerVars
<1> QED
  BY <1>1, <1>2 DEF RestoringInv, brokerVars

\* Dispatching the head of a queue that knows what is settled puts it on the
\* topic, if it was not there.
LEMMA HeadGoesOut ==
  ASSUME QueueInv, RestoringInv, NEW r \in Replica, CaughtUp(r), DispatchPrompt(r)
  PROVE  /\ HeadIsOut(r)' /\ KnowsSettled(r)'
         /\ requestSeq' = 0 \/ requestSeq' \in Dispatched'
<1>1. PICK k \in DOMAIN reducer[r].messages :
         /\ IsNextDispatchable(log, reducer[r], k)
         /\ AcceptRequest(EnvelopeFor(reducer[r], k))
  BY DEF DispatchPrompt
<1> DEFINE p == reducer[r].messages[k]
<1>2. /\ p \in KeptPrompts(log) \ reducer[r].resolved
      /\ \A q \in KeptPrompts(log) : q < p => q \in reducer[r].resolved
  BY <1>1, WorkerFacts, HeadIsNext
<1>3. UNCHANGED <<log, reducer>>
  BY DEF DispatchPrompt
<1>4. /\ p \in Int /\ requestSeq \in Nat /\ p > 0
      /\ requests \in Seq(InferenceRequestEnvelope)
      /\ EnvelopeFor(reducer[r], k) \in InferenceRequestEnvelope
      /\ EnvelopeFor(reducer[r], k).prompt = p
  BY <1>2, WorkerFacts, EnvelopeType
  DEF KeptPrompts, QueueInv, TypeInv, TypeOK, EnvelopeFor
<1>5. /\ Dispatched' = Dispatched \cup {p}
      /\ requestSeq' = 0 \/ requestSeq' \in Dispatched'
  <2>1. CASE p > requestSeq
    <3>1. requests' = Append(requests, EnvelopeFor(reducer[r], k)) /\ requestSeq' = p
      BY <1>1, <1>4, <2>1 DEF AcceptRequest
    <3>2. /\ DOMAIN requests' = DOMAIN requests \cup {Len(requests) + 1}
          /\ \A i \in DOMAIN requests : requests'[i] = requests[i]
          /\ requests'[Len(requests) + 1] = EnvelopeFor(reducer[r], k)
      BY <1>4, <3>1
    <3> QED
      BY <1>4, <3>1, <3>2 DEF Dispatched
  <2>2. CASE ~ (p > requestSeq)
    <3>1. UNCHANGED <<requests, requestSeq>>
      BY <1>1, <1>4, <2>2 DEF AcceptRequest
    <3>2. requestSeq \in Dispatched
      BY <1>4, <2>2 DEF RestoringInv
    <3>3. ~ (p < requestSeq)
      BY <1>2, <3>2 DEF RestoringInv, RestoreInv, KnowsSettled
    <3>4. p = requestSeq
      BY <1>4, <2>2, <3>3
    <3> QED
      BY <3>1, <3>2, <3>4 DEF Dispatched
  <2> QED
    BY <2>1, <2>2
<1>6. HeadIsOut(r)'
  <2> SUFFICES ASSUME NEW j \in DOMAIN reducer[r].messages, IsNextDispatchable(log, reducer[r], j)
               PROVE  reducer[r].messages[j] \in Dispatched'
    BY <1>3 DEF HeadIsOut
  <2>1. j = k
    <3>1. j \in Int /\ k \in Int
      BY WorkerFacts DEF ReducerState
    <3>2. j <= k /\ k <= j
      BY <1>1 DEF IsNextDispatchable
    <3> QED
      BY <3>1, <3>2
  <2> QED
    BY <1>5, <2>1
<1>7. KnowsSettled(r)'
  BY <1>2, <1>3, <1>5 DEF RestoringInv, RestoreInv, KnowsSettled
<1> QED
  BY <1>5, <1>6, <1>7

LEMMA NextRestoringInv ==
  Uninterrupted /\ "publish" \notin Fault /\ QueueInv /\ RestoringInv /\ [Next]_vars
    => RestoringInv'
<1> SUFFICES ASSUME Uninterrupted, "publish" \notin Fault, QueueInv, RestoringInv, [Next]_vars
             PROVE  RestoringInv'
  OBVIOUS
<1>1. ASSUME NEW k \in Key, SubmitPrompt(k) PROVE RestoringInv'
  <2>1. PromptEvent(k) \in Event
    BY DEF PromptEvent, Event
  <2> QED
    BY <1>1, <2>1, GrowRestoringInv DEF SubmitPrompt
<1>2. ASSUME NEW p \in DOMAIN log, CancelPrompt(p) PROVE RestoringInv'
  <2>1. CancelEvent(p) \in Event
    BY DEF CancelEvent, Event, MessageId, QueueInv, TypeInv, TypeOK
  <2> QED
    BY <1>2, <2>1, GrowRestoringInv DEF CancelPrompt
<1>3. ASSUME NEW p \in Dispatched, ResultArrives(p) PROVE RestoringInv'
  <2>1. p \in MessageId
    BY DEF Dispatched, MessageId, KeptPrompts, QueueInv, RequestInv, TypeInv, TypeOK
  <2>2. ResultEvent(p) \in Event
    BY <2>1 DEF ResultEvent, Event
  <2> QED
    BY <1>3, <2>2, GrowRestoringInv DEF ResultArrives
<1>4. ASSUME NEW r \in Replica, WorkerStep(r) \/ FaultStep(r) PROVE RestoringInv'
  <2>1. Replica = {r}
    BY DEF Uninterrupted
  <2>2. /\ RestoreInv(r) /\ nacked = {} /\ TypeOK
        /\ log \in Seq(Event) /\ Projects(log, seen[r], reducer[r])
        /\ seen[r] \in SUBSET DOMAIN log /\ reducer[r] \in ReducerState
    BY WorkerFacts DEF RestoringInv, QueueInv, TypeInv
  \* A step that publishes no request restores the invariant with the worker's part.
  <2>3. ASSUME UNCHANGED <<requests, requestSeq>>, nacked' = {}, RestoreInv(r)'
        PROVE  RestoringInv'
    BY <2>1, <2>3 DEF RestoringInv, Dispatched
  <2>4. ASSUME UNCHANGED <<log, requests, reducer>>
        PROVE  (KnowsSettled(r) <=> KnowsSettled(r)') /\ (HeadIsOut(r) <=> HeadIsOut(r)')
    BY <2>4 DEF KnowsSettled, HeadIsOut, Dispatched
  <2>5. CASE StartWorker(r) \/ ReplayFrame(r)
    <3>1. phase'[r] = "replaying" /\ step'[r] = "idle"
      BY <2>2, <2>5 DEF StartWorker, ReplayFrame, TypeOK, QueueInv, WorkerInv
    <3>2. RestoreInv(r)'
      BY <3>1 DEF RestoreInv, CaughtUp
    <3> QED
      BY <2>2, <2>3, <2>5, <3>2 DEF StartWorker, ReplayFrame, topicVars, brokerVars
  <2>6. CASE ReplayCaughtUp(r)
    <3>1. /\ seen[r] = DOMAIN log /\ cursor[r] = Len(log) /\ step[r] = "idle"
          /\ UNCHANGED <<topicVars, brokerVars, cursor, seen, reducer, hand, step>>
      BY <2>2, <2>6 DEF ReplayCaughtUp, QueueInv, WorkerInv
    <3>2. reducer[r].resolved = Resolved(log)
      BY <2>2, <3>1 DEF Projects, Resolved
    <3>3. KnowsSettled(r)'
      BY <3>1, <3>2 DEF KnowsSettled, QueueInv, RequestInv, NoOvertaking, Dispatched, topicVars
    <3>4. ~ FoldedLive(r)'
      <4>1. \A k \in DOMAIN reducer[r].messages : reducer[r].messages[k] \in seen[r]
        BY <2>2 DEF Projects
      <4>2. \A k \in DOMAIN reducer[r].messages : ~ (reducer[r].messages[k] > cursor[r])
        BY <2>2, <3>1, <4>1
      <4> QED
        BY <3>1, <4>2 DEF FoldedLive
    <3>5. RestoreInv(r)'
      BY <3>1, <3>3, <3>4 DEF RestoreInv
    <3> QED
      BY <2>2, <2>3, <3>1, <3>5 DEF topicVars, brokerVars
  <2>7. CASE JoinSubscription(r) \/ Promote(r)
    <3>1. /\ UNCHANGED <<topicVars, acked, cursor, reducer, hand, step>>
          /\ CaughtUp(r) /\ nacked' = {}
      BY <2>2, <2>7 DEF JoinSubscription, Promote, CaughtUp, brokerVars, workerVars
    <3>2. RestoreInv(r)'
      BY <2>2, <2>4, <3>1 DEF RestoreInv, FoldedLive, topicVars
    <3> QED
      BY <2>3, <3>1, <3>2 DEF topicVars
  <2>8. ASSUME NEW i \in DOMAIN log, Receive(r, i) PROVE RestoringInv'
    <3>1. /\ CaughtUp(r) /\ i \notin acked /\ nacked' = {}
          /\ UNCHANGED <<topicVars, acked, phase, cursor>>
          /\ hand'[r] = i /\ step'[r] = NextStep(r, i) /\ step[r] = "idle"
      BY <2>2, <2>8 DEF Receive, Deliverable, CaughtUp, TypeOK
    <3>2. reducer[r].resolved \subseteq reducer'[r].resolved
      BY <2>2, <2>8 DEF Receive, FoldOnce, StepReducer, TypeOK
    <3>3. NextStep(r, i) = "ack" => reducer'[r] = reducer[r]
      BY <2>2, <2>8 DEF Receive, FoldOnce, StepReducer, NextStep, Advances, TypeOK
    <3>4. KnowsSettled(r)'
      BY <2>2, <3>1, <3>2 DEF RestoreInv, KnowsSettled, Dispatched, topicVars
    <3>5. NextStep(r, i) = "ack" => FoldedLive(r) = FoldedLive(r)' /\ HeadIsOut(r) = HeadIsOut(r)'
      BY <3>1, <3>3 DEF FoldedLive, HeadIsOut, Dispatched, topicVars
    <3>6. RestoreInv(r)'
      BY <2>2, <3>1, <3>4, <3>5 DEF RestoreInv, CaughtUp, NextStep
    <3> QED
      BY <2>3, <3>1, <3>6 DEF topicVars
  <2>9. CASE ForwardCancellation(r)
    <3>1. /\ UNCHANGED <<log, requests, requestSeq, brokerVars, phase, reducer, hand>>
          /\ step[r] # "idle" /\ step'[r] = "dispatch"
      BY <2>2, <2>9 DEF ForwardCancellation, TypeOK
    <3>2. RestoreInv(r)'
      BY <2>2, <2>4, <3>1 DEF RestoreInv, CaughtUp, brokerVars
    <3> QED
      BY <2>2, <2>3, <3>1, <3>2 DEF brokerVars
  <2>10. CASE DispatchNoOp(r)
    <3>1. /\ UNCHANGED <<topicVars, brokerVars, phase, reducer, hand>>
          /\ step[r] # "idle" /\ step'[r] = "ack"
      BY <2>2, <2>10 DEF DispatchNoOp, TypeOK
    <3>2. HeadIsOut(r)
      BY <2>10 DEF DispatchNoOp, HeadIsOut, IsNextDispatchable
    <3>3. RestoreInv(r)'
      BY <2>2, <2>4, <3>1, <3>2 DEF RestoreInv, CaughtUp, topicVars, brokerVars
    <3> QED
      BY <2>2, <2>3, <3>1, <3>3 DEF topicVars, brokerVars
  <2>11. CASE DispatchPrompt(r)
    <3>1. /\ UNCHANGED <<brokerVars, phase, reducer, hand>>
          /\ step[r] # "idle" /\ step'[r] = "ack"
      BY <2>2, <2>11 DEF DispatchPrompt, TypeOK
    <3>2. /\ HeadIsOut(r)' /\ KnowsSettled(r)'
          /\ requestSeq' = 0 \/ requestSeq' \in Dispatched'
      BY <2>11, <3>1, WorkerFacts, HeadGoesOut
    <3>3. RestoreInv(r)'
      BY <2>2, <3>1, <3>2 DEF RestoreInv, brokerVars
    <3> QED
      BY <2>1, <2>2, <3>1, <3>2, <3>3 DEF RestoringInv, brokerVars
  <2>12. CASE Acknowledge(r)
    <3>1. /\ UNCHANGED <<topicVars, nacked, phase, cursor, reducer>>
          /\ step[r] = "ack" /\ step'[r] = "idle"
      BY <2>2, <2>12 DEF Acknowledge, TypeOK
    <3>2. RestoreInv(r)'
      BY <2>2, <2>4, <3>1 DEF RestoreInv, CaughtUp, FoldedLive, topicVars
    <3> QED
      BY <2>2, <2>3, <3>1, <3>2 DEF topicVars
  <2>13. CASE NegativeAcknowledge(r)
    BY <2>2, <2>13 DEF NegativeAcknowledge, RestoreInv
  <2>14. CASE SessionLost(r)
    <3>1. /\ UNCHANGED <<topicVars, acked, nacked, cursor, reducer, hand, step>>
          /\ CaughtUp(r)
      BY <2>14 DEF SessionLost, CaughtUp
    <3>2. RestoreInv(r)'
      BY <2>2, <2>4, <3>1 DEF RestoreInv, FoldedLive, topicVars
    <3> QED
      BY <2>2, <2>3, <3>1, <3>2 DEF topicVars
  <2>15. CASE Crash(r)
    <3>1. /\ UNCHANGED <<topicVars, nacked>> /\ phase'[r] = "down" /\ step'[r] = "idle"
      BY <2>2, <2>15 DEF Crash, TypeOK
    <3>2. RestoreInv(r)'
      BY <3>1 DEF RestoreInv, CaughtUp
    <3> QED
      BY <2>2, <2>3, <3>1, <3>2 DEF topicVars
  <2>16. ~ (ReplayStalls(r) \/ ForwardCancellationFails(r) \/ DispatchPromptFails(r))
    BY DEF ReplayStalls, ForwardCancellationFails, DispatchPromptFails, FaultHappens, Uninterrupted
  <2> QED
    BY <1>4, <2>5, <2>6, <2>7, <2>8, <2>9, <2>10, <2>11, <2>12, <2>13, <2>14, <2>15, <2>16
    DEF WorkerStep, FaultStep, Handle
<1>5. CASE UNCHANGED vars
  BY <1>5 DEF vars, topicVars, brokerVars, workerVars, RestoringInv, RestoreInv, CaughtUp,
     FoldedLive, HeadIsOut, KnowsSettled, Dispatched
<1> QED
  BY <1>1, <1>2, <1>3, <1>4, <1>5 DEF Next, DispatcherStep, UserStep

\* The worker's queue has the head of the conversation once it has folded the
\* whole log.
LEMMA WholeLogHead ==
  ASSUME NEW old \in Seq(Event), NEW state \in ReducerState,
         Projects(old, DOMAIN old, state),
         NEW p \in KeptPrompts(old) \ Resolved(old),
         \A q \in KeptPrompts(old) \ Resolved(old) : p <= q
  PROVE  \E k \in DOMAIN state.messages :
           IsNextDispatchable(old, state, k) /\ state.messages[k] = p
<1> DEFINE m == state.messages
<1>1. PICK k \in DOMAIN m : m[k] = p
  BY DEF Projects, KeptPrompts
<1>2. state.resolved = Resolved(old)
  BY DEF Projects, Resolved
<1>3. k \in InflightUserPrompts(old, state)
  BY <1>1, <1>2 DEF InflightUserPrompts, KeptPrompts
<1>4. ASSUME NEW j \in InflightUserPrompts(old, state) PROVE k <= j
  <2>1. j \in DOMAIN m /\ m[j] \in KeptPrompts(old) \ Resolved(old)
    BY <1>2 DEF InflightUserPrompts, Projects, KeptPrompts
  <2>2. p <= m[j] /\ p \in Int /\ m[j] \in Int
    BY <2>1 DEF KeptPrompts
  <2>3. j < k => m[j] < m[k]
    BY <2>1 DEF Projects
  <2>4. j \in Int /\ k \in Int
    BY <2>1 DEF ReducerState
  <2> QED
    BY <1>1, <2>2, <2>3, <2>4
<1> QED
  BY <1>1, <1>3, <1>4 DEF IsNextDispatchable

LEMMA RestoredHead ==
  ASSUME QueueInv, RestoringInv
  PROVE  LiveEventRestoresWork
<1> SUFFICES ASSUME NEW r \in Replica, CaughtUp(r), FoldedLive(r), acked = DOMAIN log,
                    NEW p \in KeptPrompts(log) \ Resolved(log),
                    \A q \in KeptPrompts(log) \ Resolved(log) : p <= q
             PROVE  p \in Dispatched
  BY DEF LiveEventRestoresWork, HeadDispatched
<1>1. /\ seen[r] = DOMAIN log /\ step[r] \notin {"forward", "dispatch"}
  BY WorkerFacts DEF QueueInv, WorkerInv, RestoringInv, RestoreInv
<1>2. HeadIsOut(r)
  BY <1>1 DEF RestoringInv, RestoreInv
<1>3. PICK k \in DOMAIN reducer[r].messages :
         IsNextDispatchable(log, reducer[r], k) /\ reducer[r].messages[k] = p
  BY <1>1, WorkerFacts, WholeLogHead
<1> QED
  BY <1>2, <1>3 DEF HeadIsOut

\* No lost work, as far as it goes: once an event has reached the worker live
\* and everything is acknowledged, the oldest unsettled prompt is on its way,
\* through crashes and lost sessions.  A publish that fails for good is the
\* exception.
THEOREM LiveEventsRestoreWork ==
  ASSUME Uninterrupted, "publish" \notin Fault PROVE Spec => []LiveEventRestoresWork
<1> DEFINE Inv == QueueInv /\ RestoringInv
<1>1. Init => Inv
  BY InitQueueInv, InitRestoringInv
<1>2. Inv /\ [Next]_vars => Inv'
  BY NextQueueInv, NextRestoringInv
<1>3. Inv => LiveEventRestoresWork
  BY RestoredHead
<1> QED
  BY <1>1, <1>2, <1>3, PTL DEF Spec

-----------------------------------------------------------------------------
(***************************************************************************)
(* A cancellation goes before the successor.                               *)
(*                                                                         *)
(* The argument: the head of a queue has no cancel among the messages      *)
(* folded, so a dispatched prompt's cancel is folded after its dispatch,   *)
(* live; it is forwarded before the handler dispatches anything.  A prompt *)
(* that is neither answered nor cancelled still holds the slot.            *)
(***************************************************************************)

CancelInv(r) ==
  /\ ~ CaughtUp(r) => requests = <<>>
  /\ \A h \in seen[r] :
       IsCancel(log[h]) /\ log[h].prompt \in Dispatched =>
         log[h].prompt <= cancelSeq \/ (step[r] = "forward" /\ hand[r] = h)

CancelsInv == (\A r \in Replica : CancelInv(r)) /\ CancelPrecedesSuccessor

LEMMA InitCancelsInv == Init => CancelsInv
BY DEF Init, CancelsInv, CancelInv, CancelPrecedesSuccessor, Dispatched

LEMMA GrowCancelsInv ==
  ASSUME QueueInv, CancelsInv, NEW e \in Event, log' = Append(log, e),
         UNCHANGED <<requests, requestSeq, cancels, cancelSeq, brokerVars, workerVars, faults>>
  PROVE  CancelsInv'
<1>1. /\ Dispatched' = Dispatched
      /\ \A i \in DOMAIN log : log'[i] = log[i] /\ i \in DOMAIN log'
  BY GrownLog DEF Dispatched, QueueInv, TypeInv, TypeOK
<1>2. ASSUME NEW r \in Replica PROVE CancelInv(r)'
  BY <1>1, WorkerFacts DEF CancelsInv, CancelInv, CaughtUp, workerVars
<1>3. Events(log) \subseteq Events(log')
  BY <1>1 DEF Events
<1>4. CancelPrecedesSuccessor'
  BY <1>3 DEF CancelsInv, CancelPrecedesSuccessor
<1> QED
  BY <1>2, <1>4 DEF CancelsInv

\* Dispatching the head of a queue, with no cancel waiting to be forwarded.
LEMMA DispatchKeepsCancels ==
  ASSUME Uninterrupted, QueueInv, CancelsInv, NEW r \in Replica, DispatchPrompt(r)
  PROVE  CancelsInv'
<1>1. PICK k \in DOMAIN reducer[r].messages :
         /\ IsNextDispatchable(log, reducer[r], k)
         /\ AcceptRequest(EnvelopeFor(reducer[r], k))
  BY DEF DispatchPrompt
<1> DEFINE p == reducer[r].messages[k]
<1>2. /\ p \in KeptPrompts(log) \ reducer[r].resolved
      /\ \A q \in KeptPrompts(log) : q < p => q \in reducer[r].resolved
  BY <1>1, WorkerFacts, HeadIsNext
<1>3. /\ UNCHANGED <<log, cancelSeq, phase, seen, hand>>
      /\ step[r] = "dispatch" /\ step'[r] = "ack" /\ CaughtUp(r)
  BY WorkerFacts DEF DispatchPrompt, QueueInv, TypeInv, TypeOK
<1>4. /\ p \in Int /\ requestSeq \in Nat
      /\ requests \in Seq(InferenceRequestEnvelope)
      /\ EnvelopeFor(reducer[r], k) \in InferenceRequestEnvelope
      /\ EnvelopeFor(reducer[r], k).prompt = p
  BY <1>2, WorkerFacts, EnvelopeType
  DEF KeptPrompts, QueueInv, TypeInv, TypeOK, EnvelopeFor
<1>5. \A h \in seen[r] :
        IsCancel(log[h]) /\ log[h].prompt \in Dispatched => log[h].prompt <= cancelSeq
  BY <1>3 DEF CancelsInv, CancelInv
<1>6. \A h \in seen[r] : IsCancel(log[h]) => log[h].prompt # p
  <2>1. \A h \in seen[r] : IsCancel(log[h]) => log[h].prompt \in reducer[r].resolved
    BY WorkerFacts DEF Projects, IsCancel, IsResolving
  <2> QED
    BY <1>2, <2>1
<1>7. CASE p > requestSeq
  <2>1. /\ DOMAIN requests' = DOMAIN requests \cup {Len(requests) + 1}
        /\ \A i \in DOMAIN requests : requests'[i] = requests[i]
        /\ requests'[Len(requests) + 1].prompt = p
    <3>1. requests' = Append(requests, EnvelopeFor(reducer[r], k))
      BY <1>1, <1>4, <1>7 DEF AcceptRequest
    <3> QED
      BY <1>4, <3>1
  <2>2. Dispatched' = Dispatched \cup {p}
    BY <2>1 DEF Dispatched
  <2>3. CancelInv(r)'
    BY <1>3, <1>5, <1>6, <2>2 DEF CancelInv, CaughtUp
  \* An earlier prompt without a result was cancelled, and its cancel forwarded.
  <2>4. ASSUME NEW i \in DOMAIN requests, ResultEvent(requests[i].prompt) \notin Events(log)
        PROVE  requests[i].prompt <= cancelSeq
    <3> DEFINE q == requests[i].prompt
    <3>1. q \in KeptPrompts(log) /\ q <= requestSeq /\ q \in Dispatched
      BY DEF QueueInv, RequestInv, Dispatched
    <3>2. q \in Int
      BY <3>1 DEF KeptPrompts, QueueInv, TypeInv, TypeOK
    <3>3. q \in reducer[r].resolved
      BY <1>2, <1>4, <1>7, <3>1, <3>2
    <3>4. PICK h \in seen[r] : IsResolving(log[h]) /\ log[h].prompt = q
      BY <3>3, WorkerFacts DEF Projects
    <3>5. log[h] \in Event /\ h \in DOMAIN log
      BY WorkerFacts
    <3>6. log[h].kind # "result"
      <4> SUFFICES ASSUME log[h].kind = "result" PROVE FALSE
        OBVIOUS
      <4>1. log[h] = ResultEvent(q)
        BY <3>4, <3>5 DEF Event, ResultEvent
      <4> QED
        BY <2>4, <3>5, <4>1 DEF Events
    <3> QED
      BY <1>5, <3>1, <3>4, <3>6 DEF IsResolving, IsCancel
  <2>5. CancelPrecedesSuccessor'
    <3> SUFFICES ASSUME NEW i \in DOMAIN requests', NEW j \in DOMAIN requests', i < j,
                        ResultEvent(requests'[i].prompt) \notin Events(log)
                 PROVE  cancelSeq >= requests'[i].prompt
      BY <1>3 DEF CancelPrecedesSuccessor
    <3>1. i \in DOMAIN requests
      BY <1>4, <2>1
    <3>2. requests[i].prompt <= cancelSeq
      BY <2>1, <2>4, <3>1
    <3> QED
      BY <2>1, <3>1, <3>2
  <2> QED
    BY <2>3, <2>5 DEF Uninterrupted, CancelsInv
<1>8. CASE ~ (p > requestSeq)
  <2>1. requests' = requests
    BY <1>1, <1>4, <1>8 DEF AcceptRequest
  <2>2. CancelInv(r)'
    BY <1>3, <1>5, <2>1 DEF CancelInv, CaughtUp, Dispatched
  <2>3. CancelPrecedesSuccessor'
    BY <1>3, <2>1 DEF CancelsInv, CancelPrecedesSuccessor
  <2> QED
    BY <2>2, <2>3 DEF Uninterrupted, CancelsInv
<1> QED
  BY <1>7, <1>8

LEMMA NextCancelsInv ==
  /\ Uninterrupted /\ {"publish", "crash"} \cap Fault = {}
  /\ QueueInv /\ CancelsInv /\ [Next]_vars
  => CancelsInv'
<1> SUFFICES ASSUME Uninterrupted, {"publish", "crash"} \cap Fault = {},
                    QueueInv, CancelsInv, [Next]_vars
             PROVE  CancelsInv'
  OBVIOUS
<1>1. ASSUME NEW k \in Key, SubmitPrompt(k) PROVE CancelsInv'
  <2>1. PromptEvent(k) \in Event
    BY DEF PromptEvent, Event
  <2> QED
    BY <1>1, <2>1, GrowCancelsInv DEF SubmitPrompt
<1>2. ASSUME NEW p \in DOMAIN log, CancelPrompt(p) PROVE CancelsInv'
  <2>1. CancelEvent(p) \in Event
    BY DEF CancelEvent, Event, MessageId, QueueInv, TypeInv, TypeOK
  <2> QED
    BY <1>2, <2>1, GrowCancelsInv DEF CancelPrompt
<1>3. ASSUME NEW p \in Dispatched, ResultArrives(p) PROVE CancelsInv'
  <2>1. p \in MessageId
    BY DEF Dispatched, MessageId, KeptPrompts, QueueInv, RequestInv, TypeInv, TypeOK
  <2>2. ResultEvent(p) \in Event
    BY <2>1 DEF ResultEvent, Event
  <2> QED
    BY <1>3, <2>2, GrowCancelsInv DEF ResultArrives
<1>4. ASSUME NEW r \in Replica, WorkerStep(r) \/ FaultStep(r) PROVE CancelsInv'
  <2>1. Replica = {r}
    BY DEF Uninterrupted
  <2>2. /\ CancelInv(r) /\ CancelPrecedesSuccessor /\ TypeOK /\ cancelSeq \in Nat
        /\ step[r] # "idle" => CaughtUp(r)
    BY WorkerFacts DEF CancelsInv, QueueInv, TypeInv, TypeOK
  <2>3. ASSUME UNCHANGED <<log, requests, cancelSeq>>, CancelInv(r)' PROVE CancelsInv'
    BY <2>1, <2>2, <2>3 DEF CancelsInv, CancelPrecedesSuccessor
  <2>4. CASE StartWorker(r) \/ ReplayCaughtUp(r) \/ JoinSubscription(r)
    <3>1. UNCHANGED <<topicVars, seen, hand, step>> /\ (CaughtUp(r) => CaughtUp(r)')
      BY <2>2, <2>4 DEF StartWorker, ReplayCaughtUp, JoinSubscription, CaughtUp, TypeOK
    <3>2. CancelInv(r)'
      BY <2>2, <3>1 DEF CancelInv, Dispatched, topicVars
    <3> QED
      BY <2>3, <3>1, <3>2 DEF topicVars
  <2>5. CASE ReplayFrame(r)
    <3>1. UNCHANGED <<topicVars, phase>> /\ requests = <<>>
      BY <2>2, <2>5 DEF ReplayFrame, CancelInv, CaughtUp
    <3>2. CancelInv(r)'
      BY <3>1 DEF CancelInv, Dispatched, topicVars
    <3> QED
      BY <2>3, <3>1, <3>2 DEF topicVars
  <2>6. CASE Promote(r) \/ DispatchNoOp(r) \/ Acknowledge(r) \/ NegativeAcknowledge(r)
    <3>1. /\ UNCHANGED <<topicVars, phase, seen>>
          /\ step[r] = "forward" => UNCHANGED <<hand, step>>
      BY <2>6 DEF Promote, DispatchNoOp, Acknowledge, NegativeAcknowledge, workerVars
    <3>2. CancelInv(r)'
      BY <2>2, <3>1 DEF CancelInv, CaughtUp, Dispatched, topicVars
    <3> QED
      BY <2>3, <3>1, <3>2 DEF topicVars
  <2>7. ASSUME NEW i \in DOMAIN log, Receive(r, i) PROVE CancelsInv'
    <3>1. /\ UNCHANGED <<topicVars, phase>> /\ step[r] = "idle"
          /\ hand'[r] = i /\ step'[r] = NextStep(r, i)
      BY <2>2, <2>7 DEF Receive, TypeOK
    <3>2. seen'[r] = seen[r] \cup {i}
      BY <2>7, FoldOnceType DEF Receive, QueueInv
    <3>3. i \notin seen[r] /\ IsCancel(log[i]) => NextStep(r, i) = "forward"
      BY DEF NextStep, Advances, IsDropped, IsPrompt, IsCancel
    <3>4. CancelInv(r)'
      BY <2>2, <3>1, <3>2, <3>3 DEF CancelInv, CaughtUp, Dispatched, topicVars
    <3> QED
      BY <2>3, <3>1, <3>4 DEF topicVars
  <2>8. CASE ForwardCancellation(r)
    <3>1. /\ UNCHANGED <<log, requests, phase, seen, hand>>
          /\ step[r] = "forward" /\ step'[r] = "dispatch"
      BY <2>2, <2>8 DEF ForwardCancellation, TypeOK
    <3>2. hand[r] \in DOMAIN log /\ IsCancel(log[hand[r]]) /\ log[hand[r]] \in Event
      BY <3>1, WorkerFacts DEF QueueInv, TypeInv, HandInv
    <3>3. log[hand[r]].prompt \in Nat
      BY <3>2, EventFields DEF MessageId
    <3>4. cancelSeq' \in Nat /\ cancelSeq <= cancelSeq' /\ log[hand[r]].prompt <= cancelSeq'
      BY <2>2, <2>8, <3>3 DEF ForwardCancellation, AcceptCancellation
    <3>5. \A p \in Dispatched : p \in Int
      BY DEF QueueInv, RequestInv, TypeInv, TypeOK, Dispatched, KeptPrompts
    <3>6. CancelInv(r)'
      <4>1. ASSUME NEW h \in seen[r], IsCancel(log[h]), log[h].prompt \in Dispatched
            PROVE  log[h].prompt <= cancelSeq'
        <5>1. log[h].prompt \in Int
          BY <3>5, <4>1
        <5>2. log[h].prompt <= cancelSeq \/ hand[r] = h
          BY <2>2, <4>1 DEF CancelInv
        <5> QED
          BY <2>2, <3>4, <5>1, <5>2
      <4> QED
        BY <2>2, <3>1, <4>1 DEF CancelInv, CaughtUp, Dispatched
    <3>7. CancelPrecedesSuccessor'
      <4> SUFFICES ASSUME NEW i \in DOMAIN requests, NEW j \in DOMAIN requests, i < j,
                          ResultEvent(requests[i].prompt) \notin Events(log)
                   PROVE  cancelSeq' >= requests[i].prompt
        BY <3>1 DEF CancelPrecedesSuccessor
      <4>1. requests[i].prompt \in Int /\ cancelSeq >= requests[i].prompt
        BY <2>2, <3>5 DEF CancelPrecedesSuccessor, Dispatched
      <4> QED
        BY <2>2, <3>4, <4>1
    <3> QED
      BY <2>1, <3>6, <3>7 DEF CancelsInv
  <2>9. CASE DispatchPrompt(r)
    BY <2>9, DispatchKeepsCancels
  <2>10. CASE SessionLost(r)
    <3>1. UNCHANGED <<topicVars, seen, hand, step>> /\ CaughtUp(r)
      BY <2>10 DEF SessionLost, CaughtUp
    <3>2. phase'[r] = "joining"
      BY <2>2, <2>10 DEF SessionLost, TypeOK
    <3>3. CancelInv(r)'
      BY <2>2, <3>1, <3>2 DEF CancelInv, CaughtUp, Dispatched, topicVars
    <3> QED
      BY <2>3, <3>1, <3>3 DEF topicVars
  <2>11. ~ (\/ ReplayStalls(r) \/ ForwardCancellationFails(r)
            \/ DispatchPromptFails(r) \/ Crash(r))
    BY DEF ReplayStalls, ForwardCancellationFails, DispatchPromptFails, Crash, FaultHappens,
       Uninterrupted
  <2> QED
    BY <1>4, <2>4, <2>5, <2>6, <2>7, <2>8, <2>9, <2>10, <2>11
    DEF WorkerStep, FaultStep, Handle
<1>5. CASE UNCHANGED vars
  BY <1>5 DEF vars, topicVars, brokerVars, workerVars, CancelsInv, CancelInv, CaughtUp,
     CancelPrecedesSuccessor, Dispatched
<1> QED
  BY <1>1, <1>2, <1>3, <1>4, <1>5 DEF Next, DispatcherStep, UserStep

\* A prompt cancelled while in flight is announced to the engines before its
\* successor is dispatched.  A crash or a failed publish between the two is the
\* exception: the cancel is then folded without being forwarded.
THEOREM CancelGoesFirst ==
  ASSUME Uninterrupted, {"publish", "crash"} \cap Fault = {}
  PROVE  Spec => []CancelPrecedesSuccessor
<1> DEFINE Inv == QueueInv /\ CancelsInv
<1>1. Init => Inv
  BY InitQueueInv, InitCancelsInv
<1>2. Inv /\ [Next]_vars => Inv'
  BY NextQueueInv, NextCancelsInv
<1>3. Inv => CancelPrecedesSuccessor
  BY DEF CancelsInv
<1> QED
  BY <1>1, <1>2, <1>3, PTL DEF Spec
=============================================================================
