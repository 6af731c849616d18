------------------------------- MODULE Pipeline -------------------------------
(***************************************************************************)
(* The path of a dispatched prompt from the request topic back to the      *)
(* conversation log (src/Infernix/Runtime/Pulsar.hs):                      *)
(*                                                                         *)
(*   requests --coordinator--> batch --engines--> results --bridge--> log  *)
(*                  |                               ^                      *)
(*                  +------- admission rejection ---+                      *)
(*                                                                         *)
(* Every hop is a consumer that handles a message by publishing on the     *)
(* next topic under a producer scoped to the context, with the prompt's id *)
(* as sequence id, and acknowledges afterwards.  A handler that published  *)
(* and has not acknowledged is the same as one that has not started: the   *)
(* broker drops the repetition.  So publish and acknowledge are one step,  *)
(* and a lost attempt leaves the message to be delivered again, with the   *)
(* publication stored or not.  No order of delivery is assumed.            *)
(***************************************************************************)
EXTENDS Dispatcher

CONSTANTS
  Engine,     \* engine processes sharing the batch subscription
  Refused,    \* keys of prompts the coordinator's admission rejects
  HopFault,   \* the kinds of fault on the path
  MaxHopFaults \* bound on the number of them

HopFaultKind == {"handler", "engine", "timeout"}

ASSUME PipelineAssumption ==
  /\ Refused \subseteq Key
  /\ HopFault \subseteq HopFaultKind
  /\ MaxHopFaults \in Nat

VARIABLES
  reqAcked,     \* positions of requests the coordinator has acknowledged
  batch,        \* the engine batch topic: prompt ids
  batchSeq,     \* highest id from producer infernix-coordinator-batch-<context>
  batchAcked,   \* positions of batch the engines have acknowledged
  lent,         \* positions of batch the broker counts as with an engine
  job,          \* position of batch each engine executes, 0 for none
  results,      \* the result topic: prompt ids
  resultSeq,    \* highest id from producer infernix-engine-result-<context>
  rejectionSeq, \* highest id from producer infernix-coordinator-rejection-<context>
  resAcked,     \* positions of results the bridge has acknowledged
  bridgeSeq,    \* highest id from producer infernix-result-bridge-<context>
  cancelPos,    \* cancellations the engines have consumed
  interrupted,  \* engines with an interrupt on its way
  hopFaults     \* faults on the path so far

hopVars == <<reqAcked, batch, batchSeq, batchAcked, lent, job, results, resultSeq,
             rejectionSeq, resAcked, bridgeSeq, cancelPos, interrupted, hopFaults>>
pvars == <<vars, hopVars>>

PInit ==
  /\ Init
  /\ reqAcked = {}
  /\ batch = <<>>
  /\ batchSeq = 0
  /\ batchAcked = {}
  /\ lent = {}
  /\ job = [e \in Engine |-> 0]
  /\ results = <<>>
  /\ resultSeq = 0
  /\ rejectionSeq = 0
  /\ resAcked = {}
  /\ bridgeSeq = 0
  /\ cancelPos = 0
  /\ interrupted = {}
  /\ hopFaults = 0

HopFaultHappens(kind) ==
  /\ kind \in HopFault
  /\ hopFaults < MaxHopFaults
  /\ hopFaults' = hopFaults + 1

-----------------------------------------------------------------------------
(***************************************************************************)
(* Coordinator hand-off from the request topic.                            *)
(***************************************************************************)

IsRefused(i) == log[requests[i].prompt].key \in Refused

AcceptBatch(p) ==
  IF p > batchSeq
  THEN /\ batch' = Append(batch, p)
       /\ batchSeq' = p
  ELSE UNCHANGED <<batch, batchSeq>>

AcceptRejection(p) ==
  IF p > rejectionSeq
  THEN /\ results' = Append(results, p)
       /\ rejectionSeq' = p
  ELSE UNCHANGED <<results, rejectionSeq>>

\* What handling request i publishes: an admission rejection, or the request on
\* the batch topic of its model's route.
PublishHandOff(i) ==
  IF IsRefused(i)
  THEN AcceptRejection(requests[i].prompt) /\ UNCHANGED <<batch, batchSeq>>
  ELSE AcceptBatch(requests[i].prompt) /\ UNCHANGED <<results, rejectionSeq>>

HandOff(i) ==
  /\ i \notin reqAcked
  /\ PublishHandOff(i)
  /\ reqAcked' = reqAcked \cup {i}
  /\ UNCHANGED <<vars, batchAcked, lent, job, resultSeq, resAcked, bridgeSeq,
                 cancelPos, interrupted, hopFaults>>

\* Slip: the request is acknowledged before it is handed on.
HandOffAcknowledgedFirst(i) ==
  /\ HopFaultHappens("handler")
  /\ i \notin reqAcked
  /\ reqAcked' = reqAcked \cup {i}
  /\ UNCHANGED <<vars, batch, batchSeq, results, rejectionSeq, batchAcked, lent, job,
                 resultSeq, resAcked, bridgeSeq, cancelPos, interrupted>>

HandOffLost(i) ==
  /\ HopFaultHappens("handler")
  /\ i \notin reqAcked
  /\ \/ PublishHandOff(i)
     \/ UNCHANGED <<batch, batchSeq, results, rejectionSeq>>
  /\ UNCHANGED <<vars, reqAcked, batchAcked, lent, job,
                 resultSeq, resAcked, bridgeSeq, cancelPos, interrupted>>

-----------------------------------------------------------------------------
(***************************************************************************)
(* Engines.                                                                *)
(***************************************************************************)

TakeJob(e, i) ==
  /\ job[e] = 0
  /\ i \notin batchAcked \cup lent
  /\ job' = [job EXCEPT ![e] = i]
  /\ lent' = lent \cup {i}
  /\ UNCHANGED <<vars, reqAcked, batch, batchSeq, batchAcked, results, resultSeq,
                 rejectionSeq, resAcked, bridgeSeq, cancelPos, interrupted, hopFaults>>

AcceptResult(p) ==
  IF p > resultSeq
  THEN /\ results' = Append(results, p)
       /\ resultSeq' = p
  ELSE UNCHANGED <<results, resultSeq>>

\* Slip: the broker keeps counting the message as lent.
FinishJobStillLent(e) ==
  /\ job[e] # 0
  /\ AcceptResult(batch[job[e]])
  /\ batchAcked' = batchAcked \cup {job[e]}
  /\ job' = [job EXCEPT ![e] = 0]
  /\ UNCHANGED <<vars, reqAcked, batch, batchSeq, lent, rejectionSeq, resAcked, bridgeSeq,
                 cancelPos, interrupted, hopFaults>>

\* The execution completed, failed or was refused: its result is published and
\* the batch message acknowledged.
FinishJob(e) ==
  /\ job[e] # 0
  /\ AcceptResult(batch[job[e]])
  /\ batchAcked' = batchAcked \cup {job[e]}
  /\ lent' = lent \ {job[e]}
  /\ job' = [job EXCEPT ![e] = 0]
  /\ UNCHANGED <<vars, reqAcked, batch, batchSeq, rejectionSeq, resAcked, bridgeSeq,
                 cancelPos, interrupted, hopFaults>>

\* The message goes back to the subscription.
GiveBack(e) ==
  /\ job' = [job EXCEPT ![e] = 0]
  /\ lent' = lent \ {job[e]}

\* Slip: the message is acknowledged before it is executed.
JobAcknowledgedFirst(e) ==
  /\ HopFaultHappens("engine")
  /\ job[e] # 0
  /\ GiveBack(e)
  /\ batchAcked' = batchAcked \cup {job[e]}
  /\ interrupted' = interrupted \ {e}
  /\ UNCHANGED <<vars, reqAcked, batch, batchSeq, results, resultSeq, rejectionSeq,
                 resAcked, bridgeSeq, cancelPos>>

\* The attempt ended before its acknowledgement: the engine died, lost its
\* session, or gave up publishing and rejected the message.
JobLost(e) ==
  /\ HopFaultHappens("engine")
  /\ job[e] # 0
  /\ GiveBack(e)
  /\ interrupted' = interrupted \ {e}
  /\ \/ AcceptResult(batch[job[e]])
     \/ UNCHANGED <<results, resultSeq>>
  /\ UNCHANGED <<vars, reqAcked, batch, batchSeq,
                 batchAcked, rejectionSeq, resAcked, bridgeSeq, cancelPos>>

\* An execution outlasts the subscription's acknowledgement timeout: the broker
\* offers the message to other engines while this one still works on it.
AckTimeout(i) ==
  /\ HopFaultHappens("timeout")
  /\ i \in lent
  /\ lent' = lent \ {i}
  /\ UNCHANGED <<vars, reqAcked, batch, batchSeq, batchAcked,
                 job, results, resultSeq, rejectionSeq, resAcked, bridgeSeq, cancelPos,
                 interrupted>>

\* The next cancellation is delivered to one engine of the shared subscription;
\* if the named prompt executes there, its thread is sent an interrupt.
ConsumeCancellation(e) ==
  /\ cancelPos < Len(cancels)
  /\ cancelPos' = cancelPos + 1
  /\ interrupted' = IF job[e] # 0 /\ batch[job[e]] = cancels[cancelPos + 1]
                    THEN interrupted \cup {e}
                    ELSE interrupted
  /\ UNCHANGED <<vars, reqAcked, batch, batchSeq, batchAcked, lent, job, results,
                 resultSeq, rejectionSeq, resAcked, bridgeSeq, hopFaults>>

\* The interrupt strikes the consumer thread wherever it is.  A handler it
\* strikes rejects its message; one struck while publishing may have stored the
\* result.  Between two messages it only costs the session.
InterruptStrikes(e) ==
  /\ e \in interrupted
  /\ interrupted' = interrupted \ {e}
  /\ IF job[e] = 0
     THEN UNCHANGED <<lent, job, results, resultSeq>>
     ELSE GiveBack(e) /\ (UNCHANGED <<results, resultSeq>> \/ AcceptResult(batch[job[e]]))
  /\ UNCHANGED <<vars, reqAcked, batch, batchSeq, batchAcked, rejectionSeq, resAcked,
                 bridgeSeq, cancelPos, hopFaults>>

-----------------------------------------------------------------------------
(***************************************************************************)
(* Result bridge: the result topic's Failover consumer in the coordinator. *)
(***************************************************************************)

\* Slip: the bridge's producer has no sequence id.
AppendEveryResult(p) ==
  /\ log' = Append(log, ResultEvent(p))
  /\ bridgeSeq' = p

AppendResult(p) ==
  IF p > bridgeSeq
  THEN /\ log' = Append(log, ResultEvent(p))
       /\ bridgeSeq' = p
  ELSE UNCHANGED <<log, bridgeSeq>>

BridgeResult(j) ==
  /\ j \notin resAcked
  /\ AppendResult(results[j])
  /\ resAcked' = resAcked \cup {j}
  /\ UNCHANGED <<requests, requestSeq, cancels, cancelSeq, brokerVars, workerVars, faults,
                 reqAcked, batch, batchSeq, batchAcked, lent, job, results, resultSeq,
                 rejectionSeq, cancelPos, interrupted, hopFaults>>

BridgeResultLost(j) ==
  /\ HopFaultHappens("handler")
  /\ j \notin resAcked
  /\ \/ AppendResult(results[j])
     \/ UNCHANGED <<log, bridgeSeq>>
  /\ UNCHANGED <<requests, requestSeq, cancels, cancelSeq, brokerVars, workerVars, faults,
                 reqAcked, batch, batchSeq, batchAcked, lent, job, results, resultSeq,
                 rejectionSeq, resAcked, cancelPos, interrupted>>

-----------------------------------------------------------------------------
HopStep ==
  \/ \E i \in DOMAIN requests : HandOff(i)
  \/ \E e \in Engine, i \in DOMAIN batch : TakeJob(e, i)
  \/ \E e \in Engine : FinishJob(e) \/ ConsumeCancellation(e) \/ InterruptStrikes(e)
  \/ \E j \in DOMAIN results : BridgeResult(j)

HopFaultStep ==
  \/ \E i \in DOMAIN requests : HandOffLost(i)
  \/ \E e \in Engine : JobLost(e)
  \/ \E i \in lent : AckTimeout(i)
  \/ \E j \in DOMAIN results : BridgeResultLost(j)

PNext == (DispatcherStep /\ UNCHANGED hopVars) \/ HopStep \/ HopFaultStep

\* Every consumer loop keeps consuming; users, faults, cancellations and their
\* interrupts are free.  A worker's own steps exclude one another, so fairness
\* of their disjunction is fairness of each.
PFairness ==
  /\ \A r \in Replica : WF_pvars(WorkerStep(r) /\ UNCHANGED hopVars)
  /\ WF_pvars(\E i \in DOMAIN requests : HandOff(i))
  /\ WF_pvars(\E e \in Engine, i \in DOMAIN batch : TakeJob(e, i))
  /\ \A e \in Engine : WF_pvars(FinishJob(e))
  /\ WF_pvars(\E j \in DOMAIN results : BridgeResult(j))

PSpec == PInit /\ [][PNext]_pvars
FairPSpec == PSpec /\ PFairness
-----------------------------------------------------------------------------
(***************************************************************************)
(* Properties.                                                             *)
(***************************************************************************)

PTypeOK ==
  /\ TypeOK
  /\ reqAcked \subseteq DOMAIN requests
  /\ batch \in Seq(MessageId)
  /\ batchSeq \in Nat
  /\ batchAcked \subseteq DOMAIN batch
  /\ lent \subseteq DOMAIN batch \ batchAcked
  /\ job \in [Engine -> {0} \cup DOMAIN batch]
  /\ results \in Seq(MessageId)
  /\ resultSeq \in Nat
  /\ rejectionSeq \in Nat
  /\ resAcked \subseteq DOMAIN results
  /\ bridgeSeq \in Nat
  /\ cancelPos \in 0 .. Len(cancels)
  /\ interrupted \subseteq Engine
  /\ hopFaults \in 0 .. MaxHopFaults

\* Where a prompt on the path still is: unacknowledged on one of the topics.
InFlight(p) ==
  \/ \E i \in DOMAIN requests \ reqAcked : requests[i].prompt = p
  \/ \E i \in DOMAIN batch \ batchAcked : batch[i] = p
  \/ \E j \in DOMAIN results \ resAcked : results[j] = p

\* No dispatched prompt is lost between the topics: until it is settled, some
\* consumer still owes it a step.  Each producer remembers only its highest
\* sequence id, so this stands on single flight.
NothingLost == \A p \in Dispatched \ Resolved(log) : InFlight(p)

\* The path writes at most one result per prompt, and only for dispatched ones:
\* it implements the environment the dispatcher assumes.
ImplementsDispatcher == Spec

\* Every dispatched prompt is eventually settled.
DispatchedSettles ==
  \A p \in 1 .. MaxLog : p \in Dispatched ~> p \in Resolved(log)

=============================================================================
