---------------------------- MODULE Conversation ----------------------------
(***************************************************************************)
(* The durable conversation log of one context and the pure fold every     *)
(* role derives its view of the conversation from                          *)
(* (src/Infernix/Conversation/Reducer.hs, Event.hs, Hash.hs, and the       *)
(* single-flight rule of src/Infernix/Dispatch/SingleFlight.hs).           *)
(*                                                                         *)
(* A message is represented by its broker id, its position on the topic:   *)
(* the log is append-only, so the id determines the event it carries.  The *)
(* prefix hash is a collision-free chain over the folded messages, so it   *)
(* is represented by the sequence it hashes.                               *)
(***************************************************************************)
EXTENDS Integers, Sequences

CONSTANT Key        \* client idempotency keys

MessageId == Nat \ {0}

\* A prompt carries its client's key; a result or a cancel carries the id of
\* the prompt it settles.  User uploads and the other event kinds are folded
\* like a result that settles nothing and are left out.
PromptEvent(k) == [kind |-> "prompt", key |-> k]
ResultEvent(p) == [kind |-> "result", prompt |-> p]
CancelEvent(p) == [kind |-> "cancel", prompt |-> p]

Event ==
  [kind : {"prompt"}, key : Key] \cup [kind : {"result", "cancel"}, prompt : MessageId]

IsPrompt(e) == e.kind = "prompt"
IsCancel(e) == e.kind = "cancel"
IsResolving(e) == e.kind \in {"result", "cancel"}

-----------------------------------------------------------------------------
(***************************************************************************)
(* The reducer.                                                            *)
(***************************************************************************)

ReducerState ==
  [messages : Seq(MessageId), keys : SUBSET Key, resolved : SUBSET MessageId]

InitialReducerState == [messages |-> <<>>, keys |-> {}, resolved |-> {}]

\* Slip: the reducer forgets the keys it has folded.
KeepsResubmissions(state, e) == FALSE

\* A prompt whose client key was already folded is dropped.
IsDropped(state, e) == IsPrompt(e) /\ e.key \in state.keys

KeysOf(e) == IF IsPrompt(e) THEN {e.key} ELSE {}

\* Slip: only a cancel frees the slot.
OnlyCancelsSettle(e) == IF IsCancel(e) THEN {e.prompt} ELSE {}

SettledBy(e) == IF IsResolving(e) THEN {e.prompt} ELSE {}

\* One reducer step: fold message i, which carries event e.
StepReducer(state, i, e) ==
  IF IsDropped(state, e)
  THEN state
  ELSE [messages |-> Append(state.messages, i),
        keys     |-> state.keys \cup KeysOf(e),
        resolved |-> state.resolved \cup SettledBy(e)]

\* Places in the projection that hold a prompt nothing has settled yet.
InflightUserPrompts(log, state) ==
  {k \in DOMAIN state.messages :
     IsPrompt(log[state.messages[k]]) /\ state.messages[k] \notin state.resolved}

\* Slip: any queued prompt may go.
IsAnyQueued(log, state, k) == k \in InflightUserPrompts(log, state)

\* k is the head of the queue: the only prompt the single-flight rule allows.
IsNextDispatchable(log, state, k) ==
  /\ k \in InflightUserPrompts(log, state)
  /\ \A j \in InflightUserPrompts(log, state) : k <= j

-----------------------------------------------------------------------------
(***************************************************************************)
(* The request the dispatcher builds for the head of its queue: the        *)
(* prompt, its zero-based place in the projection, and the hash of the     *)
(* projection at dispatch time.                                            *)
(***************************************************************************)

InferenceRequestEnvelope ==
  [prompt : MessageId, offset : Nat, prefixHash : Seq(MessageId)]

\* Slip: the offset counts the messages before the prompt once too few.
EnvelopeOneOff(state, k) ==
  [prompt |-> state.messages[k], offset |-> k - 2, prefixHash |-> state.messages]

EnvelopeFor(state, k) ==
  [prompt |-> state.messages[k], offset |-> k - 1, prefixHash |-> state.messages]

-----------------------------------------------------------------------------
(***************************************************************************)
(* What the log itself says, independently of any worker's fold.           *)
(***************************************************************************)

Events(log) == {log[i] : i \in DOMAIN log}

\* Prompts some result or cancel in the log settles.
Resolved(log) == {log[i].prompt : i \in {j \in DOMAIN log : IsResolving(log[j])}}

\* Prompts the conversation keeps: the first submission under each client key.
FirstOfKey(log, i) ==
  \A j \in DOMAIN log : j < i /\ IsPrompt(log[j]) => log[j].key # log[i].key

KeptPrompts(log) == {i \in DOMAIN log : IsPrompt(log[i]) /\ FirstOfKey(log, i)}

\* The projection is exactly what the log says of the messages S: in log order,
\* each once, without the resubmissions.
Projects(log, S, state) ==
  LET m == state.messages
  IN /\ \A j, k \in DOMAIN m : j < k => m[j] < m[k]
     /\ {m[k] : k \in DOMAIN m} = {i \in S : IsPrompt(log[i]) => FirstOfKey(log, i)}
     /\ state.keys = {log[i].key : i \in {j \in S : IsPrompt(log[j])}}
     /\ state.resolved = {log[i].prompt : i \in {j \in S : IsResolving(log[j])}}
=============================================================================
