-------------------------- MODULE PrefixVerification --------------------------
(***************************************************************************)
(* The check an engine makes of the prefix a request claims, before it     *)
(* executes the prompt (src/Infernix/Conversation/Prefix.hs, called from   *)
(* verifyRequestConversationPrefix in src/Infernix/Runtime/Pulsar.hs).     *)
(* The engine reads the conversation log from the beginning, folds it      *)
(* through the stated offset and compares hashes.  The log is append-only, *)
(* so the verdict on a request does not change after it is dispatched.     *)
(***************************************************************************)
EXTENDS Dispatcher

\* foldEvents over the first n messages of the log.
FoldEvents(n) ==
  LET fold[i \in 0 .. n] ==
        IF i = 0 THEN InitialReducerState ELSE StepReducer(fold[i - 1], i, log[i])
  IN fold[n]

\* Slip: the prefix ends before the prompt.
PromptExcluded(envelope) ==
  /\ envelope.offset \in 0 .. Len(log) - 1
  /\ IsPrompt(log[envelope.offset + 1])
  /\ FoldEvents(envelope.offset).messages = envelope.prefixHash

\* Slip: the hash is taken as evidence.
HashTrusted(envelope) ==
  /\ envelope.offset \in 0 .. Len(log) - 1
  /\ IsPrompt(log[envelope.offset + 1])

\* reconstructVerifiedPrefix accepts the request.  The stated offset is an index
\* into the dispatcher's projection; here it is an index into the log.
PrefixVerified(envelope) ==
  /\ envelope.offset \in 0 .. Len(log) - 1
  /\ IsPrompt(log[envelope.offset + 1])
  /\ FoldEvents(envelope.offset + 1).messages = envelope.prefixHash

Requests == {requests[i] : i \in DOMAIN requests}

\* A request that verifies carries the conversation through its own prompt: no
\* resubmission, gap or queue behind the prompt can make another history pass.
VerifiedIsHistory ==
  \A envelope \in Requests :
    PrefixVerified(envelope) =>
      /\ envelope.prompt = envelope.offset + 1
      /\ envelope.prefixHash = [i \in 1 .. envelope.prompt |-> i]

\* A prompt that was the newest event of the log when it was dispatched, in a
\* conversation without resubmissions, verifies.
NewestPromptVerifies ==
  \A envelope \in Requests :
    /\ envelope.prefixHash[Len(envelope.prefixHash)] = envelope.prompt
    /\ \A i \in 1 .. envelope.prompt : IsPrompt(log[i]) => FirstOfKey(log, i)
    => PrefixVerified(envelope)

\* Every request the dispatcher publishes verifies at the engine.
DispatchedPrefixVerifies == \A envelope \in Requests : PrefixVerified(envelope)
=============================================================================
