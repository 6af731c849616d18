----------------------------- MODULE Prefix_proofs -----------------------------
(***************************************************************************)
(* What an engine's check of a claimed prefix can establish, for every log *)
(* and every dispatcher.  The engine's fold is a projection of the log's   *)
(* first events; a projection as long as its range is the history itself.  *)
(***************************************************************************)
EXTENDS PrefixVerification, Dispatcher_proofs, WellFoundedInduction

-----------------------------------------------------------------------------
(***************************************************************************)
(* Increasing sequences.                                                   *)
(***************************************************************************)

\* A set of natural numbers has a least member, which stands for induction.
LEMMA NatLeast ==
  ASSUME NEW T \in SUBSET Nat, T # {}
  PROVE  \E n \in T : \A m \in T : n <= m
<1> DEFINE R == OpToRel(<, Nat)
<1>1. IsWellFoundedOn(R, Nat)
  BY NatLessThanWellFounded
<1>2. \A m, n \in Nat : <<m, n>> \in R <=> m < n
  BY DEF OpToRel
<1> HIDE DEF R
<1>3. PICK n \in T : \A m \in T : ~ (<<m, n>> \in R)
  BY <1>1, WFMin
<1>4. \A m \in T : ~ (m < n)
  BY <1>2, <1>3
<1> QED
  BY <1>4

Increasing(m) == \A j, k \in DOMAIN m : j < k => m[j] < m[k]

\* The members of an increasing sequence are at least as far apart as their
\* places.
LEMMA Spaced ==
  ASSUME NEW m \in Seq(Nat), Increasing(m), NEW i \in DOMAIN m
  PROVE  \A j \in DOMAIN m : i <= j => m[j] - m[i] >= j - i
<1> DEFINE T == {j \in DOMAIN m : i <= j /\ ~ (m[j] - m[i] >= j - i)}
<1> SUFFICES ASSUME T # {} PROVE FALSE
  OBVIOUS
<1>1. DOMAIN m = 1 .. Len(m) /\ Len(m) \in Nat /\ \A j \in DOMAIN m : m[j] \in Nat
  OBVIOUS
<1>2. T \in SUBSET Nat
  BY <1>1
<1>3. PICK j \in T : \A h \in T : j <= h
  BY <1>2, NatLeast
<1>4. j \in DOMAIN m /\ i <= j /\ ~ (m[j] - m[i] >= j - i)
  OBVIOUS
<1> HIDE DEF T
<1>5. j # i /\ j - 1 \in DOMAIN m /\ i <= j - 1 /\ j - 1 < j
  <2>1. i \in 1 .. Len(m) /\ j \in 1 .. Len(m) /\ m[i] \in Int
    BY <1>1, <1>4
  <2>2. j # i
    BY <1>4, <2>1
  <2>3. i <= j
    BY <1>4
  <2>4. j - 1 \in 1 .. Len(m) /\ i <= j - 1 /\ j - 1 < j
    BY <2>1, <2>2, <2>3
  <2> QED
    BY <1>1, <2>2, <2>4
<1>6. m[j - 1] < m[j]
  BY <1>4, <1>5 DEF Increasing
<1>7. m[j - 1] - m[i] >= (j - 1) - i
  <2>1. j \in Nat
    BY <1>1, <1>4
  <2>2. j - 1 \notin T
    BY <1>3, <1>5, <2>1
  <2> QED
    BY <1>5, <2>2 DEF T
<1>8. m[j] \in Int /\ m[j - 1] \in Int /\ m[i] \in Int /\ j \in Int /\ i \in Int
  BY <1>1, <1>4, <1>5
<1>9. \A a, b, c, x, y \in Int : b < a /\ b - c >= (y - 1) - x => a - c >= y - x
  OBVIOUS
<1>10. m[j] - m[i] >= j - i
  BY <1>6, <1>7, <1>8, <1>9, Zenon
<1> QED
  BY <1>4, <1>10

\* An increasing sequence of n numbers from 1 to n is 1, 2, ..., n.
LEMMA FullRange ==
  ASSUME NEW m \in Seq(Nat), Increasing(m), NEW n \in Nat, Len(m) >= n, n > 0,
         \A j \in DOMAIN m : m[j] \in 1 .. n
  PROVE  m = [i \in 1 .. n |-> i]
<1>1. DOMAIN m = 1 .. Len(m) /\ Len(m) \in Nat
  OBVIOUS
<1>2. ASSUME NEW i \in DOMAIN m PROVE m[i] = i
  <2> DEFINE l == Len(m)
  <2>1. 1 \in DOMAIN m /\ l \in DOMAIN m /\ 1 <= i /\ i <= l
    BY <1>1
  <2>2. m[i] - m[1] >= i - 1 /\ m[1] \in 1 .. n /\ m[i] \in 1 .. n
    BY <2>1, Spaced
  <2>3. m[l] - m[i] >= l - i /\ m[l] \in 1 .. n
    BY <2>1, Spaced
  <2>4. /\ m[i] \in Int /\ m[1] \in Int /\ m[l] \in Int /\ i \in Int /\ l \in Int
        /\ m[1] >= 1 /\ m[l] <= n /\ n <= l
    BY <1>1, <2>2, <2>3
  <2>5. \A a, b, c, x, y \in Int :
          a >= 1 /\ c <= n /\ n <= y /\ b - a >= x - 1 /\ c - b >= y - x => b = x
    OBVIOUS
  <2> HIDE DEF l
  <2> QED
    BY <2>2, <2>3, <2>4, <2>5, Zenon
<1>3. Len(m) = n
  <2> DEFINE l == Len(m)
  <2>1. l \in DOMAIN m
    BY <1>1
  <2>2. m[l] = l /\ m[l] \in 1 .. n
    BY <1>2, <2>1
  <2>3. l \in 1 .. n
    BY <2>2
  <2>4. l \in Nat /\ l >= n
    BY <1>1
  <2> HIDE DEF l
  <2>5. l = n
    BY <2>3, <2>4
  <2> QED
    BY <2>5 DEF l
<1> QED
  BY <1>1, <1>2, <1>3

\* So is an increasing sequence of all the numbers from 1 to n.
LEMMA ExactRange ==
  ASSUME NEW m \in Seq(Nat), Increasing(m), NEW n \in Nat,
         {m[k] : k \in DOMAIN m} = 1 .. n
  PROVE  m = [i \in 1 .. n |-> i]
<1>1. /\ DOMAIN m = 1 .. Len(m) /\ Len(m) \in Nat
      /\ \A j \in DOMAIN m : m[j] \in 1 .. n
      /\ \A j \in 1 .. n : \E k \in DOMAIN m : m[k] = j
  <2>1. \A j : j \in 1 .. n <=> \E k \in DOMAIN m : m[k] = j
    <3>1. \A j : j \in {m[k] : k \in DOMAIN m} <=> \E k \in DOMAIN m : m[k] = j
      OBVIOUS
    <3> QED
      BY <3>1, Zenon
  <2>2. DOMAIN m = 1 .. Len(m) /\ Len(m) \in Nat
    OBVIOUS
  <2>3. \A j \in DOMAIN m : m[j] \in 1 .. n
    BY <2>1, Zenon
  <2>4. \A j \in 1 .. n : \E k \in DOMAIN m : m[k] = j
    BY <2>1, Zenon
  <2> QED
    BY <2>2, <2>3, <2>4
<1>2. Len(m) >= n
  <2> DEFINE T == {j \in DOMAIN m : m[j] # j}
  <2>1. CASE T = {}
    <3>1. CASE n = 0
      BY <1>1, <3>1
    <3>2. CASE n > 0
      <4>0. n \in 1 .. n
        BY <3>2
      <4>1. PICK k \in DOMAIN m : m[k] = n
        BY <1>1, <4>0
      <4>2. m[k] = k
        BY <2>1
      <4> QED
        BY <1>1, <4>1, <4>2
    <3> QED
      BY <3>1, <3>2
  <2>2. CASE T # {}
    <3>1. T \in SUBSET Nat
      BY <1>1
    <3>2. PICK j \in T : \A h \in T : j <= h
      BY <2>2, <3>1, NatLeast
    <3>3. j \in DOMAIN m /\ m[j] # j /\ j \in Nat
      BY <3>1
    <3>4. \A h \in DOMAIN m : h < j => m[h] = h
      BY <1>1, <3>2, <3>3
    <3>5. m[j] > j
      <4>1. CASE j = 1
        BY <1>1, <3>3, <4>1
      <4>2. CASE j # 1
        <5>1. j - 1 \in DOMAIN m /\ j - 1 < j
          BY <1>1, <3>3, <4>2
        <5>2. m[j - 1] = j - 1 /\ m[j - 1] < m[j]
          BY <3>3, <3>4, <5>1 DEF Increasing
        <5>3. m[j] \in Nat
          BY <1>1, <3>3
        <5> QED
          BY <3>3, <5>2, <5>3
      <4> QED
        BY <4>1, <4>2
    <3>6. j \in 1 .. n
      BY <1>1, <3>3, <3>5
    <3>7. PICK k \in DOMAIN m : m[k] = j
      BY <1>1, <3>6
    <3>8. ~ (k < j) /\ k # j
      BY <3>3, <3>4, <3>7
    <3>9. m[j] < m[k]
      BY <1>1, <3>3, <3>8 DEF Increasing
    <3> QED
      BY <1>1, <3>3, <3>5, <3>7, <3>9
  <2> QED
    BY <2>1, <2>2
<1>3. CASE n = 0
  <2>1. DOMAIN m = {}
    BY <1>1, <1>3
  <2>2. DOMAIN m = 1 .. n
    BY <1>3, <2>1
  <2> QED
    BY <1>1, <2>1, <2>2
<1>4. CASE n > 0
  BY <1>1, <1>2, <1>4, FullRange
<1> QED
  BY <1>3, <1>4

-----------------------------------------------------------------------------
(***************************************************************************)
(* The engine's fold.                                                      *)
(***************************************************************************)

\* f is the engine's fold of the first n events.
IsFold(f, n) ==
  f = [i \in 0 .. n |->
         IF i = 0 THEN InitialReducerState ELSE StepReducer(f[i - 1], i, log[i])]

LEMMA FoldExists ==
  ASSUME NEW n \in Nat
  PROVE  \E f : IsFold(f, n)
<1> DEFINE T == {i \in Nat : ~ \E f : IsFold(f, i)}
<1> SUFFICES ASSUME T # {} PROVE FALSE
  OBVIOUS
<1>1. PICK i \in T : \A h \in T : i <= h
  BY NatLeast
<1>2. i # 0
  <2>1. IsFold([h \in 0 .. 0 |-> InitialReducerState], 0)
    BY DEF IsFold
  <2> QED
    BY <2>1
<1>3. i - 1 \in Nat /\ i - 1 \notin T
  BY <1>1, <1>2
<1>4. PICK f : IsFold(f, i - 1)
  BY <1>3
<1> DEFINE g == [h \in 0 .. i |-> IF h = i THEN StepReducer(f[i - 1], i, log[i]) ELSE f[h]]
<1>5. IsFold(g, i)
  <2>1. ASSUME NEW h \in 0 .. i
        PROVE  g[h] = IF h = 0 THEN InitialReducerState ELSE StepReducer(g[h - 1], h, log[h])
    <3>1. CASE h = i
      BY <1>2, <1>3, <3>1
    <3>2. CASE h # i
      <4>1. h \in 0 .. (i - 1)
        BY <1>3, <3>2
      <4>2. f[h] = IF h = 0 THEN InitialReducerState ELSE StepReducer(f[h - 1], h, log[h])
        BY <1>4, <4>1 DEF IsFold
      <4>3. h # 0 => g[h - 1] = f[h - 1]
        BY <1>3, <4>1
      <4> QED
        BY <3>2, <4>2, <4>3
    <3> QED
      BY <3>1, <3>2
  <2> HIDE DEF g
  <2>2. g = [h \in 0 .. i |-> g[h]]
    BY DEF g
  <2> QED
    BY <2>1, <2>2 DEF IsFold
<1> QED
  BY <1>5

\* The fold of the first n events says of them what the log says.
LEMMA FoldedPrefixProjects ==
  ASSUME log \in Seq(Event), NEW n \in 0 .. Len(log)
  PROVE  FoldEvents(n) \in ReducerState /\ Projects(log, 1 .. n, FoldEvents(n))
<1>1. PICK f : IsFold(f, n) /\ FoldEvents(n) = f[n]
  <2> DEFINE fold == CHOOSE g : IsFold(g, n)
  <2>1. n \in Nat
    OBVIOUS
  <2>2. IsFold(fold, n)
    BY <2>1, FoldExists
  <2>3. FoldEvents(n) = fold[n]
    BY DEF IsFold, FoldEvents
  <2> QED
    BY <2>2, <2>3
<1> DEFINE Good(i) == f[i] \in ReducerState /\ Projects(log, 1 .. i, f[i])
           T == {i \in 0 .. n : ~ Good(i)}
<1> SUFFICES ASSUME T # {} PROVE FALSE
  BY <1>1
<1>2. PICK i \in T : \A h \in T : i <= h
  <2>1. T \in SUBSET Nat
    OBVIOUS
  <2> QED
    BY <2>1, NatLeast
<1>3. CASE i = 0
  <2>1. f[0] = InitialReducerState
    BY <1>1 DEF IsFold
  <2>2. InitialReducerState \in ReducerState
    BY DEF InitialReducerState, ReducerState
  <2>3. Projects(log, {}, InitialReducerState)
    BY DEF Projects, InitialReducerState
  <2>4. 1 .. 0 = {}
    OBVIOUS
  <2> QED
    BY <1>3, <2>1, <2>2, <2>3, <2>4
<1>4. CASE i # 0
  <2>1. i - 1 \in 0 .. n /\ i \in DOMAIN log /\ i \in MessageId
    BY <1>4 DEF MessageId
  <2>2. Good(i - 1)
    BY <1>2, <2>1
  <2>3. f[i] = StepReducer(f[i - 1], i, log[i])
    BY <1>1, <1>4 DEF IsFold
  <2>4. f[i] \in ReducerState
    BY <2>1, <2>2, <2>3, StepReducerType
  <2>5. /\ 1 .. (i - 1) \in SUBSET DOMAIN log /\ i \notin 1 .. (i - 1)
        /\ 1 .. i = (1 .. (i - 1)) \cup {i}
        /\ \A j \in DOMAIN log : j < i => j \in 1 .. (i - 1)
        /\ \A j \in 1 .. (i - 1) : j < i
    BY <1>4
  <2>6. Projects(log, (1 .. (i - 1)) \cup {i}, StepReducer(f[i - 1], i, log[i]))
    BY <2>1, <2>2, <2>5, StepReducerProjects
  <2> QED
    BY <2>3, <2>4, <2>5, <2>6
<1> QED
  BY <1>3, <1>4

-----------------------------------------------------------------------------
(***************************************************************************)
(* The requests a dispatcher publishes.                                    *)
(***************************************************************************)

\* The request for place k of a projection.
Sends(r, k) ==
  /\ IsNextDispatchable(log, reducer[r], k)
  /\ requests' = Append(requests, EnvelopeFor(reducer[r], k))
  /\ UNCHANGED log

LEMMA WhatIsSent ==
  ASSUME TypeInv, [Next]_vars
  PROVE  /\ log' = log \/ \E e \in Event : log' = Append(log, e)
         /\ \/ requests' = requests
            \/ \E r \in Replica : \E k \in DOMAIN reducer[r].messages : Sends(r, k)
<1>1. ASSUME NEW k \in Key, SubmitPrompt(k)
      PROVE  (\E e \in Event : log' = Append(log, e)) /\ UNCHANGED requests
  <2>1. PromptEvent(k) \in Event
    BY DEF PromptEvent, Event
  <2> QED
    BY <1>1, <2>1 DEF SubmitPrompt
<1>2. ASSUME NEW p \in DOMAIN log, CancelPrompt(p)
      PROVE  (\E e \in Event : log' = Append(log, e)) /\ UNCHANGED requests
  <2>1. CancelEvent(p) \in Event
    BY DEF CancelEvent, Event, MessageId, TypeInv, TypeOK
  <2> QED
    BY <1>2, <2>1 DEF CancelPrompt
<1>3. ASSUME NEW p \in Dispatched, ResultArrives(p)
      PROVE  (\E e \in Event : log' = Append(log, e)) /\ UNCHANGED requests
  <2>1. PICK i \in DOMAIN requests : p = requests[i].prompt
    BY DEF Dispatched
  <2>2. requests[i] \in InferenceRequestEnvelope
    BY DEF TypeInv, TypeOK
  <2>3. ResultEvent(p) \in Event
    BY <2>1, <2>2 DEF InferenceRequestEnvelope, ResultEvent, Event
  <2> QED
    BY <1>3, <2>3 DEF ResultArrives
<1>4. ASSUME NEW r \in Replica, DispatchPrompt(r) \/ DispatchPromptFails(r)
      PROVE  /\ UNCHANGED log
             /\ requests' = requests \/ \E k \in DOMAIN reducer[r].messages : Sends(r, k)
  BY <1>4 DEF DispatchPrompt, DispatchPromptFails, AcceptRequest, Sends
<1>5. ASSUME NEW r \in Replica, WorkerStep(r) \/ FaultStep(r),
             ~ (DispatchPrompt(r) \/ DispatchPromptFails(r))
      PROVE  UNCHANGED <<log, requests>>
  BY <1>5 DEF WorkerStep, FaultStep, Handle, topicVars, StartWorker, ReplayFrame, ReplayCaughtUp,
     JoinSubscription, Promote, Receive, ForwardCancellation, DispatchNoOp, Acknowledge,
     NegativeAcknowledge, ReplayStalls, ForwardCancellationFails, SessionLost, Crash
<1>6. CASE UNCHANGED vars
  BY <1>6 DEF vars, topicVars
<1> QED
  BY <1>1, <1>2, <1>3, <1>4, <1>5, <1>6 DEF Next, DispatcherStep, UserStep

\* A step adds at most one request, for the head of some worker's queue.
LEMMA NewRequests ==
  ASSUME TypeInv, [Next]_vars, NEW envelope \in Requests'
  PROVE  \/ envelope \in Requests
         \/ \E r \in Replica : \E k \in DOMAIN reducer[r].messages :
              /\ Sends(r, k)
              /\ envelope = EnvelopeFor(reducer[r], k)
<1>1. CASE requests' = requests
  BY <1>1 DEF Requests
<1>2. ASSUME NEW r \in Replica, NEW k \in DOMAIN reducer[r].messages, Sends(r, k)
      PROVE  envelope \in Requests \/ envelope = EnvelopeFor(reducer[r], k)
  <2>1. /\ requests \in Seq(InferenceRequestEnvelope)
        /\ EnvelopeFor(reducer[r], k) \in InferenceRequestEnvelope
    BY EnvelopeType DEF TypeInv, TypeOK
  <2>2. /\ DOMAIN requests' = DOMAIN requests \cup {Len(requests) + 1}
        /\ \A i \in DOMAIN requests : requests'[i] = requests[i]
        /\ requests'[Len(requests) + 1] = EnvelopeFor(reducer[r], k)
    BY <1>2, <2>1 DEF Sends
  <2> QED
    BY <2>2 DEF Requests
<1> QED
  BY <1>1, <1>2, WhatIsSent

-----------------------------------------------------------------------------
(***************************************************************************)
(* What verifies is history.                                               *)
(***************************************************************************)

\* The offset of a request points at its prompt, in the projection hashed.
OffsetInv ==
  \A envelope \in Requests :
    /\ envelope.offset + 1 \in DOMAIN envelope.prefixHash
    /\ envelope.prefixHash[envelope.offset + 1] = envelope.prompt

LEMMA EnvelopeOffset ==
  ASSUME NEW state \in ReducerState, NEW k \in DOMAIN state.messages
  PROVE  /\ EnvelopeFor(state, k).offset + 1 = k
         /\ EnvelopeFor(state, k).prefixHash = state.messages
         /\ EnvelopeFor(state, k).prompt = state.messages[k]
<1>1. k \in Nat
  BY DEF ReducerState
<1> QED
  BY <1>1 DEF EnvelopeFor

LEMMA NextOffsetInv == TypeInv /\ OffsetInv /\ [Next]_vars => OffsetInv'
<1> SUFFICES ASSUME TypeInv, OffsetInv, [Next]_vars, NEW envelope \in Requests'
             PROVE  /\ envelope.offset + 1 \in DOMAIN envelope.prefixHash
                    /\ envelope.prefixHash[envelope.offset + 1] = envelope.prompt
  BY DEF OffsetInv
<1>1. CASE envelope \in Requests
  BY <1>1 DEF OffsetInv
<1>2. ASSUME NEW r \in Replica, NEW k \in DOMAIN reducer[r].messages,
             envelope = EnvelopeFor(reducer[r], k)
      PROVE  /\ envelope.offset + 1 \in DOMAIN envelope.prefixHash
             /\ envelope.prefixHash[envelope.offset + 1] = envelope.prompt
  <2>1. reducer[r] \in ReducerState
    BY DEF TypeInv, TypeOK
  <2> QED
    BY <1>2, <2>1, EnvelopeOffset
<1> QED
  BY <1>1, <1>2, NewRequests

\* The fold of the first events, as a sequence of their ids.
LEMMA FoldedMessages ==
  ASSUME TypeInv, NEW n \in 0 .. Len(log)
  PROVE  /\ FoldEvents(n).messages \in Seq(Nat) /\ Increasing(FoldEvents(n).messages)
         /\ {FoldEvents(n).messages[k] : k \in DOMAIN FoldEvents(n).messages}
              = {i \in 1 .. n : IsPrompt(log[i]) => FirstOfKey(log, i)}
<1>1. log \in Seq(Event)
  BY DEF TypeInv, TypeOK
<1>2. FoldEvents(n) \in ReducerState /\ Projects(log, 1 .. n, FoldEvents(n))
  BY <1>1, FoldedPrefixProjects
<1> HIDE DEF FoldEvents
<1> QED
  BY <1>2 DEF ReducerState, MessageId, Projects, Increasing

LEMMA VerifiedHistory == TypeInv /\ OffsetInv => VerifiedIsHistory
<1> SUFFICES ASSUME TypeInv, OffsetInv, NEW envelope \in Requests, PrefixVerified(envelope)
             PROVE  /\ envelope.prompt = envelope.offset + 1
                    /\ envelope.prefixHash = [i \in 1 .. envelope.prompt |-> i]
  BY DEF VerifiedIsHistory
<1> DEFINE n == envelope.offset + 1
           m == FoldEvents(n).messages
<1>1. n \in 0 .. Len(log) /\ n \in Nat /\ n > 0 /\ m = envelope.prefixHash
  <2>1. log \in Seq(Event)
    BY DEF TypeInv, TypeOK
  <2> QED
    BY <2>1 DEF PrefixVerified
<1>2. /\ m \in Seq(Nat) /\ Increasing(m)
      /\ \A k \in DOMAIN m : m[k] \in 1 .. n
  BY <1>1, FoldedMessages
<1>3. n \in DOMAIN m /\ m[n] = envelope.prompt
  BY <1>1 DEF OffsetInv
<1> HIDE DEF n, m
<1>4. Len(m) >= n
  BY <1>1, <1>2, <1>3
<1>5. m = [i \in 1 .. n |-> i]
  BY <1>1, <1>2, <1>4, FullRange
<1>6. envelope.prompt = n
  BY <1>3, <1>5
<1> QED
  BY <1>1, <1>5, <1>6 DEF n

\* A request that verifies carries the whole conversation through its prompt,
\* whatever the replicas and faults that dispatched it.
THEOREM VerifiedPrefixIsHistory == Spec => []VerifiedIsHistory
<1> DEFINE Inv == TypeInv /\ OffsetInv
<1>1. Init => Inv
  BY InitTypeInv DEF Init, OffsetInv, Requests
<1>2. Inv /\ [Next]_vars => Inv'
  BY NextTypeInv, NextOffsetInv
<1>3. Inv => VerifiedIsHistory
  BY VerifiedHistory
<1> QED
  BY <1>1, <1>2, <1>3, PTL DEF Spec

-----------------------------------------------------------------------------
(***************************************************************************)
(* The newest prompt verifies.                                             *)
(***************************************************************************)

\* The projection hashed holds, in order, what the log keeps up to the prompt.
HashInv ==
  \A envelope \in Requests :
    /\ Increasing(envelope.prefixHash)
    /\ \A i \in DOMAIN log :
         i <= envelope.prompt /\ (IsPrompt(log[i]) => FirstOfKey(log, i)) =>
           \E k \in DOMAIN envelope.prefixHash : envelope.prefixHash[k] = i

LEMMA NextHashInv == QueueInv /\ HashInv /\ [Next]_vars => HashInv'
<1> SUFFICES ASSUME QueueInv, HashInv, [Next]_vars, NEW envelope \in Requests'
             PROVE  /\ Increasing(envelope.prefixHash)
                    /\ \A i \in DOMAIN log' :
                         i <= envelope.prompt /\ (IsPrompt(log'[i]) => FirstOfKey(log', i)) =>
                           \E k \in DOMAIN envelope.prefixHash : envelope.prefixHash[k] = i
  BY DEF HashInv
<1>1. log \in Seq(Event) /\ TypeInv
  BY DEF QueueInv, TypeInv, TypeOK
<1>2. CASE envelope \in Requests
  <2>1. envelope.prompt \in DOMAIN log
    BY <1>2 DEF QueueInv, RequestInv, Requests, KeptPrompts
  <2>2. \A i \in DOMAIN log' :
          i <= envelope.prompt =>
            /\ i \in DOMAIN log /\ log'[i] = log[i]
            /\ FirstOfKey(log', i) <=> FirstOfKey(log, i)
    <3>1. CASE log' = log
      BY <3>1
    <3>2. ASSUME NEW e \in Event, log' = Append(log, e)
          PROVE  \A i \in DOMAIN log' :
                   i <= envelope.prompt =>
                     /\ i \in DOMAIN log /\ log'[i] = log[i]
                     /\ FirstOfKey(log', i) <=> FirstOfKey(log, i)
      <4>1. /\ DOMAIN log' = DOMAIN log \cup {Len(log) + 1}
            /\ \A i \in DOMAIN log : log'[i] = log[i] /\ (FirstOfKey(log', i) <=> FirstOfKey(log, i))
        BY <1>1, <3>2, GrownLog
      <4>2. ~ (Len(log) + 1 <= envelope.prompt)
        BY <1>1, <2>1
      <4> QED
        BY <4>1, <4>2
    <3> QED
      BY <1>1, <3>1, <3>2, WhatIsSent
  <2> QED
    BY <1>2, <2>2 DEF HashInv
<1>3. ASSUME NEW r \in Replica, NEW k \in DOMAIN reducer[r].messages,
             Sends(r, k), envelope = EnvelopeFor(reducer[r], k)
      PROVE  /\ Increasing(envelope.prefixHash)
             /\ \A i \in DOMAIN log' :
                  i <= envelope.prompt /\ (IsPrompt(log'[i]) => FirstOfKey(log', i)) =>
                    \E j \in DOMAIN envelope.prefixHash : envelope.prefixHash[j] = i
  <2>1. envelope.prefixHash = reducer[r].messages /\ envelope.prompt = reducer[r].messages[k]
    BY <1>3, WorkerFacts, EnvelopeOffset
  <2>2. Increasing(reducer[r].messages)
    BY WorkerFacts DEF Projects, Increasing
  <2>3. reducer[r].messages[k] \in seen[r]
    BY WorkerFacts DEF Projects
  <2>4. ASSUME NEW i \in DOMAIN log, i <= reducer[r].messages[k],
               IsPrompt(log[i]) => FirstOfKey(log, i)
        PROVE  \E j \in DOMAIN reducer[r].messages : reducer[r].messages[j] = i
    <3>1. i \in seen[r]
      BY <2>3, <2>4, WorkerFacts
    <3> QED
      BY <2>4, <3>1, WorkerFacts DEF Projects
  <2> QED
    BY <1>3, <2>1, <2>2, <2>4 DEF Sends
<1> QED
  BY <1>1, <1>2, <1>3, NewRequests

LEMMA NewestVerifies == QueueInv /\ OffsetInv /\ HashInv => NewestPromptVerifies
<1> SUFFICES ASSUME QueueInv, OffsetInv, HashInv, NEW envelope \in Requests,
                    envelope.prefixHash[Len(envelope.prefixHash)] = envelope.prompt,
                    \A i \in 1 .. envelope.prompt : IsPrompt(log[i]) => FirstOfKey(log, i)
             PROVE  PrefixVerified(envelope)
  BY DEF NewestPromptVerifies
<1> DEFINE p == envelope.prompt
           m == envelope.prefixHash
           f == FoldEvents(p).messages
<1>1. log \in Seq(Event) /\ TypeInv
  BY DEF QueueInv, TypeInv, TypeOK
<1>2. envelope \in InferenceRequestEnvelope
  BY <1>1 DEF TypeInv, TypeOK, Requests
<1>3. m \in Seq(Nat) /\ \A j \in DOMAIN m : m[j] > 0 /\ m[j] \in Nat
  BY <1>2 DEF InferenceRequestEnvelope, MessageId
<1>4. p \in DOMAIN log /\ IsPrompt(log[p]) /\ p \in 0 .. Len(log)
  BY <1>1 DEF QueueInv, RequestInv, Requests, KeptPrompts
<1>5. Increasing(m)
  BY DEF HashInv
<1>6. envelope.offset + 1 \in DOMAIN m /\ m[envelope.offset + 1] = p
  BY DEF OffsetInv
<1>7. {m[j] : j \in DOMAIN m} = 1 .. p
  <2>1. ASSUME NEW j \in DOMAIN m PROVE m[j] \in 1 .. p
    <3> DEFINE l == Len(m)
    <3>1. l \in DOMAIN m /\ j <= l /\ m[l] = p
      BY <1>3, <1>6
    <3>2. m[j] <= p
      BY <1>3, <1>5, <2>1, <3>1 DEF Increasing
    <3> QED
      BY <1>3, <1>4, <3>2
  <2>2. ASSUME NEW i \in 1 .. p PROVE \E j \in DOMAIN m : m[j] = i
    BY <1>1, <1>4, <2>2 DEF HashInv
  <2> QED
    BY <2>1, <2>2
<1>8. m = [i \in 1 .. p |-> i]
  <2> HIDE DEF m, p
  <2>1. p \in Nat
    BY <1>4
  <2> QED
    BY <1>3, <1>5, <1>7, <2>1, ExactRange
<1>9. envelope.offset + 1 = p
  BY <1>6, <1>8
<1>10. f = [i \in 1 .. p |-> i]
  <2>1. /\ f \in Seq(Nat) /\ Increasing(f)
        /\ {f[k] : k \in DOMAIN f} = {i \in 1 .. p : IsPrompt(log[i]) => FirstOfKey(log, i)}
    BY <1>1, <1>4, FoldedMessages
  <2>2. {i \in 1 .. p : IsPrompt(log[i]) => FirstOfKey(log, i)} = 1 .. p
    OBVIOUS
  <2>3. p \in Nat
    BY <1>4
  <2> HIDE DEF f, p
  <2> QED
    BY <2>1, <2>2, <2>3, ExactRange
<1>11. envelope.offset \in Nat
  BY <1>2 DEF InferenceRequestEnvelope
<1>12. envelope.offset \in 0 .. Len(log) - 1
  BY <1>1, <1>4, <1>9, <1>11
<1> QED
  BY <1>4, <1>8, <1>9, <1>10, <1>12 DEF PrefixVerified

\* A prompt that was the newest event when it was dispatched, in a conversation
\* without resubmissions, passes the engine's check.
THEOREM NewestPromptPasses ==
  ASSUME Uninterrupted PROVE Spec => []NewestPromptVerifies
<1> DEFINE Inv == QueueInv /\ OffsetInv /\ HashInv
<1>1. Init => Inv
  BY InitQueueInv DEF Init, OffsetInv, HashInv, Requests
<1>2. Inv /\ [Next]_vars => Inv'
  BY NextQueueInv, NextOffsetInv, NextHashInv DEF QueueInv
<1>3. Inv => NewestPromptVerifies
  BY NewestVerifies
<1> QED
  BY <1>1, <1>2, <1>3, PTL DEF Spec
=============================================================================
