-------------------------------- MODULE Drafts --------------------------------
(***************************************************************************)
(* The drafts topic of one user (src/Infernix/Topic/Drafts.hs and the      *)
(* draft publication and draft stream of src/Infernix/Runtime/Pulsar.hs).  *)
(*                                                                         *)
(* Each draft update is published by a producer named after the context    *)
(* and the text, with a sequence id derived from the same key, so that the *)
(* broker stores one message per producer for as long as it remembers it.  *)
(* Every browser session reads the topic from the beginning and applies    *)
(* what it reads; a reader that is lost starts again from the beginning    *)
(* over the drafts it already has.                                         *)
(***************************************************************************)
EXTENDS Integers, Sequences, FiniteSets

CONSTANTS
  Context,     \* the user's contexts
  Text,        \* draft texts
  NoDraft,     \* no draft: the content of DraftCleared
  Session,     \* browser sessions of the user
  MaxTopic     \* bound on the messages of the topic

ASSUME DraftsAssumption == NoDraft \notin Text /\ MaxTopic \in Nat

VARIABLES
  topic,       \* the drafts topic
  remembered,  \* producers whose message the broker deduplicates
  drafts,      \* the drafts each session shows (stateRef)
  position     \* how far the reader of each session is

vars == <<topic, remembered, drafts, position>>

\* DraftUpdated carries a text, DraftCleared none.
DraftEvent == [context : Context, text : Text \cup {NoDraft}]
DraftMap == [Context -> Text \cup {NoDraft}]

EmptyDrafts == [c \in Context |-> NoDraft]

\* Slip: a clear leaves the entry.
IgnoreClears(map, event) ==
  IF event.text = NoDraft THEN map ELSE [map EXCEPT ![event.context] = event.text]

ApplyDraftEvent(map, event) == [map EXCEPT ![event.context] = event.text]

FoldDraftEvents(events) ==
  LET fold[i \in 0 .. Len(events)] ==
        IF i = 0 THEN EmptyDrafts ELSE ApplyDraftEvent(fold[i - 1], events[i])
  IN fold[Len(events)]

Init ==
  /\ topic = <<>>
  /\ remembered = {}
  /\ drafts = [s \in Session |-> EmptyDrafts]
  /\ position = [s \in Session |-> 0]

-----------------------------------------------------------------------------
\* The user edits a draft, or sends the prompt, which clears it.  The event
\* itself names its producer.
UpdateDraft(event) ==
  /\ Len(topic) < MaxTopic
  /\ IF event \in remembered
     THEN UNCHANGED <<topic, remembered>>
     ELSE /\ topic' = Append(topic, event)
          /\ remembered' = remembered \cup {event}
  /\ UNCHANGED <<drafts, position>>

\* The broker drops a producer that has been inactive for hours.
ForgetProducer(event) ==
  /\ event \in remembered
  /\ remembered' = remembered \ {event}
  /\ UNCHANGED <<topic, drafts, position>>

\* The session's reader yields the next message.
ReadDraft(s) ==
  /\ position[s] < Len(topic)
  /\ position' = [position EXCEPT ![s] = @ + 1]
  /\ drafts' = [drafts EXCEPT ![s] = ApplyDraftEvent(@, topic[position[s] + 1])]
  /\ UNCHANGED <<topic, remembered>>

\* Slip: the restarted reader resumes at the end of the topic.
RestartAtLatest(s) ==
  /\ position' = [position EXCEPT ![s] = Len(topic)]
  /\ UNCHANGED <<topic, remembered, drafts>>

\* The reader is lost and starts again from the earliest message; the drafts
\* the session holds stay.
RestartReader(s) ==
  /\ position' = [position EXCEPT ![s] = 0]
  /\ UNCHANGED <<topic, remembered, drafts>>

\* The page is loaded again, or another device logs in.
OpenSession(s) ==
  /\ position' = [position EXCEPT ![s] = 0]
  /\ drafts' = [drafts EXCEPT ![s] = EmptyDrafts]
  /\ UNCHANGED <<topic, remembered>>

Next ==
  \/ \E event \in DraftEvent : UpdateDraft(event) \/ ForgetProducer(event)
  \/ \E s \in Session : ReadDraft(s) \/ RestartReader(s) \/ OpenSession(s)

Spec == Init /\ [][Next]_vars
-----------------------------------------------------------------------------
IsLast(events, i) ==
  \A j \in DOMAIN events : j > i => events[j].context # events[i].context

\* The topic after broker compaction: the last message of each context.
Compacted(events) ==
  LET keep[i \in 0 .. Len(events)] ==
        IF i = 0 THEN <<>>
        ELSE IF IsLast(events, i) THEN Append(keep[i - 1], events[i]) ELSE keep[i - 1]
  IN keep[Len(events)]

\* Compaction is invisible: a reader of the compacted topic ends with the same
\* drafts as one of the full topic.
CompactionInvisible == FoldDraftEvents(Compacted(topic)) = FoldDraftEvents(topic)

\* Sessions converge: one that has read the whole topic shows what the topic
\* says, however often its reader started over on top of what it showed.
SessionsConverge ==
  \A s \in Session :
    position[s] = Len(topic) => drafts[s] = FoldDraftEvents(topic)
=============================================================================
