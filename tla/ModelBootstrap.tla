---------------------------- MODULE ModelBootstrap ----------------------------
(***************************************************************************)
(* Staging one model into the models bucket and loading it from there:     *)
(* src/python/adapters/model_bootstrap.py (the snapshot helper), the       *)
(* bootstrap loop and eager sweep of src/Infernix/Runtime/Pulsar.hs, and   *)
(* the engine's bootstrap-and-retry.                                       *)
(*                                                                         *)
(* The loop consumes bootstrap requests; a coordinator also sweeps the     *)
(* catalogue when it starts.  Both run the same procedure over the same    *)
(* prefix, object by object, with the .ready sentinel last, and nothing    *)
(* makes them take turns.                                                  *)
(***************************************************************************)
EXTENDS Integers, Sequences, FiniteSets

CONSTANTS
  Loop,        \* the consumer of bootstrap requests
  Sweep,       \* eager sweeps, one per coordinator replica
  Engine,      \* engines that run the model
  Object,      \* object names under the prefix, the sentinel apart
  Ready,       \* the .ready sentinel
  Layout,      \* per kind of source, the objects in the order they are put
  MaxRequests, \* bound on unacknowledged requests
  MaxFaults    \* bound on failed reads, failed downloads, crashes

\* mt3: two files checked against pinned sizes and a digest; unmix: files
\* taken as they come; snapshot: a Hugging Face repository at "main";
\* payload: one file staged by the coordinator itself; package: nothing.
Kind == {"mt3", "unmix", "snapshot", "payload", "package"}

ASSUME BootstrapAssumption ==
  /\ Loop \notin Sweep /\ Ready \notin Object
  /\ Layout \in [Kind -> Seq(Object)]
  /\ \A k \in Kind : Layout[k] = <<>> <=> k = "package"
  /\ MaxRequests \in Nat /\ MaxFaults \in Nat

Stager == {Loop} \cup Sweep
Key == Object \cup {Ready}

\* An object is missing, has the wrong size, or is of one of two revisions.
Content == {"none", "short", "old", "new"}

VARIABLES
  kind,        \* the kind of the model's source (fixed)
  upstream,    \* the revision a download yields
  store,       \* the keys under infernix-models/<modelId>/
  requests,    \* bootstrap requests not acknowledged
  announced,   \* whether the ready topic holds an event
  refused,     \* whether a permanent download failure was acknowledged
  stage,       \* where each stager is
  copy,        \* what each stager downloaded
  at,          \* the layout position each stager puts next
  doomed,      \* the keys each stager's repair has still to delete
  run,         \* where each engine is
  second,      \* whether the engine is on its run after the bootstrap
  wanted,      \* listed objects the engine has not fetched
  got,         \* what the engine fetched
  faults,      \* faults so far
  mishap       \* history: overlap, cut, overwrite, glimpse

topicVars == <<requests, announced, refused>>
stagerVars == <<stage, copy, at, doomed>>
engineVars == <<run, second, wanted, got>>
vars == <<kind, upstream, store, topicVars, stagerVars, engineVars, faults, mishap>>

-----------------------------------------------------------------------------
Parts == {Layout[kind][i] : i \in DOMAIN Layout[kind]}
Sentinel == store[Ready] # "none"
Complete == \A o \in Parts : store[o] # "none"
Whole == \A o \in Parts : store[o] \notin {"none", "short"}

Busy(s) == stage[s] \notin {"idle", "due", "done"}
Deleting == \E s \in Stager : stage[s] = "delete"

Fault == faults < MaxFaults /\ faults' = faults + 1
NoFault == UNCHANGED faults

Prefix(keys, content) == [k \in Key |-> IF k \in keys THEN content ELSE "none"]

\* A prefix the coordinator may find: nothing, an upload that stopped half
\* way, a whole copy, or a checkpoint staged before its size was checked.
Init ==
  /\ kind \in Kind
  /\ upstream = "old"
  /\ \/ \E n \in 0 .. Len(Layout[kind]) :
          store = Prefix({Layout[kind][i] : i \in 1 .. n}, "old")
     \/ store = Prefix(Parts \cup {Ready}, "old")
     \/ /\ kind = "mt3"
        /\ \E bad \in Parts :
             store = [Prefix(Parts \cup {Ready}, "old") EXCEPT ![bad] = "short"]
  /\ requests = 0 /\ announced = FALSE /\ refused = FALSE
  /\ stage = [s \in Stager |-> IF s = Loop THEN "idle" ELSE "due"]
  /\ copy = [s \in Stager |-> "none"]
  /\ at = [s \in Stager |-> 1]
  /\ doomed = [s \in Stager |-> {}]
  /\ run = [e \in Engine |-> "idle"]
  /\ second = [e \in Engine |-> FALSE]
  /\ wanted = [e \in Engine |-> {}]
  /\ got = [e \in Engine |-> Prefix({}, "none")]
  /\ faults = 0 /\ mishap = {}

-----------------------------------------------------------------------------
(* One staging attempt.                                                    *)

Goto(s, place) == stage' = [stage EXCEPT ![s] = place]

\* The loop receives a request; a sweep reaches the model.
Begin(s) ==
  /\ IF s = Loop THEN stage[s] = "idle" /\ requests > 0 ELSE stage[s] = "due"
  /\ Goto(s, "look")
  /\ mishap' = IF \E o \in Stager \ {s} : Busy(o) THEN mishap \cup {"overlap"} ELSE mishap
  /\ UNCHANGED <<kind, upstream, store, topicVars, copy, at, doomed, engineVars, faults>>

\* The temporary directory goes, however the helper ends.
Cleanup(s) == copy' = [copy EXCEPT ![s] = "none"] /\ at' = [at EXCEPT ![s] = 1]

\* What a failed attempt does: the loop asks for redelivery, a sweep logs it.
Abandon(s) == Goto(s, IF s = Loop THEN "idle" ELSE "done")

\* The coordinator's HEAD of the sentinel.  A status other than 200 reads as
\* absent, and a request that fails ends the attempt.  Multi-file sources go
\* to the helper whatever it says.
Look(s) ==
  /\ stage[s] = "look"
  /\ \/ \E present \in BOOLEAN :
          /\ present => Sentinel
          /\ IF present = Sentinel THEN NoFault ELSE Fault
          /\ Goto(s, CASE kind \in {"mt3", "unmix"} -> "head"
                       [] kind \notin {"mt3", "unmix"} /\ present -> "announce"
                       [] kind = "snapshot" /\ ~present -> "head"
                       [] kind = "payload" /\ ~present -> "download"
                       [] kind = "package" /\ ~present -> "commit")
     \/ Fault /\ Abandon(s)
  /\ UNCHANGED <<kind, upstream, store, topicVars, copy, at, doomed, engineVars, mishap>>

\* The helper's HEAD of the sentinel; any exception reads as absent.
HeadSentinel(s) ==
  /\ stage[s] = "head"
  /\ \/ Sentinel /\ NoFault /\ Goto(s, IF kind = "mt3" THEN "validate" ELSE "commit")
     \/ ~Sentinel /\ NoFault /\ Goto(s, "download")
     \/ Sentinel /\ Fault /\ Goto(s, "download")
  /\ UNCHANGED <<kind, upstream, store, topicVars, copy, at, doomed, engineVars, mishap>>

\* Slip: a failed read counts as corruption.
ValidateTwoValued(s) ==
  /\ stage[s] = "validate"
  /\ \/ Whole /\ NoFault /\ Goto(s, "commit")
     \/ ~Whole /\ NoFault /\ Goto(s, "list")
     \/ Fault /\ Goto(s, "list")
  /\ UNCHANGED <<kind, upstream, store, topicVars, copy, at, doomed, engineVars, mishap>>

\* The verdict on a retained mt3 copy.  Only sizes that were all read and are
\* wrong make it corrupt; a missing object is a read that failed.
Validate(s) ==
  /\ stage[s] = "validate"
  /\ \/ Complete /\ ~Whole /\ NoFault /\ Goto(s, "list")
     \/ (Whole \/ ~Complete) /\ NoFault /\ Goto(s, "commit")
     \/ Fault /\ Goto(s, "commit")
  /\ UNCHANGED <<kind, upstream, store, topicVars, copy, at, doomed, engineVars, mishap>>

\* The repair lists the prefix, then deletes what it listed.
ListDoomed(s) ==
  /\ stage[s] = "list"
  /\ doomed' = [doomed EXCEPT ![s] = {k \in Key : store[k] # "none"}]
  /\ Goto(s, "delete")
  /\ UNCHANGED <<kind, upstream, store, topicVars, copy, at, engineVars, faults, mishap>>

\* The server works through the batch; an error on one key is in the answer,
\* which the helper does not read.
Delete(s) ==
  /\ stage[s] = "delete"
  /\ IF doomed[s] = {}
       THEN /\ Goto(s, "download")
            /\ UNCHANGED <<store, doomed, faults, mishap>>
       ELSE \E k \in doomed[s] :
            /\ doomed' = [doomed EXCEPT ![s] = @ \ {k}]
            /\ \/ store' = [store EXCEPT ![k] = "none"] /\ NoFault /\ UNCHANGED mishap
               \/ UNCHANGED store /\ Fault /\ mishap' = mishap \cup {"cut"}
            /\ UNCHANGED stage
  /\ UNCHANGED <<kind, upstream, topicVars, copy, at, engineVars>>

\* Slip: the checkpoint is put as downloaded, unchecked.
DownloadUnchecked(s) ==
  /\ stage[s] = "download"
  /\ \/ NoFault /\ copy' = [copy EXCEPT ![s] = upstream]
     \/ Fault /\ copy' = [copy EXCEPT ![s] = "short"]
  /\ Goto(s, "put")
  /\ UNCHANGED <<kind, upstream, store, topicVars, at, doomed, engineVars, mishap>>

\* Slip: whatever failed is acknowledged.
DownloadAcked(s) ==
  /\ stage[s] = "download"
  /\ \/ NoFault /\ copy' = [copy EXCEPT ![s] = upstream] /\ Goto(s, "put") /\ UNCHANGED requests
     \/ Fault /\ Abandon(s) /\ UNCHANGED copy
        /\ requests' = IF s = Loop THEN requests - 1 ELSE requests
  /\ UNCHANGED <<kind, upstream, store, announced, refused, at, doomed, engineVars, mishap>>

\* Slip: a sweep acknowledges a refusal too.
DownloadSweepAcks(s) ==
  /\ stage[s] = "download"
  /\ \/ NoFault /\ copy' = [copy EXCEPT ![s] = upstream] /\ Goto(s, "put")
        /\ UNCHANGED <<requests, refused>>
     \/ kind = "payload" /\ Fault /\ Abandon(s) /\ UNCHANGED copy
        /\ refused' = TRUE /\ requests' = requests - 1
  /\ UNCHANGED <<kind, upstream, store, announced, at, doomed, engineVars, mishap>>

\* A file read chunk by chunk until an empty one: a stream cut short goes
\* unnoticed where nothing is compared afterwards.
Unchecked == kind = "unmix"

\* A download, its retries included.  Where it is checked, a cut is an error,
\* which a payload may turn into a permanent one.
Download(s) ==
  /\ stage[s] = "download"
  /\ \/ NoFault /\ copy' = [copy EXCEPT ![s] = upstream] /\ Goto(s, "put")
        /\ UNCHANGED <<requests, refused>>
     \/ Unchecked /\ Fault /\ copy' = [copy EXCEPT ![s] = "short"] /\ Goto(s, "put")
        /\ UNCHANGED <<requests, refused>>
     \/ Fault /\ Abandon(s) /\ UNCHANGED <<copy, requests, refused>>
     \/ /\ kind = "payload" /\ Fault /\ Abandon(s) /\ UNCHANGED copy
        /\ refused' = TRUE
        /\ requests' = IF s = Loop THEN requests - 1 ELSE requests
  /\ UNCHANGED <<kind, upstream, store, announced, at, doomed, engineVars, mishap>>

\* Slip: the sentinel goes up with the last object still to come.
PutEarlySentinel(s) ==
  /\ stage[s] = "put"
  /\ at[s] <= Len(Layout[kind])
  /\ store' = [store EXCEPT ![Layout[kind][at[s]]] = copy[s]]
  /\ IF at[s] + 1 < Len(Layout[kind])
       THEN at' = [at EXCEPT ![s] = @ + 1] /\ UNCHANGED <<stage, copy>>
       ELSE Goto(s, "commit") /\ Cleanup(s)
  /\ mishap' = IF Sentinel THEN mishap \cup {"overwrite"} ELSE mishap
  /\ UNCHANGED <<kind, upstream, topicVars, doomed, engineVars, faults>>

\* Slip: each object is taken from upstream as it is put.
PutStreaming(s) ==
  /\ stage[s] = "put"
  /\ at[s] <= Len(Layout[kind])
  /\ NoFault /\ store' = [store EXCEPT ![Layout[kind][at[s]]] = upstream]
  /\ IF at[s] < Len(Layout[kind])
       THEN at' = [at EXCEPT ![s] = @ + 1] /\ UNCHANGED <<stage, copy>>
       ELSE Goto(s, "commit") /\ Cleanup(s)
  /\ mishap' = IF Sentinel THEN mishap \cup {"overwrite"} ELSE mishap
  /\ UNCHANGED <<kind, upstream, topicVars, doomed, engineVars>>

\* One object is put, in layout order; the index is the last of them.  A
\* payload's put may be truncated, which its verification will see.
Put(s) ==
  /\ stage[s] = "put"
  /\ at[s] <= Len(Layout[kind])
  /\ \/ NoFault /\ store' = [store EXCEPT ![Layout[kind][at[s]]] = copy[s]]
     \/ kind = "payload" /\ Fault /\ store' = [store EXCEPT ![Layout[kind][at[s]]] = "short"]
  /\ IF at[s] < Len(Layout[kind])
       THEN at' = [at EXCEPT ![s] = @ + 1] /\ UNCHANGED <<stage, copy>>
       ELSE Goto(s, IF kind = "payload" THEN "verify" ELSE "commit") /\ Cleanup(s)
  /\ mishap' = IF Sentinel THEN mishap \cup {"overwrite"} ELSE mishap
  /\ UNCHANGED <<kind, upstream, topicVars, doomed, engineVars>>

\* A call on the bucket raises.
CallFails(s) ==
  /\ stage[s] \in {"list", "delete", "put"}
  /\ Fault /\ Abandon(s) /\ Cleanup(s)
  /\ doomed' = [doomed EXCEPT ![s] = {}]
  /\ mishap' = IF doomed[s] # {} THEN mishap \cup {"cut"} ELSE mishap
  /\ UNCHANGED <<kind, upstream, store, topicVars, engineVars>>

\* Only a payload whose length is the downloaded one may have its sentinel.
Verify(s) ==
  /\ stage[s] = "verify"
  /\ \/ NoFault /\ IF Whole THEN Goto(s, "commit") ELSE Abandon(s)
     \/ Fault /\ Abandon(s)
  /\ UNCHANGED <<kind, upstream, store, topicVars, copy, at, doomed, engineVars, mishap>>

\* Slip: the answer to the put of the sentinel is not looked at.
CommitUnread(s) ==
  /\ stage[s] = "commit"
  /\ \/ NoFault /\ store' = [store EXCEPT ![Ready] = "old"]
     \/ Fault /\ UNCHANGED store
  /\ Goto(s, "announce")
  /\ UNCHANGED <<kind, upstream, topicVars, copy, at, doomed, engineVars, mishap>>

\* Also reached by a copy the helper keeps: the sentinel is written again.
Commit(s) ==
  /\ stage[s] = "commit"
  /\ \/ NoFault /\ store' = [store EXCEPT ![Ready] = "old"] /\ Goto(s, "announce")
     \/ Fault /\ UNCHANGED store /\ Abandon(s)
  /\ UNCHANGED <<kind, upstream, topicVars, copy, at, doomed, engineVars, mishap>>

\* The ready event, deduplicated per request attempt by its sequence id.
Announce(s) ==
  /\ stage[s] = "announce"
  /\ \/ NoFault /\ announced' = TRUE /\ Goto(s, IF s = Loop THEN "ack" ELSE "done")
     \/ Fault /\ UNCHANGED announced /\ Abandon(s)
  /\ UNCHANGED <<kind, upstream, store, requests, refused, copy, at, doomed, engineVars, mishap>>

Ack ==
  /\ stage[Loop] = "ack"
  /\ requests' = requests - 1
  /\ Goto(Loop, "idle")
  /\ UNCHANGED <<kind, upstream, store, announced, refused, copy, at, doomed, engineVars,
                 faults, mishap>>

\* A coordinator, its helper with it, dies; the request is redelivered and
\* the next coordinator sweeps again.
Crash(s) ==
  /\ stage[s] \notin {"idle", "due"}
  /\ Fault
  /\ Goto(s, IF s = Loop THEN "idle" ELSE "due") /\ Cleanup(s)
  /\ doomed' = [doomed EXCEPT ![s] = {}]
  /\ mishap' = IF doomed[s] # {} THEN mishap \cup {"cut"} ELSE mishap
  /\ UNCHANGED <<kind, upstream, store, topicVars, engineVars>>

\* The repository's "main" moves.
Republish ==
  /\ kind = "snapshot" /\ upstream = "old"
  /\ upstream' = "new"
  /\ UNCHANGED <<kind, store, topicVars, stagerVars, engineVars, faults, mishap>>

-----------------------------------------------------------------------------
(* The engine.                                                             *)

Proceed(e, place) == run' = [run EXCEPT ![e] = place]

\* An execution lists the prefix; without a sentinel in the listing it is a
\* cache miss, which the first run turns into a bootstrap request.
List(e) ==
  /\ run[e] = "idle"
  /\ IF Sentinel
       THEN /\ wanted' = [wanted EXCEPT ![e] = {o \in Object : store[o] # "none"}]
            /\ Proceed(e, "fetch")
       ELSE /\ Proceed(e, IF second[e] THEN "failed" ELSE "miss")
            /\ UNCHANGED wanted
  /\ mishap' = IF Deleting THEN mishap \cup {"glimpse"} ELSE mishap
  /\ UNCHANGED <<kind, upstream, store, topicVars, stagerVars, second, got, faults>>

\* Slip: a key that is gone is passed over.
FetchSkipping(e) ==
  /\ run[e] = "fetch"
  /\ IF wanted[e] = {}
       THEN Proceed(e, "served") /\ UNCHANGED <<wanted, got>>
       ELSE \E o \in wanted[e] :
              /\ got' = [got EXCEPT ![e][o] = store[o]]
              /\ wanted' = [wanted EXCEPT ![e] = @ \ {o}]
              /\ UNCHANGED run
  /\ UNCHANGED <<kind, upstream, store, topicVars, stagerVars, second, faults, mishap>>

\* Each listed object is fetched; one that is gone fails the execution.
Fetch(e) ==
  /\ run[e] = "fetch"
  /\ IF wanted[e] = {}
       THEN Proceed(e, "served") /\ UNCHANGED <<wanted, got>>
       ELSE \E o \in wanted[e] :
              IF store[o] = "none"
                THEN /\ Proceed(e, "failed")
                     /\ wanted' = [wanted EXCEPT ![e] = {}]
                     /\ got' = [got EXCEPT ![e] = Prefix({}, "none")]
                ELSE /\ got' = [got EXCEPT ![e][o] = store[o]]
                     /\ wanted' = [wanted EXCEPT ![e] = @ \ {o}]
                     /\ UNCHANGED run
  /\ UNCHANGED <<kind, upstream, store, topicVars, stagerVars, second, faults, mishap>>

\* The request is published without a sequence id, so each one is a message.
RequestBootstrap(e) ==
  /\ run[e] = "miss"
  /\ requests < MaxRequests
  /\ requests' = requests + 1
  /\ Proceed(e, "wait")
  /\ UNCHANGED <<kind, upstream, store, announced, refused, stagerVars, second, wanted, got,
                 faults, mishap>>

\* The reader starts at the earliest event, so any event ends the wait.  The
\* sentinel must then be there (an Apple host cannot ask, and runs again
\* whatever the bucket holds); a failed HEAD reads as absent.
AwaitReady(e) ==
  /\ run[e] = "wait"
  /\ announced
  /\ \/ NoFault /\ second' = [second EXCEPT ![e] = TRUE] /\ Proceed(e, "idle")
     \/ ~Sentinel /\ NoFault /\ UNCHANGED second /\ Proceed(e, "failed")
     \/ Sentinel /\ Fault /\ UNCHANGED second /\ Proceed(e, "failed")
  /\ UNCHANGED <<kind, upstream, store, topicVars, stagerVars, wanted, got, mishap>>

WaitExpires(e) ==
  /\ run[e] = "wait"
  /\ Proceed(e, "failed")
  /\ UNCHANGED <<kind, upstream, store, topicVars, stagerVars, second, wanted, got, faults, mishap>>

\* The next request for the model after a failed one.
NextRequest(e) ==
  /\ run[e] = "failed"
  /\ Proceed(e, "idle")
  /\ second' = [second EXCEPT ![e] = FALSE]
  /\ UNCHANGED <<kind, upstream, store, topicVars, stagerVars, wanted, got, faults, mishap>>

-----------------------------------------------------------------------------
Attempt(s) ==
  \/ Begin(s) \/ Look(s) \/ HeadSentinel(s) \/ Validate(s) \/ ListDoomed(s) \/ Delete(s)
  \/ Download(s) \/ Put(s) \/ Verify(s) \/ Commit(s) \/ Announce(s)

Execute(e) ==
  \/ List(e) \/ Fetch(e) \/ RequestBootstrap(e) \/ AwaitReady(e) \/ WaitExpires(e)
  \/ NextRequest(e)

Next ==
  \/ \E s \in Stager : Attempt(s) \/ CallFails(s) \/ Crash(s)
  \/ Ack \/ Republish
  \/ \E e \in Engine : Execute(e)

Spec == Init /\ [][Next]_vars

\* Threads of a live coordinator run; faults and upstream changes need not.
Fairness == (\A s \in Stager : WF_vars(Attempt(s))) /\ WF_vars(Ack)

LiveSpec == Spec /\ Fairness
-----------------------------------------------------------------------------
(* Properties.                                                             *)

BTypeOK ==
  /\ kind \in Kind /\ upstream \in {"old", "new"}
  /\ store \in [Key -> Content]
  /\ requests \in 0 .. MaxRequests /\ announced \in BOOLEAN /\ refused \in BOOLEAN
  /\ stage \in [Stager -> {"idle", "due", "done", "look", "head", "validate", "list", "delete",
                          "download", "put", "verify", "commit", "announce", "ack"}]
  /\ copy \in [Stager -> Content]
  /\ at \in [Stager -> Nat \ {0}]
  /\ doomed \in [Stager -> SUBSET Key]
  /\ run \in [Engine -> {"idle", "fetch", "miss", "wait", "failed", "served"}]
  /\ second \in [Engine -> BOOLEAN]
  /\ wanted \in [Engine -> SUBSET Object]
  /\ got \in [Engine -> [Key -> Content]]
  /\ faults \in 0 .. MaxFaults
  /\ mishap \subseteq {"overlap", "cut", "overwrite", "glimpse"}

\* Only an mt3 repair ever deletes: two stagers that overlap, or a repair cut
\* short, can take objects from under a sentinel.
Undisturbed == kind = "mt3" => mishap \cap {"overlap", "cut"} = {}

\* A visible sentinel means that every object of the model is there, through
\* crashes, failed calls and redeliveries, and for every kind of source.
SentinelMeansComplete == Sentinel /\ ~Deleting /\ Undisturbed => Complete

\* A payload or a snapshot under a sentinel is not truncated, as long as no
\* attempt overlapped another or wrote over a published prefix.
SentinelMeansWhole ==
  Sentinel /\ kind \notin {"mt3", "unmix"} /\ mishap \cap {"overlap", "overwrite"} = {} => Whole

\* Whoever is about to publish the ready event does so over a staged model.
AnnouncementsAreTrue ==
  \A s \in Stager : stage[s] = "announce" /\ Undisturbed => Sentinel /\ Complete

\* An execution that goes ahead has fetched every object of the model: never
\* a prefix that an upload or a repair had left partial.
ServesComplete ==
  \A e \in Engine :
    run[e] = "served" /\ Undisturbed /\ "glimpse" \notin mishap
      => \A o \in Parts : got[e][o] # "none"

\* What it loads is of one upstream revision, unless a stager wrote over a
\* published prefix or overlapped another.
ServesOneRevision ==
  \A e \in Engine :
    run[e] = "served" /\ mishap \cap {"overlap", "overwrite"} = {}
      => \E r \in {"old", "new"} : \A o \in Object : got[e][o] \in {r, "short", "none"}

\* A good copy is never deleted by an attempt that runs alone: no fault can
\* be taken for corruption.  Nor is one truncated where content is checked.
GoodCopySurvives ==
  [][ Sentinel /\ Whole /\ "overlap" \notin mishap
        => Sentinel' /\ Complete' /\ (kind \in {"mt3", "snapshot"} => Whole') ]_vars

\* Once the faults are over, a bootstrap request ends acknowledged with the
\* model staged, or with its download refused.
RequestsSettle == (requests > 0) ~> (requests = 0 /\ (Sentinel \/ refused))
=============================================================================
