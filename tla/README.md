# Infernix: TLA+ specifications and proofs

Infernix runs inference for a chat-style demo. Prompts are events on a durable
Pulsar topic, a *coordinator* decides which prompt may run, *engines* run it,
and the answer comes back as another event. Almost nothing is shared but topics:
what is correct depends on how replay, subscriptions, acknowledgements and the
broker's producer deduplication fit together. Around that core, model weights are
staged into an object store, mirrored into a cache on each engine and used by
one-shot adapter processes. These specifications model both, check them with TLC
and prove their central invariants with TLAPS.

Paths below are relative to the repository; `Pulsar.hs` is
`src/Infernix/Runtime/Pulsar.hs`.

## 1. The system

| Part | State it keeps | Operations | What makes it correct |
|---|---|---|---|
| Conversation log and reducer (`Conversation/*`) | append-only topic per context; projection: messages, client keys, resolved prompts, prefix hash | `stepReducer`, `inflightUserPrompts`, `nextDispatchablePrompt` | the projection is what the log says, whatever was replayed or redelivered |
| Single-flight dispatcher (`Dispatch/SingleFlight.hs`, `Pulsar.hs` 3760-4485) | one worker per context: `reducerStateRef`, `seenMessageIdsRef`; a Failover subscription | discovery, replay, `handleDispatcherMessage` | a prompt is dispatched only when every earlier one is settled, once, and no prompt is forgotten |
| Prefix verification (`Conversation/Prefix.hs`) | none | `reconstructVerifiedPrefix` | an engine runs a prompt only on the history the dispatcher meant |
| Coordinator hand-off (`consumeTopicSession`) | consumer of the request topic | admission, publish on a batch topic | nothing lost or duplicated between topics |
| Engine consumer (`consumeTopicSession`, `Runtime/Cancellation.hs`) | shared subscription on the batch topic, registry of running executions | execute, publish the result, cancellation | the same, and a cancel stops what it names |
| Result bridge (`Bridge/Result.hs`, `Pulsar.hs` 3540-3627) | Failover consumer of the result topic | append the result to the conversation | one result per prompt |
| User metadata (`Topic/Drafts.hs`, `Topic/Metadata.hs`, `Dispatch/ContextModelMap.hs`) | compacted topics of drafts and contexts; a map per browser session and per coordinator | publish, stream, fold | sessions converge to what the user wrote |
| Model bootstrap (`Bootstrap/Models.hs`, `Pulsar.hs` 4532-5200, 5846-6060, `python/adapters/model_bootstrap.py`) | a prefix of the models bucket with its `.ready` sentinel; request and ready topics | sweep, stage, repair, verify, mark ready, announce; an engine's wait and retry | ready means staged, in full; a good copy is never destroyed; a request is settled |
| Model cache (`python/adapters/model_cache.py`) | a directory per model with a `.ready` marker; access times | `get_model_path`: hit, populate, quota pass | a directory handed out is complete and stays; the quota holds; the least recently used goes |
| Engine adapters (`python/adapters/common.py`, `*_python.py`, `Runtime/Worker.hs`) | one process per request, a log file; the setup manifest | isolate, load, transform, upload, answer; decode | one readable answer that says what happened |
| Native runners (`python/native-runners/*`) | none | note decoding of basic-pitch | the written notes are playable and complete |
| Engine member claim (`Pulsar.hs` 2641 ff.) | exclusive subscription | claim, reacquire, give up | one daemon per member |
| KV cache (`Runtime/KVCache.hs`, `Runtime.hs` 182) | identity to prefix hash | observe, publish, invalidate | a reuse claim is never stale |
| Capped engine (`Runtime/CappedEngine/*`) | a process group, watchdog threads, one termination record | launch, terminate, classify | the outcome names what ended the engine |
| Artifacts and their locks (`Engines/Artifact/*`, `Engines/MaterializationLock/*`) | generations, lease sidecars, kernel file locks | activate, roll back, retire | one usable generation at every crash point |
| Managed subprocesses (`Cluster/Subprocess/*`) | supervisor, anchor, pin, published activity | session program | a started target is published and reaped |
| Cluster lifecycle (`Cluster/*`) | lifecycle lock, mutation marker | up, down, recovery | an interrupted mutation is repaired or refused |
| Evidence kernel (`Evidence/*`) | none | bounded waiting | a deadline is honoured |
| Web service and browser (`Demo/*`, `web/src`) | streams per session, snapshot and patches | connect, send, reconnect | what is shown is what the log says |
| Configuration, execution plan, CLI, lints, protocol buffers, charts | none that changes | decoding, validation, sequential commands | types and tests |

### How the parts interact

```
 browser --UserPrompt/UserCancel--> conversation log <------ result bridge
                                        |  replay + Failover         ^
                                        v                            |
                                    dispatcher --cancel topic--.     |
                                        |                      v     |
                                  request topic --> hand-off --> batch topic --> engines --> result topic
                                                       '----- admission rejection --------------^
```

```
 engine --bootstrap request--> request consumer, eager sweep --objects, sentinel--> models bucket
   ^                                   '--ready event--> engine                          |
   '-- worker <--one frame-- adapter process <--directory-- model cache <---objects------'
```

Every arrow of the upper picture is a publication with a producer name and a
sequence id. The broker drops a publication whose sequence id is not above the highest it accepted from
that producer. Every consumer acknowledges after it has published.

### What is hard to get right

* **Replay against live delivery.** A worker replays the whole log through a
  reader and then joins a subscription that still holds unacknowledged events:
  the two overlap, and the message ids already folded are remembered.
* **Crashes, lost sessions, failed publishes, handoff** between any two of fold,
  publish and acknowledge.
* **Sequence ids as deduplication.** A producer remembers one number, so a
  publication out of order is lost for good, silently.
* **Cancellation** travels on its own topic, strikes a thread from another
  thread, and races the completion.
* **Readers that start over** on top of the state they had built.
* **A prefix as a transaction.** Staging is a sequence of puts, and deletes when a
  checkpoint is repaired, by stagers nobody makes take turns, while engines list
  and fetch the same prefix; only the order of the sentinel protects a reader.
* **A directory as a transaction.** A populate or a removal may be killed between
  any two of its steps and be taken up by a later process.
* **A process that prints.** The worker reads both pipes of a process from the
  start, up to a limit past which it kills the process; readers, memory watchdogs
  and the process's own exit race, and the verdict must say which it was, and tell a
  missing model from a failing framework.

`PROJECT.json` lists each hazard at its line with the properties that cover it.

## 2. The modules

| Module | Models | Correspondence |
|---|---|---|
| `Conversation` | events, reducer, queue, request envelope | `StepReducer` = `stepReducer` with `isDuplicate...`; `IsNextDispatchable` = head of `inflightUserPrompts`; `EnvelopeFor` = `envelopeFromPromptMessage` |
| `Dispatcher` (extends `Conversation`) | the coordinator workers of one context, their topics, the Failover subscription, users, and an abstract environment `ResultArrives` | `phase` is the worker's place in `runDispatcherForContext`; `seen`, `reducer` are its two `IORef`s; `step` is the place in `handleDispatcherMessage`; `acked`, `readPos`, `nacked`, `active` are the subscription; `requestSeq`, `cancelSeq` the broker's memory of two producers |
| `PrefixVerification` (extends `Dispatcher`) | the engine's verdict on a dispatched request | `FoldEvents` = `foldEvents`; `PrefixVerified` = `reconstructVerifiedPrefix` |
| `Pipeline` (extends `Dispatcher`) | hand-off, engines, cancellations, result bridge: what really stands behind `ResultArrives` | one action per consumer step; `batchSeq`, `resultSeq`, `rejectionSeq`, `bridgeSeq` are the four producers of the path |
| `Drafts` | the drafts topic of a user | `topic`, the broker's `remembered` producers, each session's `stateRef` |
| `ModelBootstrap` | one prefix of the models bucket, for each kind of source; the request consumer, the eager sweeps, the engines | a stager's `stage` is its place in `processBootstrapRequest` and in the helper's `run_model_bootstrap_from_argv`: one action per call on the bucket; `copy`, `at` are its temporary directory and the upload's progress, `doomed` the listing of a repair; `run` is the engine's place in `executeInferenceWithModelBootstrapRetry` |
| `ModelCache` | the cache directory of one engine and the call of one adapter into it | `dirs`, `disk`, `temp`, `marked`, `older` are the tree and its access times; one action per write of `_populate_from_minio` and per entry of `rmtree` |
| `CacheContract` | the promise in the docstring of `get_model_path` | what `ModelCache` refines: `present`, `lapsed`, `serving` |
| `SetupManifest` | `run_setup_bootstrap` and a host that loses power | `survivors` is what the disk could show after a power loss now |
| `Families` | the order in which each family imports, asks for weights, fetches input | one record per transform |
| `Adapter` (extends `ModelCache`, `SetupManifest`) | an adapter process and the worker's verdict on its answer | `proc.phase` is the place in `run_context_adapter` / `run_artifact_adapter`; `captured`, `over` are what the two readers of `withEngineOutputCaptures` hold, `termination` is `engineTermination`, `result` the outcome with the decoded answer |
| `NoteDecoder` | `_run_basic_pitch_onnx` from the activations on | `remaining`, `notes` are its two variables, one action per note |
| `MC*` | model values and layouts for TLC | |
| `*_proofs` | lemmas and theorems | section 5 |

Definitions whose comment starts with "Slip:" are not used by the
specifications: each is a plausible mistake in one definition of the code, and
putting it in that definition's place must break the property it is paired with
in `PROJECT.json`.

### Abstractions, and why they are safe

* **Message ids are positions.** The topic has one partition and is append-only.
  `parseMessageIdToSequenceId` packs ledger and entry into one number; a position
  has the same order.
* **The prefix hash is the sequence it hashes**: a collision-free chain.
* **Payload text, uploads, model ids, rendering** are left out. An upload is
  folded like a result that settles nothing; no guard of the dispatcher reads it.
* **A handler's steps.** In `Dispatcher` receive-and-fold, forward, dispatch and
  acknowledge are separate steps, because a crash between any two matters. In
  `Pipeline`, publish and acknowledge are one step: a handler that published and
  has not acknowledged is repeated and the broker drops the repetition, which the
  `...Lost` actions (stored or not, not acknowledged) cover.
* **A reader that cannot be opened** throws, which ends the worker: a `Crash`
  followed by the restart the discovery poll makes.
* **No delivery order** is assumed of the Shared and Failover consumers of the
  path; the dispatcher's own subscription keeps the order of its cursor, with
  rejected messages redelivered at any time.
* **One batch topic** and no engine token contention: placement is a different
  question.
* **A stray interrupt.** `throwTo` is forked, so it may strike after the
  execution it was meant for; `InterruptStrikes` interrupts whatever the engine
  is doing then.
* **Broker inactivity.** `Resubmittable` (dispatcher) and `ForgetProducer`
  (drafts) are the broker dropping a producer it has not heard from for hours.
* **One model per prefix.** `ModelBootstrap` follows one model: prefixes are
  disjoint, so nothing is shared between models but the queue. Object content is
  missing, short, or of one of two revisions. The helper and the coordinator HEAD
  the same sentinel, each with its own reading of a failure.
* **Mishaps.** A history variable records what the code does not exclude and the
  properties must therefore be stated around: two stagers at once (`overlap`), a
  repair cut short (`cut`), a put over a published prefix (`overwrite`), a listing
  during a repair (`glimpse`). Each of them is reachable in the run.
* **An Apple host cannot ask the bucket** for the sentinel
  (`proveModelReadySentinel` returns `True` there): the first disjunct of
  `AwaitReady` goes ahead whatever the bucket holds.
* **Sizes.** Every file of the cache weighs one unit. Access times are an order,
  since only their order is read. `history` variables (`used`, `resumed`, `torn`,
  `untouched`, `missed`) are read by properties only.
* **Log bursts.** Each framework step writes one. The worker retains `OutputLimit`
  of a pipe (`maximumEngineOutputBytes`), drops the rest and records that there was
  more; an answer counts as one burst, or as one longer than the limit.
* **A record, then a signal.** Whoever ends a process first records why and then
  signals the process group; the two are separate steps, so the process may answer
  and exit in between. The samplers are free: a watchdog may find the ceiling
  exceeded, or fail to measure, as long as the handle of the process is live.
* **What a framework does with a missing file** is an assumption: `Load` fails. No
  code of the adapters looks.
* **Two lanes.** Only an Apple host needs the setup manifest (`Launch`), and only a
  Linux host has its acknowledgement looked at (`Answer`). The model looks at it for
  every model there; for one that runs on a GPU the code does not.
* **Adapters only.** The native runner lane populates the same cache directory with
  processes of its own. They are not modelled, so the results about the cache are
  about an engine whose models are all served by Python adapters.
* **The adapter's log file**, its tail in an error message and its removal, object
  keys and formats are left out. So are the temporary input files of MT3 and piano,
  which are never deleted (`materialize_temp_input` uses `delete=False`).
* **Loudness.** The decoder's second pass takes the loudest cell; the model takes
  any. A cell is over the threshold or not, where the code compares with `<` in
  one place and `>` in the other: they differ on a value equal to the threshold
  only. Frame times are at least a tick apart, so frames stand for ticks.
* Not modelled in these modules: deletion of a conversation topic, undecodable
  events, the wait of a dispatch for its model id, the request topic's legacy
  manual requests, the spool transport.

### Bounds

`MaxLog` bounds the events users add (results come on top), `MaxFaults` and
`MaxHopFaults` the faults, `MaxTopic` the drafts topic. They are guards of the
user and fault actions only, never of the program's. Three prompts and one
further event show every queue shape the rule distinguishes (settled, in flight,
queued, dropped resubmission); two faults allow a fault during the recovery of
another.

`bootstrap_staging` has one request in flight, one sweep and one engine: two
stagers and a reader are all that can meet on a prefix, and a layout of two
objects has a middle to be caught in. Two faults allow one during the recovery
from another, as a repair cut short and resumed. `adapter_process` has three
models over a quota of two files, so that serving the third evicts, and the
largest needs the cache for itself; two faults, be they kills, failed downloads,
touches or removals; two bursts of output per pipe; one power loss. `notes_decode` has six
frames, a minimum of one and a tolerance of two; the real ones are 11 and 11, and
`DecoderAssumption` states what both satisfy and the results rest on: the
tolerance is at most the minimum plus one, and the minimum is positive.

## 3. What is checked

The dispatcher, pipeline, bootstrap and decoder runs set `CHECK_DEADLOCK FALSE`:
with the bounded users silent and every queue drained, with the model staged and
served, or with the MIDI file written, the system really is at rest. The drafts
and the adapter runs check for deadlock.

### Runs that pass

* `dispatcher_faults` (one coordinator; three keys, one of which may be
  resubmitted; crashes, lost sessions, failed publishes; 1.4 M states).
  `ProjectionIsFaithful`: a worker's projection is exactly what the log says of
  the messages it folded. `NoGap`: whatever the subscription will not deliver
  again has been folded. `NoOvertaking`: the documented single-flight rule,
  stated on the log and the request topic only. `OneDispatchPerKey`.
  `VerifiedIsHistory`: no gap, resubmission or queue makes an engine accept a
  request on another history than the one through its prompt.
  `NewestPromptVerifies`: the common case is accepted.
* `dispatcher_handoff` (two coordinators, crashes, replays that end early). The
  replicas may disagree on the queue, yet each projection stays faithful to what
  was folded, and a key is dispatched once, because the request producer's name
  is shared and its sequence ids only rise.
* `pipeline_faults` (two engines, an admission refusal, a coordinator crash, a
  failing handler, a dying engine, an expired acknowledgement timeout,
  cancellations). `NothingLost`: a dispatched, unsettled prompt is always
  unacknowledged somewhere. `ImplementsDispatcher`: the path refines the abstract
  `ResultArrives` of `Dispatcher`, so every safety result about `Dispatcher`
  holds end to end. Each producer of the path remembers only one number, so both
  rest on single flight.
* `pipeline_live` (the same path, a session lost, one hop fault).
  `DispatchedSettles` and `LivePromptSettles`: every prompt that was dispatched,
  or that reached a running worker, is eventually settled.
  `LiveEventRestoresWork`: once a live event was folded and everything is
  acknowledged, the head of the queue is dispatched. `CancelPrecedesSuccessor`:
  the engines are told of a cancel before the prompt it unblocks is dispatched.
* `drafts_converge`. `CompactionInvisible`: the broker's compaction cannot be
  seen. `SessionsConverge`: readers that start over on top of old drafts still
  end with what the topic says.

* `bootstrap_staging` (the five kinds of source from every prefix an earlier run
  may have left; 238,000 states). `SentinelMeansComplete`, `AnnouncementsAreTrue`,
  `ServesComplete`: the sentinel, the ready event and an execution that goes ahead
  each vouch for every object. `SentinelMeansWhole`: what the coordinator or the
  Hub client checked is not truncated. `ServesOneRevision`: weights are not a
  mixture, however the upstream moves between the puts of interrupted and resumed
  stagings; it and `SentinelMeansWhole` exclude attempts that overlapped and puts over
  a published prefix. `GoodCopySurvives`: no failed read makes a repair that runs alone
  delete a good copy, which is what `CacheValidity` has three values for. `RequestsSettle`: a request
  ends with the model staged or its download refused for good.
* `adapter_process` (three processes' orders, both lanes, kills, failed downloads,
  touches and removals, a power loss during setup; 2.8 M states).
  `MarkerMeansComplete`, `QuotaKept`, `EvictsLeastRecent` and the refinement
  `KeepsContract` are about the cache as a whole history of processes uses it.
  `QuotaKept` is stated on what the pass did not itself fail to remove: a directory an
  earlier pass or kill left half removed is weighed and considered like any other.
  `EvictsLeastRecent` does not speak of a victim that was resumed with an old access
  time, or whose access time could not be set: these can go first.
  `AnswersAreReadable`, `BootstrapMeansMissing`, `OutputIsReal` are about what the
  worker concludes. `VerdictNamesTheEnd`: with readers, watchdogs and the process's
  own exit racing, a process that was ended is reported under the reason of who ended
  it, and the output limit never costs an answer because its framework logged. Both
  redirections are needed: without that of stdout the frame cannot be decoded,
  without that of stderr a framework that logs enough is killed. `ManifestIsDurable`
  is about the setup.
* `notes_decode` (every activation of the bounded size; 453,000 states).
  `NotesDisjoint` and `TrackAlternates`: a pitch is never switched on while it
  sounds, although the two passes scan in both directions and erase neighbours.
  `LongTonesAreHeard`: what the first pass erases for a note it then rejects would
  be lost; it erases only afterwards.

### Runs that find a disagreement

Each checks one statement of the repository's documents or comments and TLC
shows a behaviour of the code against it; `PROJECT.json` quotes both.

* `lost_at_start`: a prompt the replay folded is delivered live, recognised as
  folded, acknowledged, and the dispatch rule is never evaluated for it. It waits
  until another event arrives.
* `handoff_gap`: the replay runs at worker start, not at promotion; a replica that
  was passive meanwhile misses what the other acknowledged and overtakes.
* `cancel_dedup`: cancelling a queued prompt first makes the broker drop the
  cancellation of the running one.
* `prefix_claim`: the envelope pairs the offset of the prompt with the hash of the
  whole projection, so a prompt dispatched from behind another is refused.

More disagreements are visible in the models' actions and have no run of
their own. A message is remembered before it is handled, so after a failed publish
its redelivery is acknowledged without a publish (`FoldOnce`, `NextStep`). An
interrupted execution is negatively acknowledged and run again, and no
`Cancelled` result is published (`InterruptStrikes`, `GiveBack`). A draft, or a
clear, that repeats an earlier one is dropped by the broker, and an older draft
comes back (`UpdateDraft`). A cache directory whose removal stopped half way, with
its marker still there, is a hit for the next adapter (`GiveUp`, `Hit`), where the
docstring at `python/adapters/model_cache.py:180` guarantees every file; in the
contract such a model is `lapsed`. Two stagers over one mt3 prefix can leave a
sentinel over an incomplete model (`overlap` in `Undisturbed`), and a second staging
over a published prefix can give an engine weights of two revisions (`overwrite`). An early end of the replay (`ReplayStalls`) leaves acknowledged events
unfolded for good, where the comment at `Pulsar.hs:4185` expects the live path to
fold them. All engines share one `engine-cancellations` subscription
(`ConsumeCancellation`), so a cancellation reaches one engine, not every engine
as the comment at `Pulsar.hs:6065` has it. A result may follow the cancel of its
prompt in the log (`AppendResult` asks nothing about cancels). The comment at
`python/adapters/common.py:211` says that the worker captures stdout and stderr "on
pipes it does not drain until the response arrives", so that a full pipe would
deadlock the engine; the worker starts a reader on each before it writes the request
(`Runtime/CappedEngine/Internal.hs:1531`, 1564-1603), so such a pipe is drained, and the
process killed past sixteen MiB (`Talk`, `Retain`, `Reader`).

`LivePromptSettles` and the fault sets of the passing runs are stated around
these: no passing run shows the publish that was lost after its message was
remembered. `LiveEventRestoresWork` is checked without crashes and failed publishes;
the theorem excludes the failed publishes only. `CancelPrecedesSuccessor` needs
both exclusions (a replay folds cancels without forwarding them). `NoGap` and
`NoOvertaking` are checked with one coordinator whose replays complete.

## 4. Fairness

`PFairness` is weak fairness of each consumer loop: every dispatcher worker's own
step, the hand-off, taking a job, finishing a job, the bridge. The code justifies
it: the loops are `forever` loops under `retryCoordinatorStream` and
`consumeTopicForever`, which reconnect after every failure, discovery restarts
missing workers on a poll, and the broker redelivers what is not acknowledged.
Users, faults, cancellations and interrupts are free, so no property relies on
them. A job finishes because executions end in completion or failure; an
execution that never ends is outside the assumption.

`Fairness` of `ModelBootstrap` is weak fairness of each stager's next call and of
the acknowledgement: `runModelBootstrapLoop` is a `forever` loop that reconnects,
the sweep is a loop over the catalogue, and every helper call is bounded by a
timeout. Faults and upstream are free; `RequestsSettle` needs the faults to end,
which their bound ensures. `Adapter` assumes no fairness: a framework may run for
ever, and no liveness is claimed of it.

## 5. What is proved

Every invariant, every action property and both refinements that the passing
runs check are theorems here, for all values of the constants that satisfy the
modules' assumptions. `PROJECT.json` pairs each theorem with its property.

Inductions over a topic or a row of frames (the lemmas on what a fold, a
compaction or a scan computes) go through the well-foundedness of `<` on `Nat`:
the least index at which the lemma fails is the contradiction. The recursive
definitions the proofs unfold are functions, not RECURSIVE operators.

### Dispatcher (`Dispatcher_proofs`)

* `TypeCorrect`, for any number of replicas and any faults. `TypeOK` alone is not
  inductive: forwarding reads the prompt of `log[hand[r]]`, so `TypeInv` adds that
  a worker in the middle of a handler holds a message it has folded, and that only
  cancels are forwarded.
* Under `Uninterrupted` (exactly one coordinator, replays complete; crashes, lost
  sessions and failed publishes stay allowed): `SingleFlight` (`NoOvertaking`),
  `RecoveryHasNoGap` (`NoGap`), `ProjectionFaithful` and `DispatchedOncePerKey`.
  The assumption is necessary for the first two: `handoff_gap` is the
  counterexample without it.
* For any number of coordinators, replays that end early and every fault, while
  the broker drops resubmissions (`Resubmittable = {}`): `HandoffKeepsProjections`
  (`ProjectionIsFaithful`) and `HandoffDispatchesOnce` (`OneDispatchPerKey`).
* `LiveEventsRestoreWork`, under `Uninterrupted` without failed publishes, and
  `CancelGoesFirst`, without crashes as well.

**One coordinator.** `QueueInv` joins `TypeInv`, `WorkerInv` and `RequestInv`. The
folded messages of a worker are a prefix of the log (up to its `cursor` while it
replays; all that is acknowledged, and all up to the read position, once it is
live), and the projection is what the log says of that prefix. Delivery is in
cursor order, so a message that is not yet folded is the next one
(`DeliveredIsNext`), and folding it extends the prefix (`FoldNext`). Hence the head
of the queue in the projection is the head in the log (`HeadIsNext`, `AcceptHead`).
A message can be acknowledged or rejected only while held, and it is folded before
it is held, so nothing acknowledged is missing. The first section of the module
holds the facts about the reducer this needs (`StepReducerType`, `GrownLog`,
`ProjectsGrownLog`, `FoldProjects`, `StepReducerProjects`). `NoOvertaking` says
nothing of how the worker knows the queue, so it is far from inductive itself.

**Several coordinators.** The folded messages are no longer a prefix, and the heads
of the queues differ. What stays true (`SharedInv`) is that whatever a worker lacks
before a message it has folded is acknowledged, so it will not be delivered
later: folding is still in log order. A projection is then right about what it
folded as long as no two prompts of the log share a key; a worker that missed the
first submission would fold the second, which is why resubmissions are excluded.
One dispatch per key follows from the shared producer: its sequence ids rise
(`RequestsRise`), whoever publishes.

**Live events.** `RestoringInv` adds that a worker that has caught up knows
everything before a dispatched prompt to be settled (`KnowsSettled`). The head of its
queue is then newer than every request, and accepted (`HeadGoesOut`), or is the
last one. Nothing is ever rejected without a failed publish, so whoever has folded
a live event and holds nothing has published its head.

**Cancellations.** `CancelsInv`: a dispatched prompt was head of a queue without
a folded cancel, so its cancel is folded after the dispatch, live, and is
forwarded before the same handler reaches the dispatch.

### Prefix verification (`Prefix_proofs`)

`VerifiedPrefixIsHistory` has no assumption: any replicas, any faults. The offset an
envelope carries is a message of the projection whose hash it carries, and the
rebuilt chain matches only if the two have the same messages: `OffsetInv`, `FullRange`
and `ExactRange`. `NewestPromptPasses` needs `Uninterrupted`: `HashInv` says
that the hash covers all the log keeps up to the prompt.

### The path (`Pipeline_proofs`)

`PInv` is `TypeInv` of the dispatcher, the types of the hops, that the path carries
only dispatched prompts (`PathInv`), and that what is acknowledged on one topic is not
above the sequence id accepted by the producer of the next (`HandedOn`). One lemma
shows that every step keeps it and is a step of `Dispatcher` or a stutter; that is
`PipelineTypeCorrect` and `PipelineImplementsDispatcher`, and
`PipelineKeepsOrder` is what the refinement is for: the dispatcher's theorems hold on
the path. `NothingIsLost` takes `QueueInv` in addition. An unsettled dispatched
prompt is the last request, so no sequence id is above its own, and each
acknowledgement would imply a publication further on, up to the log
(`UnsettledIsInFlight`). With overtaking the number remembered by a hop could be that of
a later prompt and the argument would break; this is why the path rests on single
flight.

### Drafts (`Drafts_proofs`)

`FoldSays`: folding the topic is the same as looking up the latest event of each
context. `CompactedSays`: compaction keeps exactly those. From the two,
`CompactionIsInvisible`. `SessionsAlwaysConverge` needs `ShowsWhatIsRead`: for a context
whose events the session has begun to read, it shows the latest of those read; for
another one it shows nothing or an older draft, and then the topic still has an
event for it to read.

### Model bootstrap (`ModelBootstrap_proofs`)

For any number of sweeps, engines, objects, requests and faults and every layout.

* `SentinelIsTrue`, `EventsAreTrue`, `ServesAll`. `SentinelMeansComplete` is not
  inductive: it does not say that the stager about to write the sentinel has put
  everything. `BInv` adds that only mt3 is ever repaired, that without overlap at
  most one stager is under way, that what it has put so far is there (`PutShape`,
  `PutsStay`), that a repair which finished has removed everything
  (`RepairIsTotal`), and that who is about to commit finds a complete prefix
  (`ReadyToTell`). `EInv` adds that what an engine has still to fetch and what it has
  fetched cover the model (`Loading`).
* `SentinelIsWhole` and `GoodCopiesSurvive` follow `ContentInv`, which tells what the
  objects hold: a checked source copies nothing short, only a snapshot's upstream
  moves, what an attempt has put is what it copied (`PutsAreExact`), and until a
  repair has deleted what it listed the copy it repairs is bad (`RepairIsDue`).
* `ServesOne` adds `LoadsExact`: what an engine fetched of a snapshot is what the
  prefix still holds. `BootstrapTypeCorrect` adds the counters.

### Model cache and adapters (`ModelCache_proofs`, `Adapter_proofs`)

For all models, files, quotas and faults: `CacheTypeCorrect`, `MarkersVouch`,
`CacheKeepsContract` (the refinement) and `EvictsByUse`. The inductive invariant `IInv`
adds to the types what a step needs: the victim of a pass is never the wanted
model, what is not yet downloaded is exactly `todo`, the wanted model is the newest
in the order, and the order of access times of marked directories that were not
resumed, and whose access time could be set, agrees with the order of their uses.
`torn` and `resumed` are the two exceptions the code leaves to the contract, and its
`lapsed` is their union.
`QuotaIsKept` needs `QuotaInv`: during a pass `total` is the weight of the
directories still queued, and what is not queued is the victim or was missed. Most of its
proof is `WeightSplits`, on the cardinality of the parts of the tree.

For every `Shape` and output limit, `AdaptersUseCache` shows that each step of a
process is a step of the cache or leaves it alone, which gives `AdaptersKeepContract`
and `AdaptersKeepQuota` without a second induction. `AnswersReadable`,
`BootstrapIsNeeded`, `OutputReal` and `VerdictsNameTheEnd` share one invariant, `AInv`,
with one lemma for each part. `PipesOK`: both descriptors are on the log once a
framework may print, so a capture is empty until the response and over its limit only
for an answer that is too long. `RecordOK`: a process that an enforcement ended carries
the reason that is on record, and the record is never overwritten. `CauseOK`: a cause
"not populated" implies that the marker is absent; it needs `WiringOK`, that nothing is
ever cached where nothing is configured. `OutputOK`: what was generated came from a
directory that is still complete. `CapturesOK` bounds both captures, whatever is
printed, which is the worker's part of `AdapterTypeCorrect`. `ManifestDurable` is a
separate induction over `SetupManifest`.

### Note decoder (`NoteDecoder_proofs`)

For every activation, size and tolerance under `DecoderAssumption`. `DecoderTypeCorrect`,
`NotesNeverOverlap` and `TrackIsPlayable` rest on `NInv`: a note's own frames are
erased from `remaining` (`LeftSilent`), and a note is at least as long as the
tolerance, which is what the assumption is for; so a later scan that reaches one
stops there (`ScanAfter`, `ScanBefore`, `SilenceAfter`, `SilenceBefore`). The track alternates because the notes of a pitch are disjoint and
the file orders a switch-off before a switch-on of the same frame.
`LongTonesHeard` adds `ToneInv`, that a long tone has been heard or is still all
there: erasing part of it means that a scan touched it, and a scan that touches an
intact run covers it (`RunAfter`, `RunBefore`) and is long enough to be a note.

### Only model-checked

Liveness: `LivePromptSettles`, `DispatchedSettles` and `RequestsSettle` rest on
fairness and `ENABLED`, which are outside the prover. Of several replicas with resubmissions only `TypeCorrect` and `VerifiedPrefixIsHistory` speak:
their projections are not claimed to be faithful. The disagreement runs are
counterexamples and stay with TLC.

## 6. Not modelled

The components with status `not_modelled` in `PROJECT.json`, each with its
reason: pure decoding and validation, file formats, drivers of host commands and
generated code carry no state worth exploring; the rest is planned.

Of the Python code: the source checks of `run_check_code` (a lint), what the
frameworks compute, the tokenizer, the formatting of object keys, and the native
runners that only call a framework. The cache does not sync its files, so after a
power loss a marker may outlive data; the container's cache volume is not expected
to survive one, and the model has no power loss there.

## 7. Plan

The order follows how much of the system's promise rests on a part.

1. *Done:* `Conversation`, `Dispatcher`, `PrefixVerification`, `Pipeline`,
   `Drafts`; theorems of all five.
2. *Done:* `ModelBootstrap`, `ModelCache` with `CacheContract`, `Adapter` with
   `SetupManifest` and `Families`, `NoteDecoder`; theorems of all of them.
3. `Contexts`: context stream, rename and delete, the coordinator's model map and
   the bounded wait of a dispatch; joined with `Drafts` in one run. To check:
   a dispatch carries the model of the context's creation; streams converge.
4. `EngineMember` and `KVCache`: the exclusive claim with its reacquisition, and
   the cache around interrupted executions. To check: two daemons of one member
   never serve at once beyond the reacquisition window.
5. `Generations`: artifact activation, leases and sidecar retirement, with crash.
   To check: a reader never holds a retired generation; recovery is possible from
   every crash point.
6. `Subprocess` and `CappedEngine`: the session program, and what the watchdogs sample
   (a missing group, retries) and the native lane over the same cache; the record, the
   kill and the outcome are in `Adapter`. To check: a target that runs is published.
7. `Lifecycle`: lock and mutation recovery. `Readiness`: the waiting loop as a
   function against a reference definition.
8. Proofs. *Done:* every invariant, action property and refinement of the runs
   above, section 5. Left: the invariants of the modules of items 3 to 7.
