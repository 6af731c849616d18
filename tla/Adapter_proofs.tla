---------------------------- MODULE Adapter_proofs ----------------------------
(***************************************************************************)
(* Facts about adapter processes for any models, families, quota, output   *)
(* limit and number of faults: they use the model cache as its             *)
(* specification allows, so the contract of the cache holds for them, what *)
(* they answer can be read and believed, and the verdict on one that was   *)
(* ended names what ended it.                                              *)
(***************************************************************************)
EXTENDS Adapter, ModelCache_proofs

Before == {"isolate", "ceiling", "configure", "import", "weights", "input", "load"}
After == {"generate", "release", "upload", "respond"}
Phase == Before \cup After \cup {"none", "ending", "exited", "dead", "done"}

ProcOK ==
  /\ proc \in [phase : Phase, model : Model \cup {None}, out : {"pipe", "log"},
               err : {"pipe", "log"}, ack : BOOLEAN, data : {"none", "real", "empty", "long"},
               stored : BOOLEAN, cause : {"none", "not_populated", "other"},
               killer : Enforcement \cup {"none", "system"}]
  /\ proc.phase # "none" => proc.model \in Model
  /\ wired \in BOOLEAN

\* What a worker holds of a process, within the limit.
Tokens == {"noise", "response", "head"}

CapturesOK ==
  /\ captured \in [Stream -> Seq(Tokens)] /\ \A s \in Stream : Len(captured[s]) <= OutputLimit
  /\ over \subseteq Stream /\ termination \in Enforcement \cup {"none"}
  /\ result \in Enforcement \cup {"none", "worker_failed", "undecodable", "unbounded", "bootstrap",
                                "failed", "empty", "object", "text"}

\* Where nothing is configured nothing is ever cached.
WiringOK == ~wired => marked = {} /\ pc \in {"idle", "raise"}

\* Nothing but the response reaches the worker.
PipesOK ==
  /\ proc.phase \in (Before \cup After) \ {"isolate"} => proc.out = "log" /\ proc.err = "log"
  /\ proc.phase \in (Before \cup After \cup {"ending", "exited"}) \ {"isolate", "ceiling"}
       => proc.ack
  /\ proc.phase \in Before \cup After \cup {"none"} => captured["out"] = <<>> /\ over = {}
  /\ proc.phase \in {"ending", "exited"} /\ over = {} => captured["out"] = <<"response">>
  /\ over # {} => proc.data = "long"

\* The record names who ended the process, if an enforcement did.
RecordOK ==
  /\ proc.phase = "none" => termination = "none"
  /\ proc.phase \notin {"dead", "done"} => proc.killer = "none"
  /\ proc.killer \in Enforcement => termination = proc.killer
  /\ termination = "output_limit" => over # {}
  /\ proc.phase # "done" => result = "none"
  /\ VerdictNamesTheEnd

\* The cause of an error stays true until the answer is decoded.
CauseOK ==
  /\ proc.phase \in Before \cup {"generate", "upload", "none"} => proc.cause = "none"
  /\ proc.cause = "not_populated" => proc.model \notin marked
  /\ proc.phase = "done" /\ result = "bootstrap" => proc.cause = "not_populated"

\* What was generated came from a directory that is still complete.
OutputOK ==
  /\ proc.phase \in After \cup {"ending", "exited"} /\ proc.cause = "none" => Complete(proc.model)
  /\ proc.phase \in {"respond", "ending", "exited"} /\ proc.cause = "none" /\ Family.artifact
       => proc.stored
  /\ proc.phase = "done" /\ result \in {"object", "text"} => Complete(proc.model)
  /\ proc.phase = "done" /\ result = "object" => proc.stored

AInv ==
  /\ IInv /\ ProcOK /\ CapturesOK /\ WiringOK /\ PipesOK /\ RecordOK /\ CauseOK /\ OutputOK
  /\ AnswersAreReadable

SetupInv ==
  /\ setup \in {"start", "written", "synced", "replaced", "ready"}
  /\ setup = "synced" => staging = "durable"
  /\ setup \in {"replaced", "ready"} => manifest = "whole"
  /\ setup = "ready" => survivors = {"whole"}
  /\ manifest \in survivors /\ survivors \subseteq {"none", "whole"}

-----------------------------------------------------------------------------
\* What the cache does for a process is a step of the cache, and all else
\* that happens leaves it alone.
LEMMA AdapterStepsCache == AInv /\ [ANext]_avars => [Next]_vars
  <1> SUFFICES ASSUME AInv, [ANext]_avars PROVE [Next]_vars
    OBVIOUS
  <1> USE DEF Alone
  <1>1. ASSUME NEW m \in Model, Launch(m) PROVE UNCHANGED vars
    BY <1>1 DEF Launch
  <1>2. ASSUME NEW m \in Model, Stage(m) PROVE Next
    BY <1>2 DEF Next
  <1>3. CASE AskCache
    BY <1>3 DEF AskCache, AInv, ProcOK, Next
  <1>4. CASE CacheWork
    BY <1>4 DEF CacheWork, Next
  <1>5. CASE End
    BY <1>5 DEF End, Next
  <1>6. CASE Watchdog \/ Reader
    BY <1>6 DEF Watchdog, Reader, RecordFirst
  <1>7. CASE Signal \/ Crash \/ Abandon
    BY <1>7 DEF Signal, Crash, Dies, Abandon, Next
  <1>8. CASE Isolate \/ ReadCeiling \/ Configure \/ Import \/ Weights \/ FetchInput \/ Load
    BY <1>8 DEF Isolate, ReadCeiling, Configure, Import, Weights, FetchInput, Load
  <1>9. CASE Generate \/ ReleaseEngine \/ Upload \/ Respond \/ Decode \/ Collect
    BY <1>9 DEF Generate, ReleaseEngine, Upload, Respond, Decode, Collect
  <1> QED
    BY <1>1, <1>2, <1>3, <1>4, <1>5, <1>6, <1>7, <1>8, <1>9
    DEF ANext, ProcessStep, WorkerStep, avars

\* A process starts from nothing.
LEMMA AdapterInitInv == AInit => AInv
  <1> SUFFICES ASSUME AInit PROVE AInv
    OBVIOUS
  <1>1. <<>> \in Seq(Tokens) /\ Len(<<>>) = 0 /\ 0 <= OutputLimit
    BY AdapterAssumption
  <1>2. CapturesOK
    BY <1>1 DEF AInit, CapturesOK, NoOutput
  <1>3. ProcOK /\ WiringOK /\ PipesOK /\ RecordOK /\ CauseOK /\ OutputOK /\ AnswersAreReadable
    BY DEF AInit, Init, ProcOK, WiringOK, PipesOK, RecordOK, CauseOK, OutputOK,
       AnswersAreReadable, VerdictNamesTheEnd, Enforcement, NoProcess, NoOutput, Stream, Phase,
       Before, After
  <1> QED
    BY <1>2, <1>3, CacheInitInv DEF AInit, AInv

-----------------------------------------------------------------------------
(* What the larger steps do, for the lemmas below.                         *)

\* A process that is killed leaves this.
Dead(killer) ==
  [NoProcess EXCEPT !.phase = "dead", !.model = proc.model, !.data = proc.data, !.killer = killer]

\* Whoever ends it.
Ends(killer) ==
  /\ Running /\ Kill /\ proc' = Dead(killer) /\ Silent
  /\ UNCHANGED <<setupVars, lane, wired, result>>
  /\ killer \in Enforcement => termination = killer

LEMMA DeadIsProcess ==
  ASSUME ProcOK, Running, NEW killer \in Enforcement \cup {"system"}
  PROVE  /\ Dead(killer) \in [phase : Phase, model : Model \cup {None}, out : {"pipe", "log"},
                             err : {"pipe", "log"}, ack : BOOLEAN,
                             data : {"none", "real", "empty", "long"}, stored : BOOLEAN,
                             cause : {"none", "not_populated", "other"},
                             killer : Enforcement \cup {"none", "system"}]
         /\ Dead(killer).model \in Model
  <1>1. proc.model \in Model /\ proc.data \in {"none", "real", "empty", "long"}
    BY DEF ProcOK, Running
  <1> QED
    BY <1>1 DEF Dead, NoProcess, Phase

LEMMA KillEnds ==
  ASSUME CapturesOK, Signal \/ Crash
  PROVE  \E killer \in Enforcement \cup {"system"} : Ends(killer)
  <1>1. ASSUME NEW killer, Dies(killer), killer \in Enforcement => termination = killer PROVE Ends(killer)
    BY <1>1 DEF Dies, Ends, Dead
  <1>2. CASE Signal
    BY <1>1, <1>2 DEF Signal, CapturesOK
  <1>3. CASE Crash
    BY <1>1, <1>3 DEF Crash, Enforcement
  <1> QED
    BY <1>2, <1>3

\* What a successful run of the framework leads to.
Generated(data, next) ==
  /\ proc' = [proc EXCEPT !.data = data, !.phase = next]
  /\ next = "respond" => ~Family.artifact

LEMMA GenerateEffect ==
  Generate =>
    \/ Raise("other")
    \/ \E data \in {"real", "empty", "long"}, next \in {"release", "upload", "respond"} :
         Generated(data, next)
  <1> SUFFICES ASSUME Generate, ~Raise("other")
               PROVE  \E data \in {"real", "empty", "long"}, next \in {"release", "upload", "respond"} :
                        Generated(data, next)
    OBVIOUS
  <1> DEFINE next == IF Family.arena THEN "release"
                       ELSE IF Family.artifact THEN "upload" ELSE "respond"
  <1>1. PICK data \in {"real", "empty", "long"} : proc' = [proc EXCEPT !.data = data, !.phase = next]
    BY DEF Generate
  <1>2. next \in {"release", "upload", "respond"} /\ (next = "respond" => ~Family.artifact)
    OBVIOUS
  <1> HIDE DEF next
  <1> QED
    BY <1>1, <1>2 DEF Generated

\* What a reader retains of one more piece of output stays within the limit.
LEMMA RetainedFits ==
  ASSUME CapturesOK, NEW s \in Stream, NEW token \in Tokens
  PROVE  Retain(s, token) \in Seq(Tokens) /\ Len(Retain(s, token)) <= OutputLimit
  <1>1. /\ captured[s] \in Seq(Tokens) /\ Len(captured[s]) \in Nat /\ OutputLimit \in Nat
        /\ Len(captured[s]) <= OutputLimit
    BY AdapterAssumption DEF CapturesOK
  <1>2. Append(captured[s], token) \in Seq(Tokens) /\ Len(Append(captured[s], token)) = Len(captured[s]) + 1
    BY <1>1
  <1> QED
    BY <1>1, <1>2 DEF Retain

\* Every step leaves what the worker holds within its types and the limit.
LEMMA CapturesStep == ProcOK /\ CapturesOK /\ [ANext]_avars => CapturesOK'
  <1> DEFINE Verdicts == Enforcement \cup {"none", "worker_failed", "undecodable", "unbounded",
                                          "bootstrap", "failed", "empty", "object", "text"}
             Within == /\ captured' \in [Stream -> Seq(Tokens)]
                       /\ \A s \in Stream : Len(captured'[s]) <= OutputLimit
                       /\ over' \subseteq Stream
             Kept == termination' \in Enforcement \cup {"none"} /\ result' \in Verdicts
  <1> SUFFICES ASSUME ProcOK, CapturesOK, [ANext]_avars PROVE Within /\ Kept
    BY DEF CapturesOK
  <1>0. /\ captured \in [Stream -> Seq(Tokens)] /\ \A s \in Stream : Len(captured[s]) <= OutputLimit
        /\ over \subseteq Stream /\ termination \in Enforcement \cup {"none"} /\ result \in Verdicts
    BY DEF CapturesOK
  <1>1. Silent => Within /\ termination' = termination
    BY <1>0 DEF Silent
  <1>2. ASSUME Talk PROVE Within /\ termination' = termination
    <2>1. ASSUME NEW s \in Stream
          PROVE  LET next == IF proc[s] = "pipe" THEN Retain(s, "noise") ELSE captured[s]
                 IN  next \in Seq(Tokens) /\ Len(next) <= OutputLimit
      BY <1>0, RetainedFits DEF Tokens
    <2>2. captured' = [s \in Stream |-> IF proc[s] = "pipe" THEN Retain(s, "noise") ELSE captured[s]]
      BY <1>2 DEF Talk
    <2>3. captured' \in [Stream -> Seq(Tokens)] /\ \A s \in Stream : Len(captured'[s]) <= OutputLimit
      BY <2>1, <2>2
    <2>4. over' \subseteq Stream /\ termination' = termination
      BY <1>0, <1>2 DEF Talk
    <2> QED
      BY <2>3, <2>4
  <1>3. CASE result' = result /\ (Silent \/ Talk)
    BY <1>0, <1>1, <1>2, <1>3
  <1>4. ASSUME NEW m \in Model, Launch(m) PROVE Within /\ Kept
    BY <1>3, <1>4 DEF Launch
  <1>5. CASE Import \/ Load \/ Generate \/ ReleaseEngine
    BY <1>3, <1>5 DEF Import, Load, Generate, ReleaseEngine
  <1>6. CASE Isolate \/ ReadCeiling \/ Configure \/ AskCache \/ CacheWork
    BY <1>3, <1>6 DEF Isolate, ReadCeiling, Configure, AskCache, CacheWork
  <1>7. CASE Weights \/ FetchInput \/ Upload \/ End \/ Signal \/ Crash
    BY <1>3, <1>7 DEF Weights, FetchInput, Upload, End, Signal, Crash, Dies
  <1>8. CASE Respond
    <2>1. PICK token \in {"head", "response"} :
            /\ captured' = [captured EXCEPT !["out"] = Retain("out", token)]
            /\ over' \in {over, over \cup {"out"}}
      BY <1>8 DEF Respond
    <2>2. Retain("out", token) \in Seq(Tokens) /\ Len(Retain("out", token)) <= OutputLimit
      BY RetainedFits DEF Tokens, Stream
    <2>3. captured' \in [Stream -> Seq(Tokens)] /\ \A s \in Stream : Len(captured'[s]) <= OutputLimit
      BY <1>0, <2>1, <2>2
    <2>4. UNCHANGED <<termination, result>>
      BY <1>8 DEF Respond
    <2> QED
      BY <1>0, <2>1, <2>3, <2>4 DEF Stream
  <1>9. CASE Watchdog \/ Reader
    BY <1>0, <1>9 DEF Watchdog, Reader, RecordFirst, Alone, Enforcement
  <1>10. CASE Decode
    <2>1. Answer \in Verdicts
      BY DEF Answer, ProcOK
    <2>2. result' \in Verdicts
      <3>1. CASE termination # "none"
        BY <1>0, <1>10, <3>1 DEF Decode
      <3>2. CASE termination = "none" /\ proc.phase = "dead"
        BY <1>10, <3>2 DEF Decode
      <3>3. CASE termination = "none" /\ proc.phase = "exited"
        BY <1>10, <2>1, <3>3 DEF Decode
      <3> QED
        BY <1>10, <3>1, <3>2, <3>3 DEF Decode
    <2> QED
      BY <1>0, <1>1, <1>10, <2>2 DEF Decode
  <1>11. CASE Collect \/ Abandon
    <2>1. captured' = NoOutput /\ over' = {} /\ termination' = "none" /\ result' = "none"
      BY <1>11 DEF Collect, Abandon, Released
    <2>2. <<>> \in Seq(Tokens) /\ Len(<<>>) = 0 /\ 0 <= OutputLimit
      BY AdapterAssumption
    <2> QED
      BY <2>1, <2>2 DEF NoOutput
  <1>12. CASE UNCHANGED adapterVars
    BY <1>0, <1>12 DEF adapterVars
  <1> HIDE DEF Within, Kept
  <1> QED
    BY <1>4, <1>5, <1>6, <1>7, <1>8, <1>9, <1>10, <1>11, <1>12
    DEF ANext, ProcessStep, WorkerStep, avars

\* A process keeps its shape.
LEMMA ProcStep == ProcOK /\ CapturesOK /\ [ANext]_avars => ProcOK'
  <1> SUFFICES ASSUME ProcOK, CapturesOK, [ANext]_avars PROVE ProcOK'
    OBVIOUS
  <1> USE DEF ProcOK, Alone, Enforcement, Phase, Before, After, NoProcess, Enter, Raise
  <1>1. ASSUME NEW m \in Model, Launch(m) PROVE ProcOK'
    BY <1>1 DEF Launch
  <1>2. CASE UNCHANGED adapterVars
    BY <1>2 DEF adapterVars
  <1>3. CASE Isolate
    BY <1>3 DEF Isolate
  <1>4. CASE ReadCeiling
    BY <1>4 DEF ReadCeiling
  <1>5. CASE Configure
    BY <1>5 DEF Configure
  <1>6. CASE Import
    BY <1>6 DEF Import, WithWeights
  <1>7. CASE AskCache
    <2>1. /\ proc.phase = "weights" /\ Silent /\ wired' = wired /\ result' = result
      BY <1>7 DEF AskCache
    <2>2. CASE UNCHANGED proc
      BY <2>1, <2>2
    <2>3. CASE Raise("not_populated")
      BY <2>1, <2>3
    <2>4. CASE Raise("other")
      BY <2>1, <2>4
    <2> QED
      BY <1>7, <2>2, <2>3, <2>4 DEF AskCache
  <1>8. CASE CacheWork
    BY <1>8 DEF CacheWork
  <1>9. CASE Weights
    BY <1>9 DEF Weights, WithWeights
  <1>10. CASE FetchInput
    BY <1>10 DEF FetchInput, CannotReach
  <1>11. CASE Load
    BY <1>11 DEF Load
  <1>12. CASE Generate
    <2>1. /\ proc.phase = "generate" /\ termination' = termination /\ result' = result
          /\ wired' = wired /\ UNCHANGED vars
          /\ (proc.out = "log" /\ proc.err = "log" => captured'["out"] = captured["out"] /\ over' = over)
      BY <1>12 DEF Generate, Talk, Stream, Alone
    <2>2. ASSUME NEW data \in {"real", "empty", "long"}, NEW next \in {"release", "upload", "respond"},
                 Generated(data, next)
          PROVE  ProcOK'
      BY <2>1, <2>2 DEF Generated
    <2>3. CASE Raise("other")
      BY <2>1, <2>3
    <2> QED
      BY <1>12, <2>2, <2>3, GenerateEffect
  <1>13. CASE ReleaseEngine
    BY <1>13 DEF ReleaseEngine
  <1>14. CASE Upload
    BY <1>14 DEF Upload, CannotReach
  <1>15. CASE Respond
    BY <1>15 DEF Respond
  <1>16. CASE End
    BY <1>16 DEF End
  <1>17. CASE Watchdog \/ Reader
    BY <1>17 DEF Watchdog, Reader, RecordFirst, Live
  <1>18. CASE Signal \/ Crash
    <2>1. Running /\ wired' = wired /\ \E killer \in Enforcement \cup {"system"} : proc' = Dead(killer)
      BY <1>18, KillEnds DEF Ends, CapturesOK
    <2> QED
      BY <2>1, DeadIsProcess
  <1>19. CASE Decode
    BY <1>19 DEF Decode
  <1>20. CASE Collect \/ Abandon
    <2>1. proc' = NoProcess /\ wired' = wired
      BY <1>20 DEF Collect, Abandon, Released
    <2> QED
      BY <2>1
  <1> QED
    BY <1>1, <1>2, <1>3, <1>4, <1>5, <1>6, <1>7, <1>8, <1>9, <1>10, <1>11, <1>12, <1>13,
       <1>14, <1>15, <1>16, <1>17, <1>18, <1>19, <1>20 DEF ANext, ProcessStep, WorkerStep,
       avars

\* Only the response is written to the worker.
LEMMA PipesStep == ProcOK /\ CapturesOK /\ PipesOK /\ [ANext]_avars => PipesOK'
  <1> SUFFICES ASSUME ProcOK, CapturesOK, PipesOK, [ANext]_avars PROVE PipesOK'
    OBVIOUS
  <1> USE DEF ProcOK, PipesOK, Silent, Phase, Before, After, NoProcess, Enter, Raise
  <1>1. ASSUME NEW m \in Model, Launch(m) PROVE PipesOK'
    BY <1>1 DEF Launch
  <1>2. CASE UNCHANGED adapterVars
    BY <1>2 DEF adapterVars
  <1>3. CASE Isolate
    BY <1>3 DEF Isolate
  <1>4. CASE ReadCeiling
    BY <1>4 DEF ReadCeiling
  <1>5. CASE Configure
    BY <1>5 DEF Configure, Family
  <1>6. CASE Import
    BY <1>6 DEF Import, WithWeights, Talk, Stream, Family
  <1>7. CASE AskCache
    <2>1. /\ proc.phase = "weights" /\ Silent /\ wired' = wired /\ result' = result
      BY <1>7 DEF AskCache
    <2>2. CASE UNCHANGED proc
      BY <2>1, <2>2
    <2>3. CASE Raise("not_populated")
      BY <2>1, <2>3
    <2>4. CASE Raise("other")
      BY <2>1, <2>4
    <2> QED
      BY <1>7, <2>2, <2>3, <2>4 DEF AskCache
  <1>8. CASE CacheWork
    BY <1>8 DEF CacheWork
  <1>9. CASE Weights
    BY <1>9 DEF Weights, WithWeights, Family
  <1>10. CASE FetchInput
    BY <1>10 DEF FetchInput, CannotReach
  <1>11. CASE Load
    BY <1>11 DEF Load, Talk, Stream
  <1>12. CASE Generate
    <2>1. /\ proc.phase = "generate" /\ termination' = termination /\ result' = result
          /\ wired' = wired /\ UNCHANGED vars
          /\ (proc.out = "log" /\ proc.err = "log" => captured'["out"] = captured["out"] /\ over' = over)
      BY <1>12 DEF Generate, Talk, Stream, Alone
    <2>2. ASSUME NEW data \in {"real", "empty", "long"}, NEW next \in {"release", "upload", "respond"},
                 Generated(data, next)
          PROVE  PipesOK'
      BY <2>1, <2>2 DEF Generated
    <2>3. CASE Raise("other")
      BY <2>1, <2>3
    <2> QED
      BY <1>12, <2>2, <2>3, GenerateEffect
  <1>13. CASE ReleaseEngine
    BY <1>13 DEF ReleaseEngine, Talk, Stream
  <1>14. CASE Upload
    BY <1>14 DEF Upload, CannotReach
  <1>15. CASE Respond
    <2>1. /\ proc.phase = "respond" /\ proc' = [proc EXCEPT !.phase = "ending"]
          /\ captured["out"] = <<>> /\ over = {} /\ Len(captured["out"]) = 0
          /\ OutputLimit \in Nat /\ OutputLimit > 0
      BY <1>15, AdapterAssumption DEF Respond
    <2>2. CASE proc.cause = "none" /\ proc.data = "long"
      <3>1. over' = {"out"}
        BY <1>15, <2>1, <2>2 DEF Respond, Exceeds
      <3> QED
        BY <2>1, <2>2, <3>1
    <2>3. CASE ~(proc.cause = "none" /\ proc.data = "long")
      <3>0. ~Exceeds("out", "response") /\ Retain("out", "response") = Append(<<>>, "response")
        BY <2>1 DEF Exceeds, Retain
      <3>1. captured' = [captured EXCEPT !["out"] = Retain("out", "response")]
        BY <1>15, <2>3, Zenon DEF Respond
      <3>2. over' = over
        BY <1>15, <2>3, <3>0, Zenon DEF Respond
      <3>3. captured'["out"] = Append(<<>>, "response")
        BY <3>0, <3>1 DEF CapturesOK, Stream
      <3>4. Append(<<>>, "response") = <<"response">>
        OBVIOUS
      <3> QED
        BY <2>1, <3>2, <3>3, <3>4
    <2> QED
      BY <2>2, <2>3
  <1>16. CASE End
    BY <1>16 DEF End
  <1>17. CASE Watchdog \/ Reader
    BY <1>17 DEF Watchdog, Reader, RecordFirst, Live
  <1>18. CASE Signal \/ Crash
    <2>1. PICK killer \in Enforcement \cup {"system"} : Ends(killer)
      BY <1>18, KillEnds DEF CapturesOK
    <2> QED
      BY <2>1 DEF Ends, Dead, Running
  <1>19. CASE Decode
    BY <1>19 DEF Decode
  <1>20. CASE Collect \/ Abandon
    BY <1>20 DEF Collect, Abandon, Released, Running, Live, NoOutput, Stream
  <1> QED
    BY <1>1, <1>2, <1>3, <1>4, <1>5, <1>6, <1>7, <1>8, <1>9, <1>10, <1>11, <1>12, <1>13,
       <1>14, <1>15, <1>16, <1>17, <1>18, <1>19, <1>20 DEF ANext, ProcessStep, WorkerStep,
       avars

\* The record goes with the process it ends.
LEMMA RecordStep == ProcOK /\ CapturesOK /\ PipesOK /\ RecordOK /\ [ANext]_avars => RecordOK'
  <1> SUFFICES ASSUME ProcOK, CapturesOK, PipesOK, RecordOK, [ANext]_avars PROVE RecordOK'
    OBVIOUS
  <1> USE DEF ProcOK, PipesOK, RecordOK, VerdictNamesTheEnd, Enforcement, Silent, Phase,
              Before, After, NoProcess, Enter, Raise
  <1>1. ASSUME NEW m \in Model, Launch(m) PROVE RecordOK'
    BY <1>1 DEF Launch
  <1>2. CASE UNCHANGED adapterVars
    BY <1>2 DEF adapterVars
  <1>3. CASE Isolate
    BY <1>3 DEF Isolate
  <1>4. CASE ReadCeiling
    BY <1>4 DEF ReadCeiling
  <1>5. CASE Configure
    BY <1>5 DEF Configure
  <1>6. CASE Import
    BY <1>6 DEF Import, WithWeights, Talk
  <1>7. CASE AskCache
    BY <1>7 DEF AskCache
  <1>8. CASE CacheWork
    BY <1>8 DEF CacheWork
  <1>9. CASE Weights
    BY <1>9 DEF Weights, WithWeights
  <1>10. CASE FetchInput
    BY <1>10 DEF FetchInput, CannotReach
  <1>11. CASE Load
    BY <1>11 DEF Load, Talk
  <1>12. CASE Generate
    <2>1. /\ proc.phase = "generate" /\ termination' = termination /\ result' = result
          /\ wired' = wired /\ UNCHANGED vars
          /\ (proc.out = "log" /\ proc.err = "log" => captured'["out"] = captured["out"] /\ over' = over)
      BY <1>12 DEF Generate, Talk, Stream, Alone
    <2>2. ASSUME NEW data \in {"real", "empty", "long"}, NEW next \in {"release", "upload", "respond"},
                 Generated(data, next)
          PROVE  RecordOK'
      BY <2>1, <2>2 DEF Generated
    <2>3. CASE Raise("other")
      BY <2>1, <2>3
    <2> QED
      BY <1>12, <2>2, <2>3, GenerateEffect
  <1>13. CASE ReleaseEngine
    BY <1>13 DEF ReleaseEngine, Talk
  <1>14. CASE Upload
    BY <1>14 DEF Upload, CannotReach
  <1>15. CASE Respond
    BY <1>15 DEF Respond
  <1>16. CASE End
    BY <1>16 DEF End
  <1>17. CASE Watchdog \/ Reader
    BY <1>17 DEF Watchdog, Reader, RecordFirst, Live
  <1>18. CASE Signal \/ Crash
    <2>1. PICK killer \in Enforcement \cup {"system"} : Ends(killer)
      BY <1>18, KillEnds DEF CapturesOK
    <2> QED
      BY <2>1 DEF Ends, Dead, Running
  <1>19. CASE Decode
    BY <1>19 DEF Decode, Answer
  <1>20. CASE Collect \/ Abandon
    BY <1>20 DEF Collect, Abandon, Released, Running, Live
  <1> QED
    BY <1>1, <1>2, <1>3, <1>4, <1>5, <1>6, <1>7, <1>8, <1>9, <1>10, <1>11, <1>12, <1>13,
       <1>14, <1>15, <1>16, <1>17, <1>18, <1>19, <1>20 DEF ANext, ProcessStep, WorkerStep,
       avars

\* What can touch the cache.
LEMMA CacheTouches ==
  ASSUME [ANext]_avars
  PROVE  /\ wired' = wired
         /\ \/ UNCHANGED vars \/ AskCache \/ CacheWork \/ Exit \/ Kill
            \/ \E m \in Model : Stage(m)
  <1> USE DEF Alone
  <1>1. ASSUME NEW m \in Model, Launch(m) PROVE UNCHANGED vars /\ wired' = wired
    BY <1>1 DEF Launch
  <1>2. CASE AskCache \/ CacheWork \/ End \/ Signal \/ Crash
    BY <1>2 DEF AskCache, CacheWork, End, Signal, Crash, Dies
  <1>3. CASE Isolate \/ ReadCeiling \/ Configure \/ Import \/ Weights \/ FetchInput \/ Load
    BY <1>3 DEF Isolate, ReadCeiling, Configure, Import, Weights, FetchInput, Load
  <1>4. CASE Generate \/ ReleaseEngine \/ Upload \/ Respond \/ Decode
    BY <1>4 DEF Generate, ReleaseEngine, Upload, Respond, Decode
  <1>5. CASE Watchdog \/ Reader
    BY <1>5 DEF Watchdog, Reader, RecordFirst
  <1>6. CASE Collect \/ Abandon
    BY <1>6 DEF Collect, Abandon, Released
  <1> QED
    BY <1>1, <1>2, <1>3, <1>4, <1>5, <1>6
    DEF ANext, ProcessStep, WorkerStep, avars, adapterVars

\* An unwired process finds nothing in the cache and puts nothing there.
LEMMA WiringStep == ProcOK /\ WiringOK /\ [ANext]_avars => WiringOK'
  <1> SUFFICES ASSUME ProcOK, WiringOK, [ANext]_avars PROVE WiringOK'
    OBVIOUS
  <1>0. /\ wired' = wired /\ wired \in BOOLEAN
        /\ ~wired => marked = {} /\ pc \in {"idle", "raise"}
    BY CacheTouches DEF ProcOK, WiringOK
  <1>1. CASE UNCHANGED vars \/ Exit \/ Kill \/ \E m \in Model : Stage(m)
    BY <1>0, <1>1 DEF WiringOK, vars, diskVars, Exit, Kill, Stage
  <1>2. CASE AskCache
    BY <1>0, <1>2 DEF WiringOK, AskCache, Hit, Miss, diskVars, vars
  <1>3. CASE CacheWork
    <2>1. Work \/ Fail => pc \notin {"idle", "raise"}
      BY DEF Work, Fail, OpenTemp, Replace, MarkReady, Measure, Pick, Unlink, RemoveDir, GiveUp,
             Return
    <2> QED
      BY <1>0, <1>3, <2>1 DEF WiringOK, CacheWork
  <1> QED
    BY <1>1, <1>2, <1>3, CacheTouches

\* Outside the cache's own work for a process, markers and files stay.
LEMMA DiskStays ==
  ASSUME [ANext]_avars, ~CacheWork
  PROVE  UNCHANGED <<marked, disk>>
  BY CacheTouches DEF vars, diskVars, AskCache, Hit, Miss, StartPopulate, Exit, Kill, Stage

\* The cause that a process carries stays true.
LEMMA CauseStep == IInv /\ ProcOK /\ CapturesOK /\ WiringOK /\ RecordOK /\ CauseOK /\ [ANext]_avars => CauseOK'
  <1> SUFFICES ASSUME IInv, ProcOK, CapturesOK, WiringOK, RecordOK, CauseOK, [ANext]_avars PROVE CauseOK'
    OBVIOUS
  <1> USE DEF ProcOK, CauseOK, Phase, Before, After, NoProcess, Enter, Raise
  <1>0. proc.phase # "weights" => marked' = marked
    BY DiskStays DEF CacheWork
  <1>1. ASSUME NEW m \in Model, Launch(m) PROVE CauseOK'
    BY <1>1, <1>0 DEF Launch
  <1>2. CASE UNCHANGED adapterVars
    BY <1>2, <1>0 DEF adapterVars
  <1>3. CASE Isolate
    BY <1>3, <1>0 DEF Isolate
  <1>4. CASE ReadCeiling
    BY <1>4, <1>0 DEF ReadCeiling
  <1>5. CASE Configure
    BY <1>5, <1>0 DEF Configure
  <1>6. CASE Import
    BY <1>6, <1>0 DEF Import, WithWeights
  <1>7. CASE AskCache
    <2>1. /\ proc.phase = "weights" /\ result' = result /\ proc.cause = "none"
      BY <1>7 DEF AskCache
    <2>2. CASE UNCHANGED proc
      BY <2>1, <2>2
    <2>4. CASE Raise("other")
      BY <2>1, <2>4
    <2>3. ASSUME NEW client \in BOOLEAN, Miss(proc.model, wired /\ client), Raise("not_populated")
          PROVE  CauseOK'
      <3>1. proc.model \notin marked /\ marked' = marked
        BY <2>3 DEF Miss, IInv, ShapeOK, diskVars
      <3> QED
        BY <1>0, <1>7, <2>1, <2>3, <3>1
    <2> QED
      BY <1>7, <2>2, <2>3, <2>4 DEF AskCache
  <1>8. CASE CacheWork
    <2>1. proc.phase = "weights" /\ result' = result
      BY <1>8 DEF CacheWork
    <2>2. CASE UNCHANGED proc
      BY <2>1, <2>2
    <2>3. CASE Raise("other")
      BY <2>1, <2>3
    <2> QED
      BY <1>8, <2>2, <2>3 DEF CacheWork
  <1>9. CASE Weights
    BY <1>9, <1>0 DEF Weights, WithWeights, Family
  <1>10. CASE FetchInput
    BY <1>10, <1>0 DEF FetchInput, CannotReach, WiringOK, Family
  <1>11. CASE Load
    BY <1>11, <1>0 DEF Load
  <1>12. CASE Generate
    <2>1. /\ proc.phase = "generate" /\ termination' = termination /\ result' = result
          /\ wired' = wired /\ UNCHANGED vars
          /\ (proc.out = "log" /\ proc.err = "log" => captured'["out"] = captured["out"] /\ over' = over)
      BY <1>12 DEF Generate, Talk, Stream, Alone
    <2>2. ASSUME NEW data \in {"real", "empty", "long"}, NEW next \in {"release", "upload", "respond"},
                 Generated(data, next)
          PROVE  CauseOK'
      BY <2>1, <2>2, <1>0 DEF Generated
    <2>3. CASE Raise("other")
      BY <2>1, <2>3, <1>0
    <2> QED
      BY <1>12, <2>2, <2>3, GenerateEffect
  <1>13. CASE ReleaseEngine
    BY <1>13, <1>0 DEF ReleaseEngine
  <1>14. CASE Upload
    <2>1. proc.phase = "upload" /\ result' = result /\ wired' = wired
      BY <1>14 DEF Upload, Alone
    <2>2. CASE proc' = [proc EXCEPT !.stored = TRUE, !.phase = "respond"]
      BY <1>0, <2>1, <2>2
    <2>3. CASE Raise("other")
      BY <1>0, <2>1, <2>3
    <2>4. CASE ~wired /\ Raise("not_populated")
      BY <1>0, <2>1, <2>4 DEF WiringOK
    <2> QED
      BY <1>14, <2>2, <2>3, <2>4 DEF Upload, CannotReach
  <1>15. CASE Respond
    BY <1>15, <1>0 DEF Respond
  <1>16. CASE End
    BY <1>16, <1>0 DEF End
  <1>17. CASE Watchdog \/ Reader
    BY <1>17, <1>0 DEF Watchdog, Reader, RecordFirst, Live
  <1>18. CASE Signal \/ Crash
    <2>1. PICK killer \in Enforcement \cup {"system"} : Ends(killer)
      BY <1>18, KillEnds DEF CapturesOK
    <2> QED
      BY <2>1 DEF Ends, Dead, Running
  <1>19. CASE Decode
    <2>1. proc' = [proc EXCEPT !.phase = "done"] /\ proc.phase \in {"exited", "dead"}
      BY <1>19 DEF Decode
    <2>2. ASSUME result' = "bootstrap" PROVE proc.cause = "not_populated"
      BY <1>19, <2>2 DEF Decode, Answer, CapturesOK, Enforcement
    <2> QED
      BY <1>0, <2>1, <2>2
  <1>20. CASE Collect \/ Abandon
    BY <1>20, <1>0 DEF Collect, Abandon, Released, Running, Live
  <1> QED
    BY <1>1, <1>2, <1>3, <1>4, <1>5, <1>6, <1>7, <1>8, <1>9, <1>10, <1>11, <1>12, <1>13,
       <1>14, <1>15, <1>16, <1>17, <1>18, <1>19, <1>20 DEF ANext, ProcessStep, WorkerStep,
       avars

\* What is answered came from a directory that is still complete.
LEMMA OutputStep == ProcOK /\ CapturesOK /\ RecordOK /\ CauseOK /\ OutputOK /\ [ANext]_avars => OutputOK'
  <1> SUFFICES ASSUME ProcOK, CapturesOK, RecordOK, CauseOK, OutputOK, [ANext]_avars PROVE OutputOK'
    OBVIOUS
  <1> USE DEF ProcOK, OutputOK, Complete, FilesOf, Family, Phase, Before, After, NoProcess,
              Enter, Raise
  <1>0. proc.phase # "weights" => disk' = disk
    BY DiskStays DEF CacheWork
  <1>1. ASSUME NEW m \in Model, Launch(m) PROVE OutputOK'
    BY <1>1, <1>0 DEF Launch
  <1>2. CASE UNCHANGED adapterVars
    BY <1>2, <1>0 DEF adapterVars
  <1>3. CASE Isolate
    BY <1>3, <1>0 DEF Isolate
  <1>4. CASE ReadCeiling
    BY <1>4, <1>0 DEF ReadCeiling
  <1>5. CASE Configure
    BY <1>5, <1>0 DEF Configure
  <1>6. CASE Import
    BY <1>6, <1>0 DEF Import, WithWeights
  <1>7. CASE AskCache
    BY <1>7, <1>0 DEF AskCache
  <1>8. CASE CacheWork
    <2>1. proc.phase = "weights" /\ result' = result
      BY <1>8 DEF CacheWork
    <2>2. CASE UNCHANGED proc
      BY <2>1, <2>2
    <2>3. CASE Raise("other")
      BY <2>1, <2>3
    <2> QED
      BY <1>8, <2>2, <2>3 DEF CacheWork
  <1>9. CASE Weights
    BY <1>9, <1>0 DEF Weights, WithWeights
  <1>10. CASE FetchInput
    BY <1>10, <1>0 DEF FetchInput, CannotReach
  <1>11. CASE Load
    <2>1. proc.phase = "load" /\ result' = result /\ UNCHANGED <<disk, marked>>
      BY <1>11 DEF Load, Alone, vars, diskVars
    <2>2. CASE Complete(proc.model) /\ Enter("generate")
      BY <2>1, <2>2
    <2>3. CASE Raise("other")
      BY <2>1, <2>3
    <2> QED
      BY <1>11, <2>2, <2>3 DEF Load
  <1>12. CASE Generate
    <2>1. /\ proc.phase = "generate" /\ termination' = termination /\ result' = result
          /\ wired' = wired /\ UNCHANGED vars
          /\ (proc.out = "log" /\ proc.err = "log" => captured'["out"] = captured["out"] /\ over' = over)
      BY <1>12 DEF Generate, Talk, Stream, Alone
    <2>2. ASSUME NEW data \in {"real", "empty", "long"}, NEW next \in {"release", "upload", "respond"},
                 Generated(data, next)
          PROVE  OutputOK'
      BY <2>1, <2>2, <1>0 DEF Generated
    <2>3. CASE Raise("other")
      BY <2>1, <2>3, <1>0
    <2> QED
      BY <1>12, <2>2, <2>3, GenerateEffect
  <1>13. CASE ReleaseEngine
    BY <1>13, <1>0, AdapterAssumption DEF ReleaseEngine
  <1>14. CASE Upload
    BY <1>14, <1>0 DEF Upload, CannotReach, CauseOK
  <1>15. CASE Respond
    BY <1>15, <1>0 DEF Respond
  <1>16. CASE End
    BY <1>16, <1>0 DEF End
  <1>17. CASE Watchdog \/ Reader
    BY <1>17, <1>0 DEF Watchdog, Reader, RecordFirst, Live
  <1>18. CASE Signal \/ Crash
    <2>1. PICK killer \in Enforcement \cup {"system"} : Ends(killer)
      BY <1>18, KillEnds DEF CapturesOK
    <2> QED
      BY <2>1 DEF Ends, Dead, Running
  <1>19. CASE Decode
    <2>1. proc' = [proc EXCEPT !.phase = "done"]
      BY <1>19 DEF Decode
    <2>2. ASSUME result' \in {"object", "text"}
          PROVE  /\ proc.phase = "exited" /\ proc.cause = "none"
                 /\ result' = "object" => Family.artifact
      <3>1. termination = "none" /\ proc.phase = "exited" /\ result' = Answer
        BY <1>19, <2>2 DEF Decode, CapturesOK, Enforcement
      <3> QED
        BY <2>2, <3>1 DEF Answer
    <2> QED
      BY <1>0, <2>1, <2>2
  <1>20. CASE Collect \/ Abandon
    BY <1>20, <1>0 DEF Collect, Abandon, Released, Running, Live
  <1> QED
    BY <1>1, <1>2, <1>3, <1>4, <1>5, <1>6, <1>7, <1>8, <1>9, <1>10, <1>11, <1>12, <1>13,
       <1>14, <1>15, <1>16, <1>17, <1>18, <1>19, <1>20 DEF ANext, ProcessStep, WorkerStep,
       avars

\* What is decoded is a whole answer.
LEMMA ReadableStep ==
  ProcOK /\ CapturesOK /\ PipesOK /\ AnswersAreReadable /\ [ANext]_avars => AnswersAreReadable'
  <1> SUFFICES ASSUME ProcOK, CapturesOK, PipesOK, AnswersAreReadable, [ANext]_avars
               PROVE  AnswersAreReadable'
    OBVIOUS
  <1> USE DEF AnswersAreReadable
  <1>1. CASE result' \in {result, "none"}
    BY <1>1
  <1>2. CASE Decode
    <2>1. CASE termination # "none"
      BY <1>2, <2>1 DEF Decode, CapturesOK, Enforcement
    <2>2. CASE termination = "none" /\ proc.phase = "dead"
      BY <1>2, <2>2 DEF Decode
    <2>3. CASE termination = "none" /\ proc.phase = "exited"
      <3>1. captured["out"] = <<"response">> /\ proc.ack
        BY <1>2, <2>3 DEF Decode, PipesOK, Before, After
      <3>2. Answer \notin {"undecodable", "unbounded"}
        BY <3>1 DEF Answer, ProcOK
      <3> QED
        BY <1>2, <2>3, <3>2 DEF Decode
    <2> QED
      BY <1>2, <2>1, <2>2, <2>3 DEF Decode
  <1>3. CASE Watchdog \/ Reader
    BY <1>1, <1>3 DEF Watchdog, Reader, RecordFirst
  <1>4. CASE Collect \/ Abandon
    BY <1>1, <1>4 DEF Collect, Abandon, Released
  <1>5. CASE Isolate \/ ReadCeiling \/ Configure \/ Import \/ AskCache \/ CacheWork \/ Weights
    BY <1>1, <1>5 DEF Isolate, ReadCeiling, Configure, Import, AskCache, CacheWork, Weights
  <1>6. CASE FetchInput \/ Load \/ Generate \/ ReleaseEngine \/ Upload \/ Respond \/ End
    BY <1>1, <1>6 DEF FetchInput, Load, Generate, ReleaseEngine, Upload, Respond, End
  <1>7. CASE Signal \/ Crash
    BY <1>1, <1>7 DEF Signal, Crash, Dies
  <1>8. ASSUME NEW m \in Model, Launch(m) PROVE AnswersAreReadable'
    BY <1>1, <1>8 DEF Launch
  <1>9. CASE UNCHANGED adapterVars
    BY <1>1, <1>9 DEF adapterVars
  <1> QED
    BY <1>2, <1>3, <1>4, <1>5, <1>6, <1>7, <1>8, <1>9
    DEF ANext, ProcessStep, WorkerStep, avars

\* Every step keeps all of it.
LEMMA AdapterStepInv == AInv /\ [ANext]_avars => AInv'
  BY AdapterStepsCache, CacheStepInv, ProcStep, CapturesStep, PipesStep, RecordStep, WiringStep,
     CauseStep, OutputStep, ReadableStep DEF AInv

\* The invariant of adapter processes over their cache.
LEMMA AdapterInv == ASpec => []AInv
  BY AdapterInitInv, AdapterStepInv, PTL DEF ASpec

-----------------------------------------------------------------------------
\* Adapter processes, whatever family they are of and wherever they are
\* killed, use the cache within its specification.
THEOREM AdaptersUseCache == ASpec => Spec
  <1>1. AInit => Init
    BY DEF AInit
  <1> QED
    BY <1>1, AdapterInv, AdapterStepsCache, PTL DEF ASpec, Spec

\* So the cache keeps its contract with them.
THEOREM AdaptersKeepContract == ASpec => KeepsContract
  BY AdaptersUseCache, CacheKeepsContract

\* The quota is kept for them too.
THEOREM AdaptersKeepQuota == ASpec => QuotaKept
  BY AdaptersUseCache, QuotaIsKept

\* Whatever a framework prints or raises, the worker reads one response with
\* its acknowledgement.
THEOREM AnswersReadable == ASpec => []AnswersAreReadable
  <1>1. AInv => AnswersAreReadable
    BY DEF AInv
  <1> QED
    BY <1>1, AdapterInv, PTL

\* The verdict names what ended a process, and the output limit costs only an
\* answer that is too long.
THEOREM VerdictsNameTheEnd == ASpec => []VerdictNamesTheEnd
  <1>1. AInv => VerdictNamesTheEnd
    BY DEF AInv, RecordOK
  <1> QED
    BY <1>1, AdapterInv, PTL

\* An engine is sent to ask for a bootstrap only over a model it could not get.
THEOREM BootstrapIsNeeded == ASpec => []BootstrapMeansMissing
  <1>1. AInv => BootstrapMeansMissing
    BY DEF AInv, CauseOK, BootstrapMeansMissing
  <1> QED
    BY <1>1, AdapterInv, PTL

\* Output that is handed on was generated from every file of the model, and an
\* object reference names a stored artifact.
THEOREM OutputReal == ASpec => []OutputIsReal
  <1>1. AInv => OutputIsReal
    BY DEF AInv, OutputOK, OutputIsReal, After
  <1> QED
    BY <1>1, AdapterInv, PTL

-----------------------------------------------------------------------------
\* Setup by itself: every step keeps what a power loss could leave in order.
LEMMA SetupStepInv == SetupInv /\ [SetupStep]_setupVars => SetupInv'
  <1> SUFFICES ASSUME SetupInv, [SetupStep]_setupVars PROVE SetupInv'
    OBVIOUS
  <1> USE DEF SetupInv
  <1>1. CASE WriteStaging \/ SyncStaging
    BY <1>1 DEF WriteStaging, SyncStaging
  <1>2. CASE ReplaceManifest \/ SyncDirectory
    BY <1>2 DEF ReplaceManifest, SyncDirectory
  <1>3. CASE PowerLoss
    BY <1>3 DEF PowerLoss
  <1>4. CASE UNCHANGED setupVars
    BY <1>4 DEF setupVars
  <1> QED
    BY <1>1, <1>2, <1>3, <1>4 DEF SetupStep

\* No adapter step touches the manifest.
LEMMA AdapterStepsSetup == [ANext]_avars => [SetupStep]_setupVars
  BY DEF ANext, ProcessStep, WorkerStep, avars, Launch, AskCache, CacheWork, End, Isolate,
     ReadCeiling, Configure, Import, Weights, FetchInput, Load, Generate, ReleaseEngine, Upload,
     Respond, Watchdog, Reader, RecordFirst, Signal, Crash, Dies, Decode, Collect, Abandon,
     Released, Alone

\* The manifest is whole or absent after any power loss, and whole once setup
\* has said it is ready.
THEOREM ManifestDurable == ASpec => []ManifestIsDurable
  <1>1. AInit => SetupInv
    BY DEF AInit, SetupInit, SetupInv
  <1>2. SetupInv => ManifestIsDurable
    BY DEF SetupInv, ManifestIsDurable
  <1> QED
    BY <1>1, <1>2, SetupStepInv, AdapterStepsSetup, PTL DEF ASpec

\* The adapter, its cache, its setup and what the worker retains of its output
\* stay within their types, and what it retains of each pipe within the limit.
THEOREM AdapterTypeCorrect == ASpec => []ATypeOK
  <1>1. AInit => SetupInv /\ crashes \in 0 .. MaxCrashes
    BY SetupAssumption DEF AInit, SetupInit, SetupInv
  <1>2. crashes \in 0 .. MaxCrashes /\ [SetupStep]_setupVars => (crashes \in 0 .. MaxCrashes)'
    BY SetupAssumption
    DEF SetupStep, setupVars, WriteStaging, SyncStaging, ReplaceManifest, SyncDirectory, PowerLoss
  <1>3. AInv /\ SetupInv /\ CTypeOK /\ crashes \in 0 .. MaxCrashes => ATypeOK
    BY DEF AInv, ProcOK, CapturesOK, Tokens, SetupInv, ATypeOK
  <1> QED
    BY <1>1, <1>2, <1>3, AdapterInv, AdaptersUseCache, CacheTypeCorrect, SetupStepInv,
       AdapterStepsSetup, PTL DEF ASpec
=============================================================================
