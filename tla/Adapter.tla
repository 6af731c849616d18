-------------------------------- MODULE Adapter --------------------------------
(***************************************************************************)
(* One-shot adapter processes (src/python/adapters/common.py and the       *)
(* transform of each family) over the model cache they share, and what the *)
(* worker that started them reads.  The engine's setup manifest comes      *)
(* first.                                                                  *)
(*                                                                         *)
(* A process takes one request on stdin, takes its weights from the cache, *)
(* runs a framework that logs heavily, and answers with one frame on       *)
(* stdout.  The worker (runExecutableStdioEngine in                        *)
(* src/src/Infernix/Runtime/CappedEngine/Internal.hs) reads both pipes     *)
(* from the start, so that nothing a process prints makes it wait; past a  *)
(* limit it kills the process, as the memory watchdog does past a ceiling, *)
(* and what ended the process is what the first of them recorded.          *)
(***************************************************************************)
EXTENDS ModelCache, SetupManifest, Sequences

CONSTANTS
  Shape,       \* how the family of each model goes about its transform
  OutputLimit  \* log bursts the worker retains of a pipe (maximumEngineOutputBytes)

\* The fields are explained, and the families given, in Families.
ASSUME AdapterAssumption ==
  /\ Shape \in [Model -> [artifact : BOOLEAN, eager : BOOLEAN, input : BOOLEAN, arena : BOOLEAN]]
  /\ OutputLimit \in Nat \ {0}

VARIABLES
  lane,        \* the host the engine runs on (fixed)
  wired,       \* whether requests carry cache and bucket configuration (fixed)
  proc,        \* the adapter process
  captured,    \* what the worker retains of its two pipes
  over,        \* the pipes that brought more than the limit
  termination, \* engineTermination: the enforcement recorded against it
  result       \* the worker's verdict on it

adapterVars == <<lane, wired, proc, captured, over, termination, result>>
avars == <<vars, setupVars, adapterVars>>

Stream == {"out", "err"}

NoOutput == [s \in Stream |-> <<>>]

\* killer is history: who ended the process, if it did not end by itself.
NoProcess ==
  [phase |-> "none", model |-> None, out |-> "pipe", err |-> "pipe", ack |-> FALSE,
   data |-> "none", stored |-> FALSE, cause |-> "none", killer |-> "none"]

AInit ==
  /\ Init /\ SetupInit
  /\ lane \in {"apple", "linux"} /\ wired \in BOOLEAN
  /\ proc = NoProcess /\ captured = NoOutput /\ over = {}
  /\ termination = "none" /\ result = "none"

-----------------------------------------------------------------------------
Family == Shape[proc.model]

Enter(phase) == proc' = [proc EXCEPT !.phase = phase]

WithWeights == IF Family.input THEN "input" ELSE "load"

\* Slip: any error of the adapter asks for a bootstrap.
RaiseMissing(cause) ==
  proc' = [proc EXCEPT !.cause = "not_populated", !.phase =
             IF Family.arena /\ proc.phase \in {"load", "generate"} THEN "release" ELSE "respond"]

\* An exception unwinds, through the release of an engine, to the error
\* response, which carries its cause as a code.
Raise(cause) ==
  proc' = [proc EXCEPT !.cause = cause, !.phase =
             IF Family.arena /\ proc.phase \in {"load", "generate"} THEN "release" ELSE "respond"]

\* configured() raises ModelCacheNotPopulated where nothing was configured.
\* No process gets that far: get_model_path has raised before.
CannotReach == IF wired THEN "other" ELSE "not_populated"

\* The cache and the setup are not touched by a step of the process alone.
Alone == UNCHANGED <<vars, setupVars, lane, wired>>

Silent == UNCHANGED <<captured, over, termination>>

\* readBoundedCapture: a reader of its own drains the pipe whatever happens,
\* retains what fits, and drops the rest.  The beginning of an answer that is
\* longer than the limit fills what is left.
Retain(s, token) == IF Len(captured[s]) < OutputLimit THEN Append(captured[s], token) ELSE captured[s]
Exceeds(s, token) == Len(captured[s]) >= OutputLimit \/ token = "head"

\* Framework output goes where the descriptors point.
Talk ==
  /\ captured' = [s \in Stream |-> IF proc[s] = "pipe" THEN Retain(s, "noise") ELSE captured[s]]
  /\ over' = over \cup {s \in Stream : proc[s] = "pipe" /\ Exceeds(s, "noise")}
  /\ UNCHANGED termination

-----------------------------------------------------------------------------
\* The worker starts a process over a prepared engine.  The setup manifest
\* must be there on an Apple host; a Linux image is prepared when it is built.
Launch(m) ==
  /\ proc.phase = "none"
  /\ lane = "apple" => setup = "ready" /\ manifest # "none"
  /\ proc' = [NoProcess EXCEPT !.phase = "isolate", !.model = m]
  /\ Silent /\ Alone /\ UNCHANGED result

\* Slip: stdout is kept as it is.
IsolateStderr ==
  /\ proc.phase = "isolate"
  /\ proc' = [proc EXCEPT !.phase = "ceiling", !.err = "log"]
  /\ Silent /\ Alone /\ UNCHANGED result

\* The real stdout is kept aside; descriptors 1 and 2 go to a log file.
Isolate ==
  /\ proc.phase = "isolate"
  /\ proc' = [proc EXCEPT !.phase = "ceiling", !.out = "log", !.err = "log"]
  /\ Silent /\ Alone /\ UNCHANGED result

\* The data-segment limit is read back before anything large is loaded.
ReadCeiling ==
  /\ proc.phase = "ceiling"
  /\ proc' = [proc EXCEPT !.ack = TRUE, !.phase = "configure"]
  /\ Silent /\ Alone /\ UNCHANGED result

\* The cache is configured, if the request carries anything to configure it
\* with, and the context is loaded.
Configure ==
  /\ proc.phase = "configure"
  /\ Enter(IF Family.eager THEN "import" ELSE "weights")
  /\ Silent /\ Alone /\ UNCHANGED result

Import ==
  /\ proc.phase = "import"
  /\ \/ Enter(IF Family.eager THEN "weights" ELSE WithWeights)
     \/ Raise("other")
  /\ Talk /\ Alone /\ UNCHANGED result

\* get_model_path; the listing may fail, and the environment of a family may
\* lack the client library of the bucket.
AskCache ==
  /\ proc.phase = "weights"
  /\ \/ Hit(proc.model) /\ UNCHANGED proc
     \/ wired /\ StartPopulate(proc.model) /\ UNCHANGED proc
     \/ \E client \in BOOLEAN : Miss(proc.model, wired /\ client) /\ Raise("not_populated")
     \/ /\ wired /\ pc = "idle" /\ proc.model \notin marked
        /\ Raise("other") /\ UNCHANGED vars
  /\ Silent /\ UNCHANGED <<setupVars, lane, wired, result>>

CacheWork ==
  /\ proc.phase = "weights"
  /\ \/ Work /\ UNCHANGED proc
     \/ Fail /\ Raise("other")
  /\ Silent /\ UNCHANGED <<setupVars, lane, wired, result>>

Weights ==
  /\ proc.phase = "weights" /\ pc = "serve"
  /\ Enter(IF Family.eager THEN WithWeights ELSE "import")
  /\ Silent /\ Alone /\ UNCHANGED result

\* The input object.
FetchInput ==
  /\ proc.phase = "input"
  /\ \/ wired /\ Enter("load")
     \/ Raise(CannotReach)
  /\ Silent /\ Alone /\ UNCHANGED result

\* The framework loads the directory.  Assumed of the frameworks, no code of
\* the adapters: a file that is not there makes it fail.
Load ==
  /\ proc.phase = "load"
  /\ \/ proc.model \in dirs /\ Complete(proc.model) /\ Enter("generate")
     \/ Raise("other")
  /\ Talk /\ Alone /\ UNCHANGED result

\* A text answer may be longer than what the worker retains.
Generate ==
  /\ proc.phase = "generate"
  /\ \/ \E data \in {"real", "empty"} \cup (IF Family.artifact THEN {} ELSE {"long"}) :
          proc' = [proc EXCEPT !.data = data, !.phase =
                     IF Family.arena THEN "release"
                       ELSE IF Family.artifact THEN "upload" ELSE "respond"]
     \/ Raise("other")
  /\ Talk /\ Alone /\ UNCHANGED result

\* The engine is shut down whether the transform returned or raised.
ReleaseEngine ==
  /\ proc.phase = "release"
  /\ Enter(IF Family.artifact /\ proc.cause = "none" THEN "upload" ELSE "respond")
  /\ Talk /\ Alone /\ UNCHANGED result

\* Slip: the reference is answered whether the upload succeeds or not.
UploadUnchecked ==
  /\ proc.phase = "upload"
  /\ \E stored \in BOOLEAN :
       proc' = [proc EXCEPT !.stored = stored, !.phase = "respond"]
  /\ Silent /\ Alone /\ UNCHANGED result

\* Empty artifacts are refused; the upload comes before the answer.
Upload ==
  /\ proc.phase = "upload"
  /\ \/ wired /\ proc.data = "real" /\ proc' = [proc EXCEPT !.stored = TRUE, !.phase = "respond"]
     \/ Raise(IF proc.data = "empty" THEN "other" ELSE CannotReach)
  /\ Silent /\ Alone /\ UNCHANGED result

\* One frame on the saved stdout, on success and on failure alike.
Respond ==
  /\ proc.phase = "respond"
  /\ LET token == IF proc.cause = "none" /\ proc.data = "long" THEN "head" ELSE "response"
     IN  /\ captured' = [captured EXCEPT !["out"] = Retain("out", token)]
         /\ over' = IF Exceeds("out", token) THEN over \cup {"out"} ELSE over
  /\ Enter("ending")
  /\ Alone /\ UNCHANGED <<termination, result>>

\* The process exits with success.
End ==
  /\ proc.phase = "ending"
  /\ Enter("exited")
  /\ IF pc = "idle" THEN UNCHANGED vars ELSE Exit
  /\ Silent /\ UNCHANGED <<setupVars, lane, wired, result>>

-----------------------------------------------------------------------------
(* The worker's side.                                                      *)

Running == proc.phase \notin {"none", "exited", "dead", "done"}
Live == proc.phase \notin {"none", "done"}

\* SIGKILL to the process group, at most MaxFaults times.
Dies(killer) ==
  /\ Running /\ Kill
  /\ proc' = [NoProcess EXCEPT !.phase = "dead", !.model = proc.model, !.data = proc.data,
                              !.killer = killer]
  /\ Silent /\ UNCHANGED <<setupVars, lane, wired, result>>

\* Slip: the last enforcement overwrites the record.
RecordLast(cause) ==
  /\ Live /\ termination # cause /\ termination' = cause
  /\ Alone /\ UNCHANGED <<proc, captured, over, result>>

\* recordFirstTermination: the first enforcement is recorded, whether or not
\* the process has ended since it was last looked at.
RecordFirst(cause) ==
  /\ Live /\ termination = "none" /\ termination' = cause
  /\ Alone /\ UNCHANGED <<proc, captured, over, result>>

\* The memory watchdog samples above the ceiling, or cannot sample.
Watchdog == RecordFirst("ceiling") \/ RecordFirst("unenforced")

\* The reader of a pipe finds more than the limit, or fails.
Reader == (over # {} /\ RecordFirst("output_limit")) \/ RecordFirst("capture_failed")

\* terminateForWatchdog: whoever made the record then ends the process, which
\* went on meanwhile and may have ended by itself.
Signal == termination # "none" /\ Dies(termination)

\* The kernel ends the process, or it crashes.
Crash == Dies("system")

\* Where a limit was installed, on Linux, its acknowledgement is looked at
\* before the error code and the output.
Answer ==
  CASE captured["out"] # <<"response">> -> "undecodable"
    [] captured["out"] = <<"response">> /\ lane = "linux" /\ ~proc.ack -> "unbounded"
    [] OTHER ->
         CASE proc.cause = "not_populated" -> "bootstrap"
           [] proc.cause = "other" -> "failed"
           [] proc.cause = "none" ->
                IF proc.data = "empty" THEN "empty"
                  ELSE IF Family.artifact THEN "object" ELSE "text"

\* The readers have come to the end of both pipes.  A recorded enforcement is
\* the outcome whatever the exit code; only the answer of a process that
\* exited with success is decoded.
Decode ==
  /\ proc.phase \in {"exited", "dead"}
  /\ over # {} => termination # "none"
  /\ result' = CASE termination # "none" -> termination
                 [] termination = "none" /\ proc.phase = "dead" -> "worker_failed"
                 [] termination = "none" /\ proc.phase = "exited" -> Answer
  /\ Enter("done")
  /\ Silent /\ Alone

\* The handle of the process is released.
Released ==
  /\ proc' = NoProcess /\ captured' = NoOutput /\ over' = {}
  /\ termination' = "none" /\ result' = "none"
  /\ UNCHANGED <<setupVars, lane, wired>>

\* The worker acts on the verdict.
Collect ==
  /\ proc.phase = "done"
  /\ Released /\ UNCHANGED vars

\* The execution is cancelled, or the worker ends: the process group is killed
\* and no verdict is given.
Abandon ==
  /\ Live
  /\ IF Running THEN Kill ELSE UNCHANGED vars
  /\ Released

-----------------------------------------------------------------------------
ProcessStep ==
  \/ Isolate \/ ReadCeiling \/ Configure \/ Import \/ AskCache \/ CacheWork \/ Weights
  \/ FetchInput \/ Load \/ Generate \/ ReleaseEngine \/ Upload \/ Respond \/ End

WorkerStep == Watchdog \/ Reader \/ Signal \/ Crash \/ Decode \/ Collect \/ Abandon

ANext ==
  \/ lane = "apple" /\ SetupStep /\ UNCHANGED <<vars, adapterVars>>
  \/ \E m \in Model : Launch(m)
  \/ \E m \in Model : Stage(m) /\ UNCHANGED <<setupVars, adapterVars>>
  \/ ProcessStep \/ WorkerStep

ASpec == AInit /\ [][ANext]_avars

-----------------------------------------------------------------------------
(* Properties.                                                             *)

Enforcement == {"ceiling", "unenforced", "output_limit", "capture_failed"}

ATypeOK ==
  /\ CTypeOK
  /\ setup \in {"start", "written", "synced", "replaced", "ready"}
  /\ manifest \in {"none", "part", "whole"} /\ crashes \in 0 .. MaxCrashes
  /\ proc.model \in Model \cup {None} /\ proc.data \in {"none", "real", "empty", "long"}
  /\ proc.cause \in {"none", "not_populated", "other"}
  /\ captured \in [Stream -> Seq({"noise", "response", "head"})]
  /\ \A s \in Stream : Len(captured[s]) <= OutputLimit
  /\ over \subseteq Stream
  /\ termination \in Enforcement \cup {"none"}
  /\ result \in Enforcement \cup {"none", "worker_failed", "undecodable", "unbounded", "bootstrap",
                                "failed", "empty", "object", "text"}

\* What the worker decodes is one whole frame of a process whose ceiling it
\* can confirm, whatever its framework printed or raised, however long the
\* answer is and whoever killed it meanwhile.
AnswersAreReadable == result \notin {"undecodable", "unbounded"}

\* The verdict that makes the engine ask for a bootstrap and wait for it is
\* given only when the weights could not be had: not when the framework, the
\* download or the upload failed.
BootstrapMeansMissing ==
  result = "bootstrap" /\ proc.phase = "done" => proc.model \notin marked

\* Output is handed on only if it came from a complete directory, and an
\* object reference only for an artifact that is stored.
OutputIsReal ==
  /\ result \in {"object", "text"} /\ proc.phase = "done" => Complete(proc.model)
  /\ result = "object" /\ proc.phase = "done" => proc.stored

\* The verdict on a process that was ended names what ended it, however the
\* readers, the watchdog and its own exit are interleaved; and the limit on
\* what is read costs only an answer that is itself too long, never one whose
\* framework logged too much.
VerdictNamesTheEnd ==
  /\ proc.phase = "done" /\ proc.killer \in Enforcement => result = proc.killer
  /\ result = "output_limit" => proc.data = "long"
=============================================================================
