------------------------------ MODULE ModelCache ------------------------------
(***************************************************************************)
(* The on-disk model cache of one engine                                   *)
(* (src/python/adapters/model_cache.py).  One adapter process at a time    *)
(* asks for one model; the directory tree outlives the process, which may  *)
(* be killed between any two of its writes.                                *)
(***************************************************************************)
EXTENDS Integers, FiniteSets

CONSTANTS
  Model,       \* models an adapter may ask for
  None,        \* no model, no file
  File,        \* file names
  Files,       \* the files of each model; each weighs one unit
  Quota,       \* quota_bytes, in those units
  MaxFaults    \* bound on killed processes, failed downloads, touches and removals

ASSUME CacheAssumption ==
  /\ None \notin Model \cup File
  /\ Files \in [Model -> SUBSET File]
  /\ IsFiniteSet(Model) /\ IsFiniteSet(File)
  /\ Quota \in Nat /\ MaxFaults \in Nat

VARIABLES
  staged,      \* models whose prefix has its .ready sentinel in the bucket
  dirs,        \* model directories under the cache root
  disk,        \* complete files, as <<model, file>>
  temp,        \* .tmp files of downloads
  marked,      \* models with a local .ready marker
  older,       \* order of the directories' access times: <<older, newer>>
  pc,          \* where the adapter process is
  want,        \* the model it asks for
  todo,        \* listed files it has not downloaded
  file,        \* the file being downloaded
  queue,       \* directories its quota pass has not passed
  total,       \* total_bytes of the quota pass
  victim,      \* the directory being removed
  used,        \* history: order of the last uses
  resumed,     \* history: directories a killed populate left behind
  torn,        \* history: directories whose removal was cut short
  untouched,   \* history: hits whose new access time could not be set
  missed,      \* history: directories this quota pass failed to remove
  faults       \* those so far

diskVars == <<dirs, disk, temp, marked, older>>
callVars == <<want, todo, file, queue, total, victim>>
history == <<used, resumed, torn, untouched, missed>>
vars == <<staged, diskVars, pc, callVars, history, faults>>

-----------------------------------------------------------------------------
FilesOf(m) == {m} \X Files[m]
Complete(m) == FilesOf(m) \subseteq disk

\* _directory_size_bytes
Size(m) == Cardinality({p \in disk : p[1] = m}) + Cardinality({p \in temp : p[1] = m})
TotalSize == Cardinality(disk) + Cardinality(temp)

\* What some directories weigh together.
Weight(among) ==
  Cardinality({p \in disk : p[1] \in among}) + Cardinality({p \in temp : p[1] \in among})

\* m comes after everything else.
Latest(order, among, m) ==
  {p \in order : m \notin {p[1], p[2]}} \cup {<<d, m>> : d \in among \ {m}}

Without(order, m) == {p \in order : m \notin {p[1], p[2]}}

Init ==
  /\ staged \in SUBSET Model
  /\ dirs = {} /\ disk = {} /\ temp = {} /\ marked = {} /\ older = {}
  /\ pc = "idle" /\ want = None /\ todo = {} /\ file = None
  /\ queue = {} /\ total = 0 /\ victim = None
  /\ used = {} /\ resumed = {} /\ torn = {} /\ untouched = {} /\ missed = {} /\ faults = 0

-----------------------------------------------------------------------------
\* The coordinator stages a model.
Stage(m) ==
  /\ m \notin staged
  /\ staged' = staged \cup {m}
  /\ UNCHANGED <<diskVars, pc, callVars, history, faults>>

\* Slip: any directory is a hit.
HitUnmarked(m) ==
  /\ pc = "idle" /\ m \in dirs
  /\ pc' = "serve" /\ want' = m
  /\ older' = Latest(older, dirs, m)
  /\ used' = Latest(used, Model, m)
  /\ resumed' = resumed \ {m} /\ untouched' = untouched \ {m}
  /\ UNCHANGED <<staged, dirs, disk, temp, marked, todo, file, queue, total, victim, torn, missed,
                 faults>>

\* get_model_path of a marked directory returns it and bumps its access time;
\* that the time cannot be set is ignored.
Hit(m) ==
  /\ pc = "idle" /\ m \in dirs /\ m \in marked
  /\ pc' = "serve" /\ want' = m
  /\ used' = Latest(used, Model, m)
  /\ \/ /\ older' = Latest(older, dirs, m)
        /\ resumed' = resumed \ {m} /\ untouched' = untouched \ {m}
        /\ UNCHANGED faults
     \/ /\ faults < MaxFaults /\ faults' = faults + 1
        /\ untouched' = untouched \cup {m}
        /\ UNCHANGED <<older, resumed>>
  /\ UNCHANGED <<staged, dirs, disk, temp, marked, todo, file, queue, total, victim, torn, missed>>

\* Otherwise the prefix is listed.  Without its sentinel, or where the bucket
\* is out of reach (no credentials in the request, no client library in the
\* environment), the call raises ModelCacheNotPopulated; with it the
\* directory is made.
Miss(m, reach) ==
  /\ pc = "idle" /\ ~(m \in dirs /\ m \in marked)
  /\ m \notin staged \/ ~reach
  /\ pc' = "raise" /\ want' = m
  /\ UNCHANGED <<staged, diskVars, todo, file, queue, total, victim, history, faults>>

StartPopulate(m) ==
  /\ pc = "idle" /\ ~(m \in dirs /\ m \in marked)
  /\ m \in staged
  /\ pc' = "populate" /\ want' = m /\ todo' = Files[m]
  /\ IF m \in dirs
       THEN resumed' = resumed \cup {m} /\ UNCHANGED <<dirs, older>>
       ELSE dirs' = dirs \cup {m} /\ older' = Latest(older, dirs, m)
            /\ resumed' = resumed \ {m}
  /\ UNCHANGED <<staged, disk, temp, marked, file, queue, total, victim, used, torn, untouched,
                 missed, faults>>

\* Each object streams into a temporary file, which then replaces its target.
OpenTemp(f) ==
  /\ pc = "populate" /\ f \in todo
  /\ pc' = "write" /\ file' = f
  /\ temp' = temp \cup {<<want, f>>}
  /\ UNCHANGED <<staged, dirs, disk, marked, older, want, todo, queue, total, victim,
                 history, faults>>

\* Slip: the rest of the listing is dropped after the first object.
ReplaceFirst ==
  /\ pc = "write"
  /\ pc' = "populate" /\ todo' = {} /\ file' = None
  /\ disk' = disk \cup {<<want, file>>} /\ temp' = temp \ {<<want, file>>}
  /\ UNCHANGED <<staged, dirs, marked, older, want, queue, total, victim, history, faults>>

Replace ==
  /\ pc = "write"
  /\ pc' = "populate" /\ todo' = todo \ {file} /\ file' = None
  /\ disk' = disk \cup {<<want, file>>} /\ temp' = temp \ {<<want, file>>}
  /\ UNCHANGED <<staged, dirs, marked, older, want, queue, total, victim, history, faults>>

\* The local marker is written last, itself through a rename.
MarkReady ==
  /\ pc = "populate" /\ todo = {}
  /\ pc' = "measure"
  /\ marked' = marked \cup {want}
  /\ used' = Latest(used, Model, want)
  /\ torn' = torn \ {want}
  /\ UNCHANGED <<staged, dirs, disk, temp, older, callVars, resumed, untouched, missed, faults>>

-----------------------------------------------------------------------------
(* The quota pass.                                                         *)

\* Slip: only directories with a marker are counted and considered.
MeasureMarked ==
  /\ pc = "measure"
  /\ pc' = "evict"
  /\ queue' = marked /\ total' = Weight(marked)
  /\ UNCHANGED <<staged, diskVars, want, todo, file, victim, history, faults>>

\* The directories are sorted by access time and their sizes added up, once.
Measure ==
  /\ pc = "measure"
  /\ pc' = "evict"
  /\ queue' = dirs /\ total' = TotalSize
  /\ UNCHANGED <<staged, diskVars, want, todo, file, victim, history, faults>>

Oldest(v, among) == v \in among /\ \A u \in among \ {v} : <<v, u>> \in older

\* Slip: the newest directory goes first.
PickNewest(v) ==
  /\ pc = "evict" /\ total > Quota /\ queue # {v}
  /\ v \in queue /\ \A u \in queue \ {v} : <<u, v>> \in older
  /\ pc' = "remove" /\ victim' = v
  /\ queue' = queue \ {v} /\ total' = total - Size(v)
  /\ UNCHANGED <<staged, diskVars, want, todo, file, history, faults>>

\* The next victim, as long as the total is over the quota and another
\* directory is left.
Pick(v) ==
  /\ pc = "evict" /\ total > Quota /\ queue # {v}
  /\ Oldest(v, queue)
  /\ pc' = "remove" /\ victim' = v
  /\ queue' = queue \ {v} /\ total' = total - Size(v)
  /\ UNCHANGED <<staged, diskVars, want, todo, file, history, faults>>

\* Slip: the size of the victim is taken off twice.
UnlinkCounting ==
  /\ pc = "remove"
  /\ \/ \E p \in disk : p[1] = victim /\ disk' = disk \ {p} /\ total' = total - 1
        /\ UNCHANGED <<temp, marked>>
     \/ \E p \in temp : p[1] = victim /\ temp' = temp \ {p} /\ UNCHANGED <<disk, marked, total>>
     \/ victim \in marked /\ marked' = marked \ {victim} /\ UNCHANGED <<disk, temp, total>>
  /\ UNCHANGED <<staged, dirs, older, pc, want, todo, file, queue, victim, history, faults>>

\* rmtree unlinks the entries in directory order, the marker among them.
Unlink ==
  /\ pc = "remove"
  /\ \/ \E p \in disk : p[1] = victim /\ disk' = disk \ {p} /\ UNCHANGED <<temp, marked>>
     \/ \E p \in temp : p[1] = victim /\ temp' = temp \ {p} /\ UNCHANGED <<disk, marked>>
     \/ victim \in marked /\ marked' = marked \ {victim} /\ UNCHANGED <<disk, temp>>
  /\ UNCHANGED <<staged, dirs, older, pc, callVars, history, faults>>

\* The emptied directory goes last.
RemoveDir ==
  /\ pc = "remove"
  /\ Size(victim) = 0 /\ victim \notin marked
  /\ pc' = "evict" /\ victim' = None
  /\ dirs' = dirs \ {victim} /\ older' = Without(older, victim)
  /\ torn' = torn \ {victim} /\ untouched' = untouched \ {victim}
  /\ UNCHANGED <<staged, disk, temp, marked, want, todo, file, queue, total, used, resumed, missed,
                 faults>>

\* rmtree ignores its errors: the pass goes on over what it could not remove.
GiveUp ==
  /\ pc = "remove" /\ faults < MaxFaults
  /\ pc' = "evict" /\ victim' = None
  /\ torn' = torn \cup {victim} /\ missed' = missed \cup {victim}
  /\ faults' = faults + 1
  /\ UNCHANGED <<staged, diskVars, want, todo, file, queue, total, used, resumed, untouched>>

\* get_model_path returns.  The pass has scanned every directory, which may
\* have refreshed the access time of one that a resumed download wrote to.
Return ==
  /\ pc = "evict" /\ (total <= Quota \/ Cardinality(queue) <= 1)
  /\ pc' = "serve"
  /\ queue' = {} /\ total' = 0 /\ missed' = {}
  /\ older' \in {older} \cup {Latest(older, dirs, d) : d \in resumed \cap dirs}
  /\ UNCHANGED <<staged, dirs, disk, temp, marked, want, todo, file, victim, used, resumed, torn,
                 untouched, faults>>

\* A failed download or write raises; the temporary file stays.
Fail ==
  /\ pc \in {"populate", "write"} /\ faults < MaxFaults
  /\ pc' = "raise" /\ todo' = {} /\ file' = None
  /\ faults' = faults + 1
  /\ UNCHANGED <<staged, diskVars, want, queue, total, victim, history>>

\* The response is written and the process ends.
Exit ==
  /\ pc \in {"serve", "raise"}
  /\ pc' = "idle" /\ want' = None
  /\ UNCHANGED <<staged, diskVars, todo, file, queue, total, victim, history, faults>>

\* A cancellation, a memory ceiling or a crash ends the process anywhere, in
\* a call or outside.
Kill ==
  /\ faults < MaxFaults
  /\ pc' = "idle" /\ want' = None /\ todo' = {} /\ file' = None
  /\ queue' = {} /\ total' = 0 /\ victim' = None /\ missed' = {}
  /\ torn' = IF pc = "remove" THEN torn \cup {victim} ELSE torn
  /\ faults' = faults + 1
  /\ UNCHANGED <<staged, diskVars, used, resumed, untouched>>

-----------------------------------------------------------------------------
\* The rest of a call that has to populate.
Work ==
  \/ \E f \in File : OpenTemp(f)
  \/ Replace \/ MarkReady \/ Measure
  \/ \E v \in Model : Pick(v)
  \/ Unlink \/ RemoveDir \/ GiveUp \/ Return

Next ==
  \/ \E m \in Model :
       Stage(m) \/ Hit(m) \/ StartPopulate(m) \/ \E reach \in BOOLEAN : Miss(m, reach)
  \/ Work \/ Fail \/ Exit \/ Kill

Spec == Init /\ [][Next]_vars

-----------------------------------------------------------------------------
(* Properties.                                                             *)

CTypeOK ==
  /\ staged \subseteq Model /\ dirs \subseteq Model /\ marked \subseteq Model
  /\ disk \subseteq Model \X File /\ temp \subseteq Model \X File
  /\ older \subseteq Model \X Model
  /\ pc \in {"idle", "raise", "populate", "write", "measure", "evict", "remove", "serve"}
  /\ want \in Model \cup {None} /\ victim \in Model \cup {None}
  /\ todo \subseteq File /\ file \in File \cup {None}
  /\ queue \subseteq Model /\ total \in Nat
  /\ used \subseteq Model \X Model /\ resumed \subseteq Model /\ torn \subseteq Model
  /\ untouched \subseteq Model /\ missed \subseteq Model
  /\ faults \in 0 .. MaxFaults

\* A marker vouches for every file, across kills and resumed downloads; the
\* one exception is a directory whose removal has begun.
MarkerMeansComplete == \A m \in marked \ (torn \cup {victim}) : Complete(m)

\* A pass that ends leaves the directories it did not fail to remove under the
\* quota, or a single one of them.  The leftovers of an earlier removal, cut
\* short by a kill or an error, count like everything else.
QuotaKept ==
  [][ Return => \/ Weight(dirs \ missed) <= Quota
                \/ Cardinality(dirs \ missed) <= 1 ]_vars

\* The directory the pass takes is less recently used than all it passes
\* over.  Not so one that a killed download left with an old access time, nor
\* one whose access time could not be set when it was last used.
EvictsLeastRecent ==
  [][ \A v \in Model :
        Pick(v) /\ v \notin resumed \cup untouched /\ v \in marked
          => v # want /\ \A u \in (queue \cap marked) \ (resumed \cup {v}) : <<v, u>> \in used ]_vars

\* Lapsed models: torn directories, and leftovers that were resumed.
Contract ==
  INSTANCE CacheContract
    WITH NoModel <- None,
         present <- {m \in marked : Complete(m)},
         lapsed <- torn \cup resumed,
         serving <- IF pc = "serve" THEN want ELSE None

\* The cache keeps its contract.
KeepsContract == Contract!CSpec
=============================================================================
