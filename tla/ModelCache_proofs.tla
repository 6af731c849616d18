--------------------------- MODULE ModelCache_proofs ---------------------------
(***************************************************************************)
(* The model cache keeps its contract, for any models, files, quota and    *)
(* number of faults.                                                       *)
(*                                                                         *)
(* The argument: a download adds files before the marker and nothing else  *)
(* adds a marker; only the quota pass removes, and it says which directory *)
(* before it starts; the directory that was just filled is the newest, so  *)
(* the pass, which never takes the last one, cannot come to it.            *)
(***************************************************************************)
EXTENDS ModelCache, FiniteSetTheorems, TLAPS

Calling == {"populate", "write", "measure", "evict", "remove"}

ShapeOK ==
  /\ staged \subseteq Model /\ dirs \subseteq Model
  /\ marked \subseteq dirs /\ torn \subseteq dirs /\ queue \subseteq dirs
  /\ pc \in Calling \cup {"idle", "raise", "serve"}
  /\ pc # "idle" => want \in Model
  /\ resumed \subseteq Model

\* A directory is being removed exactly in the quota pass.
VictimOK ==
  /\ victim # None => pc = "remove"
  /\ pc = "remove" => victim \in dirs /\ victim \notin queue

\* What a download still owes is what it has left to do.
DownloadOK ==
  pc \in {"populate", "write"} =>
    /\ want \in dirs /\ want \notin marked
    /\ \A f \in Files[want] : f \in todo \/ <<want, f>> \in disk

\* No directory is newer than the one just made.
NewestOK ==
  pc \in Calling /\ want \notin resumed => \A u \in Model : <<want, u>> \notin older

\* The quota pass leaves the directory it was called for alone.
FilledOK ==
  pc \in {"measure", "evict", "remove"} /\ want \notin resumed =>
    want \in marked /\ want # victim /\ \A f \in Files[want] : <<want, f>> \in disk

MarkersOK ==
  \A m \in marked : m \notin torn /\ m # victim => \A f \in Files[m] : <<m, f>> \in disk

\* Access times order the directories as their models were used, those that
\* resumed a download or could not be touched apart.
RecencyOK ==
  \A u, v \in marked \ resumed :
    v \notin untouched => (<<v, u>> \in older => <<v, u>> \in used)

IInv ==
  /\ ShapeOK /\ VictimOK /\ DownloadOK /\ NewestOK /\ FilledOK /\ MarkersOK /\ RecencyOK

-----------------------------------------------------------------------------
\* A directory is complete when each of its files is on disk.
LEMMA CompleteIsPointwise ==
  ASSUME NEW m PROVE Complete(m) <=> \A f \in Files[m] : <<m, f>> \in disk
  BY DEF Complete, FilesOf

\* The initial cache satisfies the invariant.
LEMMA CacheInitInv == Init => IInv
  BY DEF Init, IInv, ShapeOK, VictimOK, DownloadOK, NewestOK, FilledOK, MarkersOK, RecencyOK,
     Calling

\* Every step preserves the invariant.
LEMMA CacheStepInv == IInv /\ [Next]_vars => IInv'
  <1> SUFFICES ASSUME IInv, [Next]_vars PROVE IInv'
    OBVIOUS
  <1> USE DEF IInv, ShapeOK, VictimOK, DownloadOK, NewestOK, FilledOK, MarkersOK, RecencyOK,
              Calling, diskVars, callVars, history, vars
  <1>1. ASSUME NEW m \in Model, Stage(m) PROVE IInv'
    BY <1>1 DEF Stage
  <1>2. ASSUME NEW m \in Model, Hit(m) PROVE IInv'
    BY <1>2, CacheAssumption DEF Hit, Latest
  <1>3. ASSUME NEW m \in Model, StartPopulate(m) PROVE IInv'
    BY <1>3, CacheAssumption DEF StartPopulate, Latest
  <1>4. ASSUME NEW m \in Model, NEW reach \in BOOLEAN, Miss(m, reach) PROVE IInv'
    BY <1>4, CacheAssumption DEF Miss
  <1>5. ASSUME NEW f \in File, OpenTemp(f) PROVE IInv'
    BY <1>5 DEF OpenTemp
  <1>6. CASE Replace
    BY <1>6 DEF Replace
  <1>7. CASE MarkReady
    BY <1>7, CacheAssumption DEF MarkReady, Latest
  <1>8. CASE Measure
    BY <1>8 DEF Measure
  <1>9. ASSUME NEW v \in Model, Pick(v) PROVE IInv'
    BY <1>9, CacheAssumption DEF Pick, Oldest
  <1>10. CASE Unlink
    BY <1>10, CacheAssumption DEF Unlink
  <1>11. CASE RemoveDir
    BY <1>11, CacheAssumption DEF RemoveDir, Without
  <1>12. CASE GiveUp
    BY <1>12, CacheAssumption DEF GiveUp
  <1>13. CASE Return
    BY <1>13 DEF Return, Latest
  <1>14. CASE Fail
    BY <1>14 DEF Fail
  <1>15. CASE Exit
    BY <1>15 DEF Exit
  <1>16. CASE Kill
    BY <1>16 DEF Kill
  <1>17. CASE UNCHANGED vars
    BY <1>17
  <1> QED
    BY <1>1, <1>2, <1>3, <1>4, <1>5, <1>6, <1>7, <1>8, <1>9, <1>10, <1>11, <1>12, <1>13, <1>14,
       <1>15, <1>16, <1>17 DEF Next, Work
-----------------------------------------------------------------------------
(* The refinement.                                                         *)

Present == {m \in marked : Complete(m)}
Lapsed == torn \cup resumed
Serving == IF pc = "serve" THEN want ELSE None

\* Every step of the cache is a step of its contract, or none.
LEMMA CacheStepRefines ==
  IInv /\ IInv' /\ [Next]_vars => [Contract!CNext]_(Contract!cvars)
  <1> SUFFICES ASSUME IInv, IInv', [Next]_vars
               PROVE  Contract!CNext \/ UNCHANGED <<Present, Lapsed, Serving>>
    BY DEF Contract!cvars, Present, Lapsed, Serving
  <1> USE DEF Present, Lapsed, Serving, diskVars, callVars, history, vars
  <1>1. ASSUME NEW m \in Model, Stage(m) PROVE UNCHANGED <<Present, Lapsed, Serving>>
    BY <1>1 DEF Stage, Complete, FilesOf
  <1>2. ASSUME NEW m \in Model, Hit(m) PROVE Contract!Serve(m)
    <2>1. Present' = Present
      BY <1>2 DEF Hit, Complete, FilesOf
    <2>2. m \in Present \cup Lapsed /\ (m \notin torn => m \in Present)
      BY <1>2, CacheAssumption, CompleteIsPointwise DEF Hit, IInv, VictimOK, MarkersOK
    <2>3. Lapsed' \in {Lapsed, IF m \in Present THEN Lapsed \ {m} ELSE Lapsed}
      BY <1>2, <2>2 DEF Hit
    <2> QED
      BY <1>2, <2>1, <2>2, <2>3 DEF Hit, Contract!Serve
  <1>3. ASSUME NEW m \in Model, StartPopulate(m) PROVE Contract!Lapse(m) \/ Contract!Mend(m)
    <2>1. Present' = Present /\ Serving = None /\ Serving' = None
      BY <1>3 DEF StartPopulate, Complete, FilesOf
    <2>2. CASE m \in dirs
      BY <1>3, <2>1, <2>2 DEF StartPopulate, Contract!Lapse
    <2>3. CASE m \notin dirs
      BY <1>3, <2>1, <2>3 DEF StartPopulate, IInv, ShapeOK, Contract!Mend
    <2> QED
      BY <2>2, <2>3
  <1>4. ASSUME NEW m \in Model, NEW reach \in BOOLEAN, Miss(m, reach)
        PROVE  UNCHANGED <<Present, Lapsed, Serving>>
    BY <1>4 DEF Miss, Complete, FilesOf
  <1>5. ASSUME NEW f \in File, OpenTemp(f) PROVE UNCHANGED <<Present, Lapsed, Serving>>
    BY <1>5 DEF OpenTemp, Complete, FilesOf
  <1>6. CASE Replace
    <2>1. \A m \in marked : Complete(m)' <=> Complete(m)
      BY <1>6 DEF Replace, Complete, FilesOf, IInv, DownloadOK
    <2> QED
      BY <1>6, <2>1 DEF Replace
  <1>7. CASE MarkReady
    <2>1. Complete(want) /\ want \notin marked /\ want \in Model
      BY <1>7, CompleteIsPointwise DEF MarkReady, IInv, DownloadOK, ShapeOK
    <2>2. Present' = Present \cup {want}
      BY <1>7, <2>1 DEF MarkReady, Complete, FilesOf
    <2>3. Lapsed' \in {Lapsed, Lapsed \ {want}}
      BY <1>7 DEF MarkReady
    <2>4. Contract!Fill(want)
      BY <1>7, <2>1, <2>2, <2>3 DEF MarkReady, Contract!Fill
    <2> QED
      BY <2>1, <2>4 DEF Contract!CNext
  <1>8. CASE Measure
    BY <1>8 DEF Measure, Complete, FilesOf
  <1>9. ASSUME NEW v \in Model, Pick(v) PROVE UNCHANGED <<Present, Lapsed, Serving>>
    BY <1>9 DEF Pick, Complete, FilesOf
  <1>10. CASE Unlink
    <2>1. UNCHANGED <<Lapsed, Serving>> /\ Serving = None /\ victim \in Model
      BY <1>10 DEF Unlink, IInv, VictimOK, ShapeOK
    <2>2. \A m \in Model \ {victim} : Complete(m)' <=> Complete(m)
      BY <1>10 DEF Unlink, Complete, FilesOf
    <2>3. Complete(victim)' => Complete(victim)
      BY <1>10 DEF Unlink, Complete, FilesOf
    <2>4. Present' = Present \/ (victim \in Present /\ Present' = Present \ {victim})
      BY <1>10, <2>2, <2>3 DEF Unlink, IInv, ShapeOK
    <2> QED
      BY <2>1, <2>4 DEF Contract!CNext, Contract!Drop
  <1>11. CASE RemoveDir
    <2>1. Present' = Present /\ Serving = None /\ Serving' = None /\ victim \in Model
      BY <1>11 DEF RemoveDir, Complete, FilesOf, IInv, VictimOK, ShapeOK
    <2>2. Lapsed' = Lapsed \/ Lapsed' = Lapsed \ {victim}
      BY <1>11 DEF RemoveDir
    <2> QED
      BY <2>1, <2>2 DEF Contract!CNext, Contract!Mend
  <1>12. CASE GiveUp
    <2>1. Present' = Present /\ Serving = None /\ Serving' = None /\ victim \in Model
      BY <1>12 DEF GiveUp, Complete, FilesOf, IInv, VictimOK, ShapeOK
    <2> QED
      BY <1>12, <2>1 DEF GiveUp, Contract!CNext, Contract!Lapse
  <1>13. CASE Return
    <2>1. Present' = Present /\ Lapsed' = Lapsed /\ Serving = None /\ Serving' = want
      BY <1>13 DEF Return, Complete, FilesOf
    <2>2. want \in Model /\ want \in Present \cup Lapsed
      BY <1>13, CompleteIsPointwise DEF Return, IInv, ShapeOK, FilledOK
    <2> QED
      BY <2>1, <2>2 DEF Contract!CNext, Contract!Serve
  <1>14. CASE Fail
    BY <1>14 DEF Fail, Complete, FilesOf
  <1>15. CASE Exit
    <2>1. Present' = Present /\ Lapsed' = Lapsed /\ Serving' = None
      BY <1>15 DEF Exit, Complete, FilesOf
    <2> QED
      BY <2>1 DEF Contract!CNext, Contract!Release
  <1>16. CASE Kill
    <2>1. Present' = Present /\ Serving' = None
      BY <1>16 DEF Kill, Complete, FilesOf
    <2>2. CASE pc = "remove"
      BY <1>16, <2>1, <2>2 DEF Kill, Contract!CNext, Contract!Lapse, IInv, VictimOK, ShapeOK
    <2>3. CASE pc # "remove"
      BY <1>16, <2>1, <2>3 DEF Kill, Contract!CNext, Contract!Release
    <2> QED
      BY <2>2, <2>3
  <1>17. CASE UNCHANGED vars
    BY <1>17 DEF Complete, FilesOf
  <1> QED
    BY <1>1, <1>2, <1>3, <1>4, <1>5, <1>6, <1>7, <1>8, <1>9, <1>10, <1>11, <1>12, <1>13, <1>14,
       <1>15, <1>16, <1>17 DEF Next, Work, Contract!CNext

\* The invariant holds throughout.
LEMMA CacheInv == Spec => []IInv
  BY CacheInitInv, CacheStepInv, PTL DEF Spec

\* A marker vouches for every file of its model, through kills, failed
\* downloads and resumed ones, except in a directory whose removal has begun.
THEOREM MarkersVouch == Spec => []MarkerMeansComplete
  <1>1. IInv => MarkerMeansComplete
    BY CompleteIsPointwise DEF IInv, MarkersOK, MarkerMeansComplete
  <1> QED
    BY <1>1, CacheInv, PTL

\* The cache keeps its contract: what it hands out is complete and stays so
\* while it is used, except for what has lapsed.
THEOREM CacheKeepsContract == Spec => KeepsContract
  <1>1. Init => Contract!CInit
    BY DEF Init, Contract!CInit
  <1> QED
    BY <1>1, CacheInv, CacheStepRefines, PTL DEF Spec, KeepsContract, Contract!CSpec

\* The quota pass takes directories in the order their models were last used,
\* and never the one it was called for, leftovers of downloads apart.
THEOREM EvictsByUse == Spec => EvictsLeastRecent
  <1>1. ASSUME IInv, NEW v \in Model, Pick(v), v \notin resumed \cup untouched, v \in marked
        PROVE  /\ v # want
               /\ \A u \in (queue \cap marked) \ (resumed \cup {v}) : <<v, u>> \in used
    <2>1. v \in queue /\ pc = "evict" /\ \A u \in queue \ {v} : <<v, u>> \in older
      BY <1>1 DEF Pick, Oldest
    <2>2. PICK u \in Model : u \in queue \ {v}
      BY <1>1, <2>1 DEF Pick, IInv, ShapeOK
    <2>3. v # want
      BY <1>1, <2>1, <2>2 DEF IInv, NewestOK, Calling
    <2> QED
      BY <1>1, <2>1, <2>3 DEF IInv, RecencyOK
  <1>2. IInv /\ [Next]_vars =>
          [\A v \in Model :
             Pick(v) /\ v \notin resumed \cup untouched /\ v \in marked
               => v # want /\ \A u \in (queue \cap marked) \ (resumed \cup {v}) : <<v, u>> \in used]_vars
    BY <1>1
  <1> QED
    BY <1>2, CacheInv, PTL DEF Spec, EvictsLeastRecent
-----------------------------------------------------------------------------
(* The type and the quota.  The pass measures the tree once and then only  *)
(* subtracts: its total stays what the directories it has not passed weigh *)
(* because nothing but the victim loses a file meanwhile, and an emptied   *)
(* directory weighs nothing.                                               *)

\* What lies in the tree lies in a directory.
FilesHaveDirs == \A p \in disk \cup temp : p[1] \in dirs

\* While the pass runs its total is the weight of what it has not passed, and
\* it has passed only what it removed or failed to.
CountOK ==
  IF pc \in {"evict", "remove"}
    THEN /\ total = Weight(queue) /\ queue \cap missed = {}
         /\ dirs \subseteq queue \cup missed \cup {victim}
    ELSE total = 0 /\ missed = {}

WritingOK == pc = "write" => file \in todo

QuotaInv == IInv /\ CTypeOK /\ FilesHaveDirs /\ CountOK /\ WritingOK

\* Any part of the tree is finite.
LEMMA PartsAreFinite ==
  ASSUME disk \subseteq Model \X File, temp \subseteq Model \X File
  PROVE  /\ \A S \in SUBSET disk : IsFiniteSet(S) /\ Cardinality(S) \in Nat
         /\ \A S \in SUBSET temp : IsFiniteSet(S) /\ Cardinality(S) \in Nat
  <1>1. IsFiniteSet(Model \X File)
    BY FS_Product, CacheAssumption
  <1>2. \A S \in SUBSET (Model \X File) : IsFiniteSet(S)
    BY <1>1, FS_Subset
  <1>3. \A S \in SUBSET (Model \X File) : Cardinality(S) \in Nat
    BY <1>2, FS_CardinalityType
  <1> QED
    BY <1>2, <1>3

\* Sizes and weights are numbers, and a directory's size comes off the weight
\* when it is passed.
LEMMA WeightSplits ==
  ASSUME disk \subseteq Model \X File, temp \subseteq Model \X File, NEW among, NEW v \in among
  PROVE  /\ Weight(among) \in Nat /\ Size(v) \in Nat /\ Weight(among \ {v}) \in Nat
         /\ Weight(among) = Weight(among \ {v}) + Size(v)
  <1> DEFINE Of(tree, S) == {p \in tree : p[1] \in S}
             At(tree) == {p \in tree : p[1] = v}
  <1>1. ASSUME NEW tree, \A S \in SUBSET tree : IsFiniteSet(S) /\ Cardinality(S) \in Nat
        PROVE  /\ Cardinality(Of(tree, among)) \in Nat /\ Cardinality(At(tree)) \in Nat
               /\ Cardinality(Of(tree, among \ {v})) \in Nat
               /\ Cardinality(Of(tree, among)) =
                    Cardinality(Of(tree, among \ {v})) + Cardinality(At(tree))
    <2>1. /\ Of(tree, among) \in SUBSET tree /\ At(tree) \in SUBSET tree
          /\ Of(tree, among \ {v}) \in SUBSET tree
      OBVIOUS
    <2>2. Of(tree, among) = Of(tree, among \ {v}) \cup At(tree)
      OBVIOUS
    <2>3. Of(tree, among \ {v}) \cap At(tree) = {}
      OBVIOUS
    <2>4. Cardinality(Of(tree, among \ {v}) \cup At(tree)) =
            Cardinality(Of(tree, among \ {v})) + Cardinality(At(tree)) - Cardinality({})
      BY <1>1, <2>1, <2>3, FS_Union
    <2>5. /\ Cardinality(Of(tree, among)) \in Nat /\ Cardinality(At(tree)) \in Nat
          /\ Cardinality(Of(tree, among \ {v})) \in Nat
      BY <1>1, <2>1
    <2> HIDE DEF Of, At
    <2>6. Cardinality(Of(tree, among)) =
            Cardinality(Of(tree, among \ {v})) + Cardinality(At(tree)) - 0
      BY <2>2, <2>4, FS_EmptySet
    <2> QED
      BY <2>5, <2>6
  <1>2. /\ \A S \in SUBSET disk : IsFiniteSet(S) /\ Cardinality(S) \in Nat
        /\ \A S \in SUBSET temp : IsFiniteSet(S) /\ Cardinality(S) \in Nat
    BY PartsAreFinite
  <1>3. /\ Cardinality(Of(disk, among)) \in Nat /\ Cardinality(At(disk)) \in Nat
        /\ Cardinality(Of(disk, among \ {v})) \in Nat
        /\ Cardinality(Of(disk, among)) =
             Cardinality(Of(disk, among \ {v})) + Cardinality(At(disk))
    BY <1>1, <1>2
  <1>4. /\ Cardinality(Of(temp, among)) \in Nat /\ Cardinality(At(temp)) \in Nat
        /\ Cardinality(Of(temp, among \ {v})) \in Nat
        /\ Cardinality(Of(temp, among)) =
             Cardinality(Of(temp, among \ {v})) + Cardinality(At(temp))
    BY <1>1, <1>2
  <1>5. /\ Weight(among) = Cardinality(Of(disk, among)) + Cardinality(Of(temp, among))
        /\ Weight(among \ {v}) =
             Cardinality(Of(disk, among \ {v})) + Cardinality(Of(temp, among \ {v}))
        /\ Size(v) = Cardinality(At(disk)) + Cardinality(At(temp))
    BY DEF Weight, Size
  <1> HIDE DEF Of, At
  <1> QED
    BY <1>3, <1>4, <1>5

\* A directory of size nothing holds nothing.
LEMMA EmptySizeMeansEmpty ==
  ASSUME disk \subseteq Model \X File, temp \subseteq Model \X File, NEW v, Size(v) = 0
  PROVE  \A p \in disk \cup temp : p[1] # v
  <1> DEFINE D == {p \in disk : p[1] = v}
             T == {p \in temp : p[1] = v}
  <1>1. D \in SUBSET disk /\ T \in SUBSET temp
    OBVIOUS
  <1>2. Size(v) = Cardinality(D) + Cardinality(T)
    BY DEF Size
  <1>3. IsFiniteSet(D) /\ Cardinality(D) \in Nat /\ IsFiniteSet(T) /\ Cardinality(T) \in Nat
    BY <1>1, PartsAreFinite
  <1> HIDE DEF D, T
  <1>4. Cardinality(D) = 0 /\ Cardinality(T) = 0
    BY <1>2, <1>3
  <1>5. D = {} /\ T = {}
    BY <1>3, <1>4, FS_EmptySet
  <1> QED
    BY <1>5 DEF D, T

\* When everything lies in the directories, they weigh what the tree does.
LEMMA WeightOfAll ==
  ASSUME FilesHaveDirs PROVE Weight(dirs) = TotalSize
  <1>1. {p \in disk : p[1] \in dirs} = disk /\ {p \in temp : p[1] \in dirs} = temp
    BY DEF FilesHaveDirs
  <1> QED
    BY <1>1 DEF Weight, TotalSize

\* Every step preserves the type and the count.
LEMMA QuotaStepInv == QuotaInv /\ [Next]_vars => QuotaInv'
  <1> SUFFICES ASSUME QuotaInv, [Next]_vars PROVE CTypeOK' /\ FilesHaveDirs' /\ CountOK' /\ WritingOK'
    BY CacheStepInv DEF QuotaInv
  <1> USE DEF QuotaInv, CTypeOK, FilesHaveDirs, CountOK, WritingOK, diskVars, callVars, history, vars
  <1>0. Files \in [Model -> SUBSET File] /\ MaxFaults \in Nat
    BY CacheAssumption
  <1> DEFINE Goal == CTypeOK' /\ FilesHaveDirs' /\ CountOK' /\ WritingOK'
  <1>2. ASSUME NEW m \in Model, Stage(m) PROVE Goal
    BY <1>2 DEF Stage, Weight
  <1>3. ASSUME NEW m \in Model, Hit(m) PROVE Goal
    <2>1. older' \subseteq Model \X Model /\ used' \subseteq Model \X Model
      BY <1>3 DEF Hit, Latest
    <2>2. faults' \in 0 .. MaxFaults
      BY <1>0, <1>3 DEF Hit
    <2> QED
      BY <1>3, <2>1, <2>2 DEF Hit
  <1>4. ASSUME NEW m \in Model, StartPopulate(m) PROVE Goal
    BY <1>0, <1>4 DEF StartPopulate, Latest
  <1>5. ASSUME NEW m \in Model, NEW reach \in BOOLEAN, Miss(m, reach) PROVE Goal
    BY <1>5 DEF Miss
  <1>6. ASSUME NEW f \in File, OpenTemp(f) PROVE Goal
    BY <1>6 DEF OpenTemp, IInv, ShapeOK, DownloadOK
  <1>7. CASE Replace
    BY <1>7 DEF Replace, IInv, ShapeOK, DownloadOK
  <1>8. CASE MarkReady
    BY <1>8 DEF MarkReady, Latest, IInv, ShapeOK
  <1>9. CASE Measure
    <2>1. TotalSize \in Nat
      BY PartsAreFinite DEF TotalSize
    <2>2. Weight(dirs)' = Weight(dirs) /\ Weight(dirs) = TotalSize
      BY <1>9, WeightOfAll DEF Measure, Weight
    <2>3. Weight(queue)' = Weight(dirs)'
      BY <1>9 DEF Measure, Weight
    <2> QED
      BY <1>9, <2>1, <2>2, <2>3 DEF Measure
  <1>10. ASSUME NEW v \in Model, Pick(v) PROVE Goal
    <2>1. v \in queue /\ total = Weight(queue) /\ total' = total - Size(v) /\ queue' = queue \ {v}
      BY <1>10 DEF Pick, Oldest
    <2>2. /\ Weight(queue) \in Nat /\ Size(v) \in Nat /\ Weight(queue \ {v}) \in Nat
          /\ Weight(queue) = Weight(queue \ {v}) + Size(v)
      BY <2>1, WeightSplits
    <2>3. total' = Weight(queue)' /\ total' \in Nat
      BY <1>10, <2>1, <2>2 DEF Pick, Weight
    <2>4. dirs' \subseteq queue' \cup missed' \cup {victim'} /\ queue' \cap missed' = {}
      BY <1>10, CacheAssumption DEF Pick, IInv, VictimOK
    <2>5. pc' = "remove" /\ CountOK'
      BY <1>10, <2>3, <2>4 DEF Pick
    <2> QED
      BY <1>10, <2>1, <2>3, <2>5 DEF Pick
  <1>11. CASE Unlink
    <2>1. pc = "remove" /\ victim \notin queue /\ UNCHANGED <<pc, queue, total, dirs, missed, victim>>
      BY <1>11 DEF Unlink, IInv, VictimOK
    <2>2. /\ {p \in disk' : p[1] \in queue} = {p \in disk : p[1] \in queue}
          /\ {p \in temp' : p[1] \in queue} = {p \in temp : p[1] \in queue}
      BY <1>11, <2>1 DEF Unlink
    <2>3. Weight(queue)' = Weight(queue)
      BY <2>1, <2>2 DEF Weight
    <2> QED
      BY <1>11, <2>1, <2>3 DEF Unlink
  <1>12. CASE RemoveDir
    <2>1. \A p \in disk \cup temp : p[1] # victim
      BY <1>12, EmptySizeMeansEmpty DEF RemoveDir
    <2>2. Weight(queue)' = Weight(queue)
      BY <1>12 DEF RemoveDir, Weight
    <2> QED
      BY <1>12, <2>1, <2>2 DEF RemoveDir, Without
  <1>13. CASE GiveUp
    <2>1. Weight(queue)' = Weight(queue)
      BY <1>13 DEF GiveUp, Weight
    <2> QED
      BY <1>0, <1>13, <2>1 DEF GiveUp, IInv, ShapeOK, VictimOK
  <1>14. CASE Return
    BY <1>14 DEF Return, Latest
  <1>15. CASE Fail
    BY <1>0, <1>15 DEF Fail
  <1>16. CASE Exit
    BY <1>16 DEF Exit
  <1>17. CASE Kill
    BY <1>0, <1>17 DEF Kill, IInv, ShapeOK, VictimOK
  <1>18. CASE UNCHANGED vars
    BY <1>18 DEF Weight
  <1> QED
    BY <1>2, <1>3, <1>4, <1>5, <1>6, <1>7, <1>8, <1>9, <1>10, <1>11, <1>12, <1>13, <1>14, <1>15,
       <1>16, <1>17, <1>18 DEF Next, Work

\* The count is right throughout.
LEMMA CacheCounts == Spec => []QuotaInv
  <1>1. Init => QuotaInv
    BY CacheInitInv, CacheAssumption
    DEF Init, QuotaInv, CTypeOK, FilesHaveDirs, CountOK, WritingOK
  <1> QED
    BY <1>1, QuotaStepInv, PTL DEF Spec

\* The cache and the call that works on it stay within their types.
THEOREM CacheTypeCorrect == Spec => []CTypeOK
  <1>1. QuotaInv => CTypeOK
    BY DEF QuotaInv
  <1> QED
    BY <1>1, CacheCounts, PTL

\* A quota pass that ends leaves what it did not fail to remove itself under
\* the quota, or in one directory, whatever was killed, resumed or removed by
\* half before it.
THEOREM QuotaIsKept == Spec => QuotaKept
  <1>1. ASSUME QuotaInv, Return
        PROVE  Weight(dirs \ missed) <= Quota \/ Cardinality(dirs \ missed) <= 1
    <2>1. pc = "evict" /\ (total <= Quota \/ Cardinality(queue) <= 1)
      BY <1>1 DEF Return
    <2>2. dirs \subseteq Model /\ None \notin Model /\ queue \subseteq dirs /\ victim = None
      BY <1>1, <2>1, CacheAssumption DEF QuotaInv, IInv, ShapeOK, VictimOK
    <2>3. /\ total = Weight(queue) /\ queue \cap missed = {}
          /\ dirs \subseteq queue \cup missed \cup {victim}
      BY <1>1, <2>1 DEF QuotaInv, CountOK
    <2>4. dirs \ missed = queue
      BY <2>2, <2>3
    <2> QED
      BY <2>1, <2>3, <2>4
  <1>2. QuotaInv /\ [Next]_vars =>
          [Return => \/ Weight(dirs \ missed) <= Quota
                     \/ Cardinality(dirs \ missed) <= 1]_vars
    BY <1>1
  <1> QED
    BY <1>2, CacheCounts, PTL DEF Spec, QuotaKept
=============================================================================
