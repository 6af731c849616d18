------------------------- MODULE ModelBootstrap_proofs -------------------------
(***************************************************************************)
(* The .ready sentinel tells the truth, for any number of coordinators and *)
(* engines, any layouts and any number of faults.                          *)
(*                                                                         *)
(* The argument: objects go up before the sentinel, and only the repair of *)
(* an mt3 copy deletes.  Where nothing deletes, what was put stays.  Where *)
(* a repair may run, an undisturbed prefix has one stager at a time; its   *)
(* repair leaves nothing behind, the sentinel included, before it starts   *)
(* to put objects again.  An engine that lists a prefix with a sentinel,   *)
(* and with no repair at work, therefore wants every object, and gets it.  *)
(***************************************************************************)
EXTENDS ModelBootstrap, TLAPS

Stage == {"idle", "due", "done", "look", "head", "validate", "list", "delete", "download", "put",
          "verify", "commit", "announce", "ack"}

BShape ==
  /\ kind \in Kind /\ upstream \in {"old", "new"}
  /\ store \in [Key -> Content]
  /\ stage \in [Stager -> Stage]
  /\ copy \in [Stager -> Content]
  /\ at \in [Stager -> Nat \ {0}]
  /\ doomed \in [Stager -> SUBSET Key]

\* Only mt3 sources are validated and repaired.
RepairIsMt3 == \A s \in Stager : stage[s] \in {"validate", "list", "delete"} => kind = "mt3"

\* An undisturbed mt3 prefix has one stager at a time.
OneStager ==
  kind = "mt3" /\ Undisturbed => \A s, t \in Stager : Busy(s) /\ Busy(t) => s = t

\* A stager starts over with the first object, and has something to put.
PutShape ==
  \A s \in Stager : IF stage[s] = "put" THEN copy[s] # "none" ELSE at[s] = 1

\* The objects a stager has put are there.
PutsStay ==
  Undisturbed =>
    \A s \in Stager : stage[s] = "put" =>
      \A i \in DOMAIN Layout[kind] : i < at[s] => store[Layout[kind][i]] # "none"

\* A repair deletes everything it found.
RepairIsTotal ==
  Undisturbed =>
    \A s \in Stager : stage[s] = "delete" => \A k \in Key : store[k] # "none" => k \in doomed[s]

\* Whoever is about to write the sentinel, or to announce it, may.
ReadyToTell ==
  Undisturbed =>
    \A s \in Stager : /\ stage[s] = "commit" => Complete
                      /\ stage[s] = "validate" => Sentinel
                      /\ stage[s] = "announce" => Sentinel /\ Complete

BInv ==
  /\ BShape /\ RepairIsMt3 /\ OneStager /\ PutShape /\ PutsStay /\ RepairIsTotal /\ ReadyToTell
  /\ SentinelMeansComplete

-----------------------------------------------------------------------------
\* The objects of a model are object names, and the sentinel is not one.
LEMMA PartsAreKeys ==
  ASSUME kind \in Kind
  PROVE  /\ Parts \subseteq Key /\ Ready \notin Parts
         /\ \A i \in DOMAIN Layout[kind] : Layout[kind][i] \in Parts
  BY BootstrapAssumption DEF Parts, Key

\* A prefix the coordinator may find satisfies the invariant.
LEMMA BootstrapInitInv == Init => BInv
  <1> SUFFICES ASSUME Init PROVE BInv
    OBVIOUS
  <1>1. kind \in Kind
    BY DEF Init
  <1>2. store \in [Key -> Content] /\ (Sentinel => Complete)
    <2>1. CASE \E n \in 0 .. Len(Layout[kind]) :
                 store = Prefix({Layout[kind][i] : i \in 1 .. n}, "old")
      <3>1. PICK n \in 0 .. Len(Layout[kind]) :
              store = Prefix({Layout[kind][i] : i \in 1 .. n}, "old")
        BY <2>1
      <3>2. Layout[kind] \in Seq(Object)
        BY <1>1, BootstrapAssumption
      <3>3. \A i \in 1 .. n : i \in DOMAIN Layout[kind]
        BY <3>1, <3>2
      <3>4. Ready \notin {Layout[kind][i] : i \in 1 .. n}
        BY <1>1, <3>3, PartsAreKeys
      <3>5. Ready \in Key
        BY DEF Key
      <3> QED
        BY <3>1, <3>4, <3>5 DEF Prefix, Content, Sentinel
    <2>2. CASE store = Prefix(Parts \cup {Ready}, "old")
      BY <1>1, <2>2, PartsAreKeys DEF Prefix, Content, Complete
    <2>3. CASE \E bad \in Parts : store = [Prefix(Parts \cup {Ready}, "old") EXCEPT ![bad] = "short"]
      BY <1>1, <2>3, PartsAreKeys DEF Prefix, Content, Complete
    <2> QED
      BY <2>1, <2>2, <2>3 DEF Init
  <1> QED
    BY <1>1, <1>2 DEF Init, BInv, BShape, Stage, RepairIsMt3, OneStager, PutShape, PutsStay,
       RepairIsTotal, ReadyToTell, SentinelMeansComplete, Content, Busy

-----------------------------------------------------------------------------
\* Layout positions are numbered from 1.
LEMMA Positions ==
  ASSUME kind \in Kind
  PROVE  /\ Len(Layout[kind]) \in Nat
         /\ DOMAIN Layout[kind] = 1 .. Len(Layout[kind])
         /\ kind # "package" => Len(Layout[kind]) > 0
  <1>1. Layout[kind] \in Seq(Object) /\ (kind # "package" => Layout[kind] # <<>>)
    BY BootstrapAssumption
  <1> QED
    BY <1>1

\* A stager that works on without touching the bucket keeps the invariant, as
\* long as it has what its next place asks for.
LEMMA MoveKeeps ==
  ASSUME BInv, NEW s \in Stager, NEW p \in Stage, NEW c \in Content,
         UNCHANGED <<kind, upstream, store, at, doomed>>,
         stage' = [stage EXCEPT ![s] = p], copy' = [copy EXCEPT ![s] = c], mishap \subseteq mishap',
         Busy(s), stage[s] \notin {"put", "delete"}, p # "delete", p = "put" => c # "none",
         p \in {"validate", "list"} => kind = "mt3",
         Undisturbed => /\ p = "commit" => Complete
                        /\ p = "validate" => Sentinel
                        /\ p = "announce" => Sentinel /\ Complete
  PROVE  BInv'
  <1>0. Undisturbed' => Undisturbed
    BY DEF Undisturbed
  <1>a. (Complete' <=> Complete) /\ (Sentinel' <=> Sentinel)
    BY DEF Complete, Sentinel, Parts
  <1>1. BShape'
    BY DEF BInv, BShape
  <1>2. RepairIsMt3'
    BY DEF BInv, BShape, RepairIsMt3
  <1>3. OneStager'
    BY <1>0 DEF BInv, BShape, OneStager, Busy
  <1>4. PutShape'
    BY DEF BInv, BShape, PutShape
  <1>5. PutsStay'
    <2> SUFFICES ASSUME Undisturbed', NEW t \in Stager, stage'[t] = "put",
                        NEW i \in DOMAIN Layout[kind], i < at[t]
                 PROVE  store[Layout[kind][i]] # "none"
      BY DEF PutsStay
    <2>1. t # s
      BY Positions DEF BInv, BShape, PutShape
    <2> QED
      BY <2>1, <1>0 DEF BInv, BShape, PutsStay
  <1>6. RepairIsTotal'
    BY <1>0 DEF BInv, BShape, RepairIsTotal
  <1>7. ReadyToTell'
    BY <1>0, <1>a DEF BInv, BShape, ReadyToTell
  <1>8. SentinelMeansComplete'
    BY <1>0, <1>a DEF BInv, BShape, SentinelMeansComplete, Deleting
  <1> QED
    BY <1>1, <1>2, <1>3, <1>4, <1>5, <1>6, <1>7, <1>8 DEF BInv

\* An attempt that begins is alone, or is counted as overlapping.
LEMMA BeginKeeps ==
  ASSUME BInv, NEW s \in Stager, Begin(s)
  PROVE  BInv'
  <1>0. Undisturbed' => Undisturbed
    BY DEF Undisturbed, Begin
  <1>a. (Complete' <=> Complete) /\ (Sentinel' <=> Sentinel)
    BY DEF Complete, Sentinel, Parts, Begin
  <1>b. /\ stage' = [stage EXCEPT ![s] = "look"] /\ stage[s] \in {"idle", "due"}
        /\ UNCHANGED <<kind, upstream, store, copy, at, doomed>>
    BY DEF Begin, Goto
  <1>1. BShape'
    BY <1>b DEF BInv, BShape, Stage
  <1>2. RepairIsMt3'
    BY <1>b DEF BInv, BShape, RepairIsMt3
  <1>3. OneStager'
    BY <1>0, <1>b DEF BInv, BShape, OneStager, Busy, Begin, Undisturbed
  <1>4. PutShape'
    BY <1>b DEF BInv, BShape, PutShape
  <1>5. PutsStay'
    BY <1>0, <1>b DEF BInv, BShape, PutsStay
  <1>6. RepairIsTotal'
    BY <1>0, <1>b DEF BInv, BShape, RepairIsTotal
  <1>7. ReadyToTell'
    BY <1>0, <1>a, <1>b DEF BInv, BShape, ReadyToTell
  <1>8. SentinelMeansComplete'
    BY <1>0, <1>a, <1>b DEF BInv, BShape, SentinelMeansComplete, Deleting
  <1> QED
    BY <1>1, <1>2, <1>3, <1>4, <1>5, <1>6, <1>7, <1>8 DEF BInv

\* A stager that ends its attempt, or dies, leaves the bucket as it is; a
\* repair that had deletions left is counted as cut.
LEMMA StopKeeps ==
  ASSUME BInv, NEW s \in Stager, NEW p \in {"idle", "due", "done"},
         UNCHANGED <<kind, upstream, store>>,
         stage' = [stage EXCEPT ![s] = p], Cleanup(s),
         doomed' = [doomed EXCEPT ![s] = {}],
         mishap' = IF doomed[s] # {} THEN mishap \cup {"cut"} ELSE mishap
  PROVE  BInv'
  <1>0. Undisturbed' => Undisturbed
    BY DEF Undisturbed
  <1>a. (Complete' <=> Complete) /\ (Sentinel' <=> Sentinel)
    BY DEF Complete, Sentinel, Parts
  <1>b. Ready \in Key
    BY DEF Key
  <1>1. BShape'
    BY DEF BInv, BShape, Stage, Cleanup, Content
  <1>2. RepairIsMt3'
    BY DEF BInv, BShape, RepairIsMt3
  <1>3. OneStager'
    BY <1>0 DEF BInv, BShape, OneStager, Busy
  <1>4. PutShape'
    BY DEF BInv, BShape, PutShape, Cleanup
  <1>5. PutsStay'
    BY <1>0 DEF BInv, BShape, PutsStay, Cleanup
  <1>6. RepairIsTotal'
    BY <1>0 DEF BInv, BShape, RepairIsTotal
  <1>7. ReadyToTell'
    BY <1>0, <1>a DEF BInv, BShape, ReadyToTell
  <1>8. SentinelMeansComplete'
    <2>1. CASE stage[s] = "delete" /\ Undisturbed'
      <3>1. doomed[s] = {}
        BY <2>1 DEF BInv, RepairIsMt3, Undisturbed
      <3>2. ~Sentinel
        BY <1>0, <1>b, <2>1, <3>1 DEF BInv, RepairIsTotal, Sentinel
      <3> QED
        BY <3>2, <1>a DEF SentinelMeansComplete
    <2>2. CASE stage[s] # "delete" /\ Undisturbed'
      BY <1>0, <1>a, <2>2 DEF BInv, BShape, SentinelMeansComplete, Deleting
    <2> QED
      BY <2>1, <2>2 DEF SentinelMeansComplete
  <1> QED
    BY <1>1, <1>2, <1>3, <1>4, <1>5, <1>6, <1>7, <1>8 DEF BInv

\* A repair deletes all it listed, or is counted as cut.
LEMMA DeleteKeeps ==
  ASSUME BInv, NEW s \in Stager, Delete(s)
  PROVE  BInv'
  <1>0. Undisturbed' => Undisturbed
    BY DEF Undisturbed, Delete
  <1>a. kind = "mt3" /\ kind' = kind
    BY DEF Delete, BInv, RepairIsMt3
  <1>b. ASSUME Undisturbed, NEW t \in Stager \ {s} PROVE ~Busy(t)
    BY <1>a, <1>b DEF Delete, Busy, BInv, OneStager
  <1>c. Ready \in Key
    BY DEF Key
  <1>1. CASE doomed[s] = {}
    <2>a. /\ UNCHANGED <<kind, upstream, store, copy, at, doomed, mishap>>
          /\ stage[s] = "delete" /\ stage' = [stage EXCEPT ![s] = "download"]
      BY <1>1 DEF Delete, Goto
    <2>b. (Complete' <=> Complete) /\ (Sentinel' <=> Sentinel) /\ (Undisturbed' <=> Undisturbed)
      BY <2>a DEF Complete, Sentinel, Parts, Undisturbed
    <2>1. BShape'
      BY <2>a DEF BInv, BShape, Stage
    <2>2. RepairIsMt3'
      BY <1>a DEF RepairIsMt3
    <2>3. OneStager'
      BY <2>a, <2>b DEF BInv, BShape, OneStager, Busy
    <2>4. PutShape'
      BY <2>a DEF BInv, BShape, PutShape
    <2>5. PutsStay'
      BY <2>a, <2>b DEF BInv, BShape, PutsStay
    <2>6. RepairIsTotal'
      BY <2>a, <2>b DEF BInv, BShape, RepairIsTotal
    <2>7. ReadyToTell'
      BY <2>a, <2>b DEF BInv, BShape, ReadyToTell
    <2>8. SentinelMeansComplete'
      BY <1>1, <1>c, <2>a, <2>b DEF BInv, RepairIsTotal, SentinelMeansComplete, Sentinel
    <2> QED
      BY <2>1, <2>2, <2>3, <2>4, <2>5, <2>6, <2>7, <2>8 DEF BInv
  <1>2. CASE doomed[s] # {}
    <2>1. PICK k \in doomed[s] :
            /\ doomed' = [doomed EXCEPT ![s] = @ \ {k}]
            /\ \/ store' = [store EXCEPT ![k] = "none"] /\ UNCHANGED mishap
               \/ UNCHANGED store /\ mishap' = mishap \cup {"cut"}
      BY <1>2 DEF Delete
    <2>a. stage[s] = "delete" /\ UNCHANGED <<kind, upstream, stage, copy, at>>
      BY <1>2 DEF Delete
    <2>b. k \in Key
      BY DEF BInv, BShape
    <2>c. Undisturbed' => store' = [store EXCEPT ![k] = "none"]
      BY <1>a, <2>1 DEF Undisturbed
    <2>2. BShape'
      BY <2>1, <2>a DEF BInv, BShape, Content
    <2>3. RepairIsMt3' /\ PutShape'
      BY <2>a DEF BInv, RepairIsMt3, PutShape
    <2>4. OneStager'
      BY <1>0, <2>a DEF BInv, OneStager, Busy
    <2>5. PutsStay' /\ ReadyToTell'
      BY <1>0, <1>b, <2>a DEF PutsStay, ReadyToTell, Busy
    <2>6. RepairIsTotal'
      <3> SUFFICES ASSUME Undisturbed', NEW t \in Stager, stage[t] = "delete",
                          NEW j \in Key, store'[j] # "none"
                   PROVE  j \in doomed'[t]
        BY <2>a DEF RepairIsTotal
      <3>1. t = s
        BY <1>0, <1>b DEF Busy
      <3>2. j # k /\ store[j] # "none"
        BY <2>b, <2>c DEF BInv, BShape
      <3>3. j \in doomed[s]
        BY <1>0, <2>a, <3>2 DEF BInv, RepairIsTotal
      <3> QED
        BY <2>1, <3>1, <3>2, <3>3 DEF BInv, BShape
    <2>7. SentinelMeansComplete'
      BY <2>a DEF SentinelMeansComplete, Deleting
    <2> QED
      BY <2>2, <2>3, <2>4, <2>5, <2>6, <2>7 DEF BInv
  <1> QED
    BY <1>1, <1>2

\* A repair that has listed the prefix knows every key of it.
LEMMA ListDoomedKeeps ==
  ASSUME BInv, NEW s \in Stager, ListDoomed(s)
  PROVE  BInv'
  BY DEF ListDoomed, Goto, BInv, BShape, Stage, RepairIsMt3, OneStager, PutShape, PutsStay,
     RepairIsTotal, ReadyToTell, SentinelMeansComplete, Undisturbed, Deleting, Busy, Sentinel,
     Complete, Parts

\* Adding to the prefix takes nothing away, from a stager or from a copy that
\* was complete.
LEMMA AddingKeeps ==
  ASSUME BInv, NEW s \in Stager, NEW k \in Key, NEW c \in Content \ {"none"},
         stage[s] \in {"put", "commit"}, store' = [store EXCEPT ![k] = c],
         UNCHANGED <<kind, upstream, doomed>>, mishap \subseteq mishap'
  PROVE  /\ store' \in [Key -> Content]
         /\ \A o \in Key : store[o] # "none" => store'[o] # "none"
         /\ Complete => Complete'
         /\ Undisturbed' => Undisturbed
         /\ Undisturbed => \A t \in Stager : stage[t] # "delete"
  <1>1. store' \in [Key -> Content]
    BY DEF BInv, BShape
  <1>2. \A o \in Key : store[o] # "none" => store'[o] # "none"
    BY DEF BInv, BShape
  <1>3. Complete => Complete'
    BY <1>2, PartsAreKeys DEF Complete, Parts, BInv, BShape
  <1>4. Undisturbed' => Undisturbed
    BY DEF Undisturbed
  <1>5. Undisturbed => \A t \in Stager : stage[t] # "delete"
    BY DEF BInv, RepairIsMt3, OneStager, Busy
  <1> QED
    BY <1>1, <1>2, <1>3, <1>4, <1>5

\* One object is put; after the last one the model is complete.
LEMMA PutKeeps ==
  ASSUME BInv, NEW s \in Stager, Put(s)
  PROVE  BInv'
  <1> DEFINE key == Layout[kind][at[s]]
  <1>a. /\ stage[s] = "put" /\ UNCHANGED <<kind, upstream, doomed>> /\ mishap \subseteq mishap'
        /\ at[s] \in DOMAIN Layout[kind]
    BY Positions DEF Put, BInv, BShape
  <1>b. key \in Key /\ key # Ready
    BY <1>a, PartsAreKeys DEF BInv, BShape
  <1>1. PICK c \in Content \ {"none"} : store' = [store EXCEPT ![key] = c]
    BY <1>a DEF Put, BInv, BShape, PutShape, Content
  <1>2. /\ store' \in [Key -> Content]
        /\ \A o \in Key : store[o] # "none" => store'[o] # "none"
        /\ Complete => Complete'
        /\ Undisturbed' => Undisturbed
        /\ Undisturbed => \A t \in Stager : stage[t] # "delete"
    BY <1>a, <1>b, <1>1, AddingKeeps
  <1>3. store'[key] # "none" /\ (Sentinel' <=> Sentinel)
    BY <1>b, <1>1 DEF BInv, BShape, Sentinel, Key
  <1>c. \A i \in DOMAIN Layout[kind] : Layout[kind][i] \in Key
    BY PartsAreKeys DEF BInv, BShape
  <1>4. ASSUME Undisturbed, NEW i \in DOMAIN Layout[kind], i < at[s] \/ i = at[s]
        PROVE  store'[Layout[kind][i]] # "none"
    BY <1>a, <1>c, <1>2, <1>3, <1>4 DEF BInv, PutsStay
  <1>5. CASE at[s] < Len(Layout[kind])
    <2>a. UNCHANGED <<stage, copy>> /\ at' = [at EXCEPT ![s] = @ + 1]
      BY <1>5 DEF Put
    <2>1. BShape'
      BY <1>a, <1>2, <2>a DEF BInv, BShape
    <2>2. RepairIsMt3' /\ PutShape'
      BY <1>a, <2>a DEF BInv, BShape, RepairIsMt3, PutShape
    <2>3. OneStager'
      BY <1>a, <1>2, <2>a DEF BInv, OneStager, Busy
    <2>4. PutsStay'
      <3> SUFFICES ASSUME Undisturbed', NEW t \in Stager, stage[t] = "put",
                          NEW i \in DOMAIN Layout[kind], i < at'[t]
                   PROVE  store'[Layout[kind][i]] # "none"
        BY <1>a, <2>a DEF PutsStay
      <3>1. CASE t = s
        BY <1>2, <1>4, <2>a, <3>1, Positions DEF BInv, BShape
      <3>2. CASE t # s
        BY <1>2, <1>c, <2>a, <3>2 DEF BInv, BShape, PutsStay
      <3> QED
        BY <3>1, <3>2
    <2>5. RepairIsTotal' /\ ReadyToTell' /\ SentinelMeansComplete'
      BY <1>2, <1>3, <2>a DEF BInv, RepairIsTotal, ReadyToTell, SentinelMeansComplete, Deleting
    <2> QED
      BY <2>1, <2>2, <2>3, <2>4, <2>5 DEF BInv
  <1>6. CASE ~(at[s] < Len(Layout[kind]))
    <2>a. PICK p \in {"verify", "commit"} : stage' = [stage EXCEPT ![s] = p]
      BY <1>6 DEF Put, Goto
    <2>b. copy' = [copy EXCEPT ![s] = "none"] /\ at' = [at EXCEPT ![s] = 1]
      BY <1>6 DEF Put, Cleanup
    <2>c. Undisturbed => Complete'
      <3> SUFFICES ASSUME Undisturbed, NEW o \in Parts PROVE store'[o] # "none"
        BY <1>a DEF Complete, Parts
      <3>1. PICK i \in DOMAIN Layout[kind] : o = Layout[kind][i]
        BY DEF Parts
      <3>2. i < at[s] \/ i = at[s]
        BY <1>6, <1>a, Positions DEF BInv, BShape
      <3> QED
        BY <1>4, <3>1, <3>2
    <2>1. BShape'
      BY <1>a, <1>2, <2>a, <2>b DEF BInv, BShape, Stage, Content
    <2>2. RepairIsMt3' /\ PutShape'
      BY <1>a, <2>a, <2>b DEF BInv, BShape, RepairIsMt3, PutShape
    <2>3. OneStager'
      BY <1>a, <1>2, <2>a DEF BInv, BShape, OneStager, Busy
    <2>4. PutsStay'
      BY <1>a, <1>2, <1>c, <2>a, <2>b DEF BInv, BShape, PutsStay
    <2>5. RepairIsTotal'
      BY <1>2, <2>a DEF BInv, BShape, RepairIsTotal
    <2>6. ReadyToTell'
      BY <1>2, <1>3, <2>a, <2>c DEF BInv, BShape, ReadyToTell
    <2>7. SentinelMeansComplete'
      BY <1>2, <2>c DEF SentinelMeansComplete
    <2> QED
      BY <2>1, <2>2, <2>3, <2>4, <2>5, <2>6, <2>7 DEF BInv
  <1> QED
    BY <1>5, <1>6

\* The sentinel goes up over a complete model.
LEMMA CommitKeeps ==
  ASSUME BInv, NEW s \in Stager, stage[s] = "commit",
         store' = [store EXCEPT ![Ready] = "old"], stage' = [stage EXCEPT ![s] = "announce"],
         UNCHANGED <<kind, upstream, copy, at, doomed, mishap>>
  PROVE  BInv'
  <1>a. Ready \in Key
    BY DEF Key
  <1>2. /\ store' \in [Key -> Content]
        /\ \A o \in Key : store[o] # "none" => store'[o] # "none"
        /\ Complete => Complete'
        /\ Undisturbed' => Undisturbed
        /\ Undisturbed => \A t \in Stager : stage[t] # "delete"
    BY <1>a, AddingKeeps DEF Content
  <1>3. Sentinel'
    BY <1>a DEF Sentinel, BInv, BShape
  <1>4. Undisturbed => Complete'
    BY <1>2 DEF BInv, ReadyToTell
  <1>c. \A i \in DOMAIN Layout[kind] : Layout[kind][i] \in Key
    BY PartsAreKeys DEF BInv, BShape
  <1>5. BShape'
    BY <1>2 DEF BInv, BShape, Stage
  <1>6. RepairIsMt3' /\ PutShape'
    BY DEF BInv, BShape, RepairIsMt3, PutShape
  <1>7. OneStager'
    BY <1>2 DEF BInv, BShape, OneStager, Busy
  <1>8. PutsStay'
    BY <1>2, <1>c DEF BInv, BShape, PutsStay
  <1>9. RepairIsTotal'
    BY <1>2 DEF BInv, BShape, RepairIsTotal
  <1>10. ReadyToTell'
    BY <1>2, <1>3, <1>4 DEF BInv, BShape, ReadyToTell
  <1>11. SentinelMeansComplete'
    BY <1>2, <1>4 DEF SentinelMeansComplete
  <1> QED
    BY <1>5, <1>6, <1>7, <1>8, <1>9, <1>10, <1>11 DEF BInv

\* What leaves the stagers and the bucket alone keeps the invariant.
LEMMA QuietKeeps ==
  ASSUME BInv, UNCHANGED <<kind, store, stagerVars>>, upstream' \in {"old", "new"},
         mishap \subseteq mishap'
  PROVE  BInv'
  <1>1. BShape' /\ RepairIsMt3' /\ PutShape'
    BY DEF BInv, BShape, RepairIsMt3, PutShape, stagerVars
  <1>2. OneStager'
    BY DEF BInv, OneStager, Busy, Undisturbed, stagerVars
  <1>3. PutsStay' /\ RepairIsTotal'
    BY DEF BInv, PutsStay, RepairIsTotal, Undisturbed, stagerVars
  <1>4. ReadyToTell' /\ SentinelMeansComplete'
    BY DEF BInv, ReadyToTell, SentinelMeansComplete, Undisturbed, Sentinel, Complete, Parts,
       Deleting, stagerVars
  <1> QED
    BY <1>1, <1>2, <1>3, <1>4 DEF BInv

-----------------------------------------------------------------------------
\* An attempt that moves on without a download.
LEMMA WalkKeeps ==
  ASSUME BInv, NEW s \in Stager, NEW p \in Stage,
         UNCHANGED <<kind, upstream, store, copy, at, doomed, mishap>>,
         stage' = [stage EXCEPT ![s] = p],
         Busy(s), stage[s] \notin {"put", "delete"}, p \notin {"put", "delete"},
         p \in {"validate", "list"} => kind = "mt3",
         Undisturbed => /\ p = "commit" => Complete
                        /\ p = "validate" => Sentinel
                        /\ p = "announce" => Sentinel /\ Complete
  PROVE  BInv'
  <1>1. copy[s] \in Content /\ copy' = [copy EXCEPT ![s] = copy[s]]
    BY DEF BInv, BShape
  <1> QED
    BY <1>1, MoveKeeps

\* An attempt that ends before it has put anything.
LEMMA AbandonKeeps ==
  ASSUME BInv, NEW s \in Stager, Abandon(s), Busy(s), stage[s] \notin {"put", "delete"},
         UNCHANGED <<kind, upstream, store, copy, at, doomed, mishap>>
  PROVE  BInv'
  <1>1. PICK p \in {"idle", "done"} : stage' = [stage EXCEPT ![s] = p]
    BY DEF Abandon, Goto
  <1> QED
    BY <1>1, WalkKeeps DEF Stage

\* Where nothing is deleted the sentinel vouches for the model.
LEMMA SentinelVouches ==
  ASSUME BInv, Undisturbed, Sentinel, NEW s \in Stager,
         kind # "mt3" \/ (Busy(s) /\ stage[s] # "delete")
  PROVE  Complete
  <1>1. ~Deleting
    BY DEF BInv, RepairIsMt3, OneStager, Deleting, Busy
  <1> QED
    BY <1>1 DEF BInv, SentinelMeansComplete

\* A package has no objects.
LEMMA PackageIsComplete ==
  ASSUME kind = "package"
  PROVE  Complete
  <1>1. Layout[kind] = <<>>
    BY BootstrapAssumption DEF Kind
  <1> QED
    BY <1>1 DEF Complete, Parts

\* Every step keeps the invariant.
LEMMA BootstrapStepInv == BInv /\ [Next]_vars => BInv'
  <1> SUFFICES ASSUME BInv, [Next]_vars PROVE BInv'
    OBVIOUS
  <1>a. kind \in Kind /\ upstream \in {"old", "new"} /\ Loop \in Stager
    BY DEF BInv, BShape, Stager
  <1>1. ASSUME NEW s \in Stager, Look(s) PROVE BInv'
    <2>a. Busy(s) /\ stage[s] = "look" /\ UNCHANGED <<kind, upstream, store, copy, at, doomed, mishap>>
      BY <1>1 DEF Look, Busy
    <2>1. CASE Abandon(s)
      BY <2>a, <2>1, AbandonKeeps
    <2>2. ASSUME NEW present \in BOOLEAN, present => Sentinel,
                 Goto(s, CASE kind \in {"mt3", "unmix"} -> "head"
                       [] kind \notin {"mt3", "unmix"} /\ present -> "announce"
                       [] kind = "snapshot" /\ ~present -> "head"
                       [] kind = "payload" /\ ~present -> "download"
                       [] kind = "package" /\ ~present -> "commit")
          PROVE  BInv'
      <3>1. PICK p \in {"head", "announce", "download", "commit"} :
              /\ stage' = [stage EXCEPT ![s] = p]
              /\ p = "announce" => kind # "mt3" /\ Sentinel
              /\ p = "commit" => kind = "package"
        <4>1. CASE kind \in {"mt3", "unmix"}
          BY <2>2, <4>1 DEF Goto
        <4>2. CASE kind \notin {"mt3", "unmix"} /\ present
          BY <2>2, <4>2 DEF Goto
        <4>3. CASE kind = "snapshot" /\ ~present
          BY <2>2, <4>3 DEF Goto
        <4>4. CASE kind = "payload" /\ ~present
          BY <2>2, <4>4 DEF Goto
        <4>5. CASE kind = "package" /\ ~present
          BY <2>2, <4>5 DEF Goto
        <4> QED
          BY <1>a, <4>1, <4>2, <4>3, <4>4, <4>5 DEF Kind
      <3>2. Undisturbed => (p = "commit" => Complete) /\ (p = "announce" => Sentinel /\ Complete)
        BY <3>1, SentinelVouches, PackageIsComplete
      <3> QED
        BY <2>a, <3>1, <3>2, WalkKeeps DEF Stage
    <2> QED
      BY <1>1, <2>1, <2>2 DEF Look
  <1>2. ASSUME NEW s \in Stager, HeadSentinel(s) PROVE BInv'
    <2>1. /\ Busy(s) /\ stage[s] = "head"
          /\ UNCHANGED <<kind, upstream, store, copy, at, doomed, mishap>>
      BY <1>2 DEF HeadSentinel, Busy
    <2>2. PICK p \in {"validate", "commit", "download"} :
            /\ stage' = [stage EXCEPT ![s] = p]
            /\ p = "validate" => kind = "mt3" /\ Sentinel
            /\ p = "commit" => Sentinel
      BY <1>2 DEF HeadSentinel, Goto
    <2>3. Undisturbed /\ p = "commit" => Complete
      BY <2>1, <2>2, SentinelVouches
    <2> QED
      BY <2>1, <2>2, <2>3, WalkKeeps DEF Stage
  <1>3. ASSUME NEW s \in Stager, Validate(s) PROVE BInv'
    <2>1. /\ Busy(s) /\ stage[s] = "validate" /\ kind = "mt3"
          /\ UNCHANGED <<kind, upstream, store, copy, at, doomed, mishap>>
      BY <1>3 DEF Validate, Busy, BInv, RepairIsMt3
    <2>2. PICK p \in {"list", "commit"} : stage' = [stage EXCEPT ![s] = p]
      BY <1>3 DEF Validate, Goto
    <2>3. Undisturbed => Complete
      BY <2>1, SentinelVouches DEF BInv, ReadyToTell
    <2> QED
      BY <2>1, <2>2, <2>3, WalkKeeps DEF Stage
  <1>4. ASSUME NEW s \in Stager, Download(s) PROVE BInv'
    <2>1. /\ Busy(s) /\ stage[s] = "download"
          /\ UNCHANGED <<kind, upstream, store, at, doomed, mishap>>
      BY <1>4 DEF Download, Busy
    <2>2. CASE Abandon(s) /\ UNCHANGED copy
      BY <2>1, <2>2, AbandonKeeps
    <2>3. CASE Goto(s, "put")
      <3>1. PICK c \in Content \ {"none"} : copy' = [copy EXCEPT ![s] = c]
        BY <1>4, <1>a, <2>1, <2>3 DEF Download, Content, Abandon, Goto, BInv, BShape
      <3> QED
        BY <2>1, <2>3, <3>1, MoveKeeps DEF Stage, Goto
    <2> QED
      BY <1>4, <2>2, <2>3 DEF Download
  <1>5. ASSUME NEW s \in Stager, Verify(s) PROVE BInv'
    <2>1. /\ Busy(s) /\ stage[s] = "verify"
          /\ UNCHANGED <<kind, upstream, store, copy, at, doomed, mishap>>
      BY <1>5 DEF Verify, Busy
    <2>2. CASE Abandon(s)
      BY <2>1, <2>2, AbandonKeeps
    <2>3. CASE Whole /\ Goto(s, "commit")
      BY <2>1, <2>3, WalkKeeps DEF Stage, Goto, Whole, Complete
    <2> QED
      BY <1>5, <2>2, <2>3 DEF Verify
  <1>6. ASSUME NEW s \in Stager, Commit(s) PROVE BInv'
    <2>1. /\ Busy(s) /\ stage[s] = "commit"
          /\ UNCHANGED <<kind, upstream, copy, at, doomed, mishap>>
      BY <1>6 DEF Commit, Busy
    <2>2. CASE UNCHANGED store /\ Abandon(s)
      BY <2>1, <2>2, AbandonKeeps
    <2>3. CASE store' = [store EXCEPT ![Ready] = "old"] /\ Goto(s, "announce")
      BY <2>1, <2>3, CommitKeeps DEF Goto
    <2> QED
      BY <1>6, <2>2, <2>3 DEF Commit
  <1>7. ASSUME NEW s \in Stager, Announce(s) PROVE BInv'
    <2>1. /\ Busy(s) /\ stage[s] = "announce"
          /\ UNCHANGED <<kind, upstream, store, copy, at, doomed, mishap>>
      BY <1>7 DEF Announce, Busy
    <2>2. CASE Abandon(s)
      BY <2>1, <2>2, AbandonKeeps
    <2>3. CASE Goto(s, IF s = Loop THEN "ack" ELSE "done")
      <3>1. PICK p \in {"ack", "done"} : stage' = [stage EXCEPT ![s] = p]
        BY <2>3 DEF Goto
      <3> QED
        BY <2>1, <3>1, WalkKeeps DEF Stage
    <2> QED
      BY <1>7, <2>2, <2>3 DEF Announce
  <1>8. ASSUME Ack PROVE BInv'
    BY <1>8, <1>a, WalkKeeps DEF Ack, Busy, Goto, Stage
  <1>9. ASSUME NEW s \in Stager, CallFails(s) PROVE BInv'
    <2>1. PICK p \in {"idle", "due", "done"} : stage' = [stage EXCEPT ![s] = p]
      BY <1>9 DEF CallFails, Abandon, Goto
    <2> QED
      BY <1>9, <2>1, StopKeeps DEF CallFails
  <1>10. ASSUME NEW s \in Stager, Crash(s) PROVE BInv'
    <2>1. PICK p \in {"idle", "due", "done"} : stage' = [stage EXCEPT ![s] = p]
      BY <1>10 DEF Crash, Goto
    <2> QED
      BY <1>10, <2>1, StopKeeps DEF Crash
  <1>11. ASSUME Republish PROVE BInv'
    BY <1>11, QuietKeeps DEF Republish
  <1>12. ASSUME NEW e \in Engine, Execute(e) PROVE BInv'
    <2>1. UNCHANGED <<kind, store, stagerVars, upstream>> /\ mishap \subseteq mishap'
      BY <1>12 DEF Execute, List, Fetch, RequestBootstrap, AwaitReady, WaitExpires, NextRequest
    <2> QED
      BY <1>a, <2>1, QuietKeeps
  <1>13. CASE UNCHANGED vars
    BY <1>a, <1>13, QuietKeeps DEF vars
  <1> QED
    BY <1>1, <1>2, <1>3, <1>4, <1>5, <1>6, <1>7, <1>8, <1>9, <1>10, <1>11, <1>12, <1>13,
       BeginKeeps, ListDoomedKeeps, DeleteKeeps, PutKeeps DEF Next, Attempt

-----------------------------------------------------------------------------
\* The invariant of the specification.
LEMMA BootstrapInv == Spec => []BInv
  BY BootstrapInitInv, BootstrapStepInv, PTL DEF Spec

\* A visible sentinel means that every object of the model is there.
THEOREM SentinelIsTrue == Spec => []SentinelMeansComplete
  <1>1. BInv => SentinelMeansComplete
    BY DEF BInv
  <1> QED
    BY <1>1, BootstrapInv, PTL

\* No ready event is published but over a staged model.
THEOREM EventsAreTrue == Spec => []AnnouncementsAreTrue
  <1>1. BInv => AnnouncementsAreTrue
    BY DEF BInv, ReadyToTell, AnnouncementsAreTrue
  <1> QED
    BY <1>1, BootstrapInv, PTL

-----------------------------------------------------------------------------
\* An engine that is loading has, or still wants, every object.
Loading ==
  \A e \in Engine :
    run[e] \in {"fetch", "served"} /\ Undisturbed /\ "glimpse" \notin mishap
      => \A o \in Parts : got[e][o] # "none" \/ (run[e] = "fetch" /\ o \in wanted[e])

EngineStage == {"idle", "fetch", "miss", "wait", "failed", "served"}

EInv ==
  /\ run \in [Engine -> EngineStage]
  /\ wanted \in [Engine -> SUBSET Object]
  /\ got \in [Engine -> [Key -> Content]]
  /\ Loading

\* What a stager or the upstream does leaves the engines alone.
LEMMA StagersLeaveEngines ==
  ASSUME EInv, UNCHANGED <<kind, engineVars>>, mishap \subseteq mishap'
  PROVE  EInv'
  BY DEF EInv, Loading, Undisturbed, Parts, engineVars

\* Every step keeps what the engines have loaded complete.
LEMMA EngineStepInv == EInv /\ BInv /\ [Next]_vars => EInv'
  <1> SUFFICES ASSUME EInv, BInv, [Next]_vars PROVE EInv'
    OBVIOUS
  <1>1. ASSUME NEW s \in Stager, Attempt(s) \/ CallFails(s) \/ Crash(s) PROVE EInv'
    <2>1. UNCHANGED <<kind, engineVars>> /\ mishap \subseteq mishap'
      BY <1>1 DEF Attempt, Begin, Look, HeadSentinel, Validate, ListDoomed, Delete, Download, Put,
         Verify, Commit, Announce, CallFails, Crash
    <2> QED
      BY <2>1, StagersLeaveEngines
  <1>2. ASSUME Ack \/ Republish PROVE EInv'
    BY <1>2, StagersLeaveEngines DEF Ack, Republish
  <1>3. ASSUME NEW e \in Engine, List(e) PROVE EInv'
    <2>1. Parts' = Parts /\ (Undisturbed' => Undisturbed)
      BY <1>3 DEF List, Parts, Undisturbed
    <2>2. Sentinel /\ ~Deleting /\ Undisturbed => Complete
      BY DEF BInv, SentinelMeansComplete
    <2>3. Parts \subseteq Object
      BY PartsAreKeys DEF BInv, BShape, Key
    <2>4. /\ run' \in [Engine -> EngineStage]
          /\ wanted' \in [Engine -> SUBSET Object] /\ got' \in [Engine -> [Key -> Content]]
      BY <1>3 DEF List, Proceed, EInv, EngineStage
    <2>5. Loading'
      <3> SUFFICES ASSUME NEW f \in Engine, run'[f] \in {"fetch", "served"}, Undisturbed',
                          "glimpse" \notin mishap', NEW o \in Parts
                   PROVE  got'[f][o] # "none" \/ (run'[f] = "fetch" /\ o \in wanted'[f])
        BY <2>1 DEF Loading
      <3>1. CASE f = e /\ Sentinel
        <4>1. Complete
          BY <1>3, <2>1, <2>2, <3>1 DEF List
        <4>2. o \in Object /\ store[o] # "none"
          BY <2>3, <4>1 DEF Complete
        <4> QED
          BY <1>3, <2>1, <3>1, <4>2 DEF List, Proceed, EInv, Loading
      <3>2. CASE f = e /\ ~Sentinel
        BY <1>3, <2>1, <3>2 DEF List, Proceed, EInv, Loading
      <3>3. CASE f # e
        BY <1>3, <2>1, <3>3 DEF List, Proceed, EInv, Loading
      <3> QED
        BY <3>1, <3>2, <3>3
    <2> QED
      BY <2>4, <2>5 DEF EInv
  <1>4. ASSUME NEW e \in Engine, Fetch(e) PROVE EInv'
    <2>1. UNCHANGED <<kind, store, mishap>> /\ run[e] = "fetch"
      BY <1>4 DEF Fetch
    <2>2. Parts' = Parts /\ (Undisturbed' <=> Undisturbed)
      BY <2>1 DEF Parts, Undisturbed
    <2>3. CASE wanted[e] = {}
      BY <1>4, <2>1, <2>2, <2>3 DEF Fetch, Proceed, EInv, EngineStage, Loading
    <2>4. CASE wanted[e] # {}
      <3>1. PICK o \in wanted[e] :
              IF store[o] = "none"
                THEN /\ Proceed(e, "failed")
                     /\ wanted' = [wanted EXCEPT ![e] = {}]
                     /\ got' = [got EXCEPT ![e] = Prefix({}, "none")]
                ELSE /\ got' = [got EXCEPT ![e][o] = store[o]]
                     /\ wanted' = [wanted EXCEPT ![e] = @ \ {o}]
                     /\ UNCHANGED run
        BY <1>4, <2>4 DEF Fetch
      <3>2. o \in Key /\ store[o] \in Content
        BY DEF EInv, BInv, BShape, Key
      <3>a. /\ run[e] = "fetch" /\ run \in [Engine -> EngineStage]
            /\ wanted \in [Engine -> SUBSET Object] /\ got \in [Engine -> [Key -> Content]]
        BY <2>1 DEF EInv
      <3>3. CASE store[o] = "none"
        <4>1. Prefix({}, "none") \in [Key -> Content]
          BY DEF Prefix, Content
        <4>2. /\ run' = [run EXCEPT ![e] = "failed"] /\ wanted' = [wanted EXCEPT ![e] = {}]
              /\ got' = [got EXCEPT ![e] = Prefix({}, "none")]
          BY <3>1, <3>3 DEF Proceed
        <4>3. /\ run' \in [Engine -> EngineStage] /\ wanted' \in [Engine -> SUBSET Object]
              /\ got' \in [Engine -> [Key -> Content]]
          BY <3>a, <4>1, <4>2 DEF EngineStage
        <4>4. Loading'
          <5> SUFFICES ASSUME NEW f \in Engine, run'[f] \in {"fetch", "served"}, Undisturbed',
                              "glimpse" \notin mishap', NEW q \in Parts
                       PROVE  got'[f][q] # "none" \/ (run'[f] = "fetch" /\ q \in wanted'[f])
            BY <2>2 DEF Loading
          <5>1. f # e
            BY <3>a, <4>2
          <5>2. run'[f] = run[f] /\ wanted'[f] = wanted[f] /\ got'[f] = got[f]
            BY <3>a, <4>2, <5>1
          <5> QED
            BY <2>1, <2>2, <5>2 DEF EInv, Loading
        <4> QED
          BY <4>3, <4>4 DEF EInv
      <3>4. CASE store[o] # "none"
        <4>2. /\ run' = run /\ wanted' = [wanted EXCEPT ![e] = wanted[e] \ {o}]
              /\ got' = [got EXCEPT ![e] = [got[e] EXCEPT ![o] = store[o]]]
          BY <3>1, <3>4
        <4>3. /\ run' \in [Engine -> EngineStage] /\ wanted' \in [Engine -> SUBSET Object]
              /\ got' \in [Engine -> [Key -> Content]]
          BY <3>a, <3>2, <4>2
        <4>4. Loading'
          <5> SUFFICES ASSUME NEW f \in Engine, run[f] \in {"fetch", "served"}, Undisturbed,
                              "glimpse" \notin mishap, NEW q \in Parts
                       PROVE  got'[f][q] # "none" \/ (run[f] = "fetch" /\ q \in wanted'[f])
            BY <2>1, <2>2, <4>2 DEF Loading
          <5>1. got[f][q] # "none" \/ (run[f] = "fetch" /\ q \in wanted[f])
            BY DEF EInv, Loading
          <5>2. CASE f # e
            BY <3>a, <4>2, <5>1, <5>2
          <5>3. CASE f = e /\ q # o
            BY <3>a, <4>2, <5>1, <5>3
          <5>4. CASE f = e /\ q = o
            BY <3>a, <3>2, <3>4, <4>2, <5>4
          <5> QED
            BY <5>2, <5>3, <5>4
        <4> QED
          BY <4>3, <4>4 DEF EInv
      <3> QED
        BY <3>3, <3>4
    <2> QED
      BY <2>3, <2>4
  <1>5. ASSUME NEW e \in Engine,
               RequestBootstrap(e) \/ AwaitReady(e) \/ WaitExpires(e) \/ NextRequest(e)
        PROVE  EInv'
    <2>1. /\ UNCHANGED <<kind, mishap, wanted, got>>
          /\ \E p \in {"wait", "idle", "failed"} : run' = [run EXCEPT ![e] = p]
      BY <1>5 DEF RequestBootstrap, AwaitReady, WaitExpires, NextRequest, Proceed
    <2> QED
      BY <2>1 DEF EInv, EngineStage, Loading, Parts, Undisturbed
  <1>6. CASE UNCHANGED vars
    BY <1>6, StagersLeaveEngines DEF vars
  <1> QED
    BY <1>1, <1>2, <1>3, <1>4, <1>5, <1>6 DEF Next, Execute

\* The engines' part of the invariant holds throughout.
LEMMA EngineHolds == Spec => []EInv
  <1>1. Init => EInv
    BY DEF Init, EInv, EngineStage, Loading, Prefix, Content
  <1> QED
    BY <1>1, EngineStepInv, BootstrapInv, PTL DEF Spec

\* An execution that goes ahead has every object of the model.
THEOREM ServesAll == Spec => []ServesComplete
  <1>1. EInv => ServesComplete
    BY DEF EInv, Loading, ServesComplete
  <1> QED
    BY <1>1, EngineHolds, PTL
-----------------------------------------------------------------------------
(* What the objects hold.                                                  *)
(*                                                                         *)
(* Contents are checked before they are put, except for a source that      *)
(* cannot be; a payload's length is read back.  A snapshot is downloaded   *)
(* whole before its first object is put, so one upload is of one revision; *)
(* a second one is counted as overlapping or as writing over the first.    *)
(* An mt3 copy is repaired only while it is bad.                           *)

Clean == mishap \cap {"overlap", "overwrite"} = {}
OneRevision == \E r \in {"old", "new"} : \A o \in Object : store[o] \in {r, "short", "none"}

\* Attempts that no overlap was counted for take turns.
Alone == "overlap" \notin mishap => \A s, t \in Stager : Busy(s) /\ Busy(t) => s = t

CopiesChecked == kind # "unmix" => \A s \in Stager : copy[s] # "short"
OnlyParts == \A o \in Object : o \in Parts \/ store[o] = "none"
VerifiesPayload == \A s \in Stager : stage[s] = "verify" => kind = "payload"

\* Only a snapshot's upstream moves.
OldOnly ==
  kind # "snapshot" =>
    /\ upstream = "old" /\ \A s \in Stager : copy[s] # "new"
    /\ \A k \in Key : store[k] # "new"

\* Until a repair has deleted what it found, the copy it repairs is bad.
RepairIsDue ==
  "overlap" \notin mishap => \A s \in Stager : stage[s] \in {"list", "delete"} => ~Whole

\* What a stager has put of a snapshot is what it downloaded.
PutsAreExact ==
  kind = "snapshot" /\ Clean =>
    \A s \in Stager : stage[s] = "put" =>
      \A i \in DOMAIN Layout[kind] : i < at[s] => store[Layout[kind][i]] = copy[s]

\* Whoever is about to write the sentinel of a checked source may vouch for
\* its contents, and so may the sentinel.
ReadyToVouch ==
  kind \in {"snapshot", "payload", "package"} /\ Clean =>
    \A s \in Stager : stage[s] = "commit" \/ Sentinel => Whole /\ OneRevision

ContentInv ==
  /\ CopiesChecked /\ OnlyParts /\ VerifiesPayload /\ OldOnly /\ RepairIsDue /\ PutsAreExact
  /\ ReadyToVouch

-----------------------------------------------------------------------------
\* A step begins an attempt, moves one that has begun, ends one, or leaves
\* the stagers where they are.
LEMMA StageMoves ==
  ASSUME BInv, [Next]_vars
  PROVE  /\ kind' = kind /\ mishap \subseteq mishap'
         /\ \/ UNCHANGED stage
            \/ \E s \in Stager : Begin(s)
            \/ \E s \in Stager, p \in Stage :
                 stage' = [stage EXCEPT ![s] = p] /\ (Busy(s) \/ p \in {"idle", "due"})
  <1> DEFINE Moves == \E s \in Stager, p \in Stage :
                        stage' = [stage EXCEPT ![s] = p] /\ (Busy(s) \/ p \in {"idle", "due"})
  <1>1. ASSUME NEW s \in Stager, Look(s) \/ HeadSentinel(s) \/ Validate(s) \/ ListDoomed(s)
        PROVE  Moves /\ kind' = kind /\ mishap' = mishap
    <2>1. Busy(s) /\ kind' = kind /\ mishap' = mishap
      BY <1>1 DEF Look, HeadSentinel, Validate, ListDoomed, Busy
    <2>2. kind \in Kind
      BY DEF BInv, BShape
    <2>3. \E p \in Stage : stage' = [stage EXCEPT ![s] = p]
      <3>1. CASE Look(s)
        BY <2>2, <3>1 DEF Look, Goto, Abandon, Stage, Kind
      <3>2. CASE HeadSentinel(s) \/ Validate(s) \/ ListDoomed(s)
        BY <3>2 DEF HeadSentinel, Validate, ListDoomed, Goto, Stage
      <3> QED
        BY <1>1, <3>1, <3>2
    <2> QED
      BY <2>1, <2>3
  <1>2. ASSUME NEW s \in Stager, Download(s) \/ Verify(s) \/ Commit(s) \/ Announce(s)
        PROVE  Moves /\ kind' = kind /\ mishap' = mishap
    <2>1. Busy(s) /\ kind' = kind /\ mishap' = mishap
      BY <1>2 DEF Download, Verify, Commit, Announce, Busy
    <2>2. \E p \in Stage : stage' = [stage EXCEPT ![s] = p]
      BY <1>2 DEF Download, Verify, Commit, Announce, Goto, Abandon, Stage
    <2> QED
      BY <2>1, <2>2
  <1>3. ASSUME NEW s \in Stager, Delete(s) \/ Put(s) \/ CallFails(s) \/ Crash(s)
        PROVE  (Moves \/ UNCHANGED stage) /\ kind' = kind /\ mishap \subseteq mishap'
    <2>1. kind' = kind /\ mishap \subseteq mishap'
      BY <1>3 DEF Delete, Put, CallFails, Crash
    <2>2. CASE Delete(s) \/ Put(s)
      BY <2>2 DEF Delete, Put, Goto, Stage, Busy
    <2>3. CASE CallFails(s)
      BY <2>3 DEF CallFails, Abandon, Goto, Stage, Busy
    <2>4. CASE Crash(s)
      BY <2>4 DEF Crash, Goto, Stage
    <2> QED
      BY <1>3, <2>1, <2>2, <2>3, <2>4
  <1>4. ASSUME NEW s \in Stager, Begin(s) PROVE kind' = kind /\ mishap \subseteq mishap'
    BY <1>4 DEF Begin
  <1>5. CASE Ack
    <2>1. Loop \in Stager
      BY DEF Stager
    <2> QED
      BY <1>5, <2>1 DEF Ack, Goto, Stage
  <1>6. ASSUME NEW e \in Engine, Execute(e)
        PROVE  UNCHANGED stage /\ kind' = kind /\ mishap \subseteq mishap'
    BY <1>6 DEF Execute, List, Fetch, RequestBootstrap, AwaitReady, WaitExpires, NextRequest,
       stagerVars
  <1>7. CASE Republish \/ UNCHANGED vars
    BY <1>7 DEF Republish, vars, stagerVars
  <1> QED
    BY <1>1, <1>2, <1>3, <1>4, <1>5, <1>6, <1>7 DEF Next, Attempt

\* Attempts take turns, or an overlap is counted.
LEMMA AloneStep == BInv /\ Alone /\ [Next]_vars => Alone'
  <1> SUFFICES ASSUME BInv, Alone, [Next]_vars PROVE Alone'
    OBVIOUS
  <1>0. stage \in [Stager -> Stage]
    BY DEF BInv, BShape
  <1>1. CASE UNCHANGED stage
    BY <1>1, StageMoves DEF Alone, Busy
  <1>2. ASSUME NEW s \in Stager, Begin(s) PROVE Alone'
    BY <1>0, <1>2 DEF Begin, Goto, Alone, Busy
  <1>3. ASSUME NEW s \in Stager, NEW p \in Stage, stage' = [stage EXCEPT ![s] = p],
               Busy(s) \/ p \in {"idle", "due"}
        PROVE  Alone'
    BY <1>0, <1>3, StageMoves DEF Alone, Busy
  <1> QED
    BY <1>1, <1>2, <1>3, StageMoves

\* The store changes in three places only.
LEMMA StoreMoves ==
  ASSUME [Next]_vars
  PROVE  UNCHANGED store \/ \E s \in Stager : Delete(s) \/ Put(s) \/ Commit(s)
  <1>1. ASSUME NEW s \in Stager,
               \/ Begin(s) \/ Look(s) \/ HeadSentinel(s) \/ Validate(s) \/ ListDoomed(s)
               \/ Download(s) \/ Verify(s) \/ Announce(s) \/ CallFails(s) \/ Crash(s)
        PROVE  UNCHANGED store
    BY <1>1 DEF Begin, Look, HeadSentinel, Validate, ListDoomed, Download, Verify, Announce,
       CallFails, Crash
  <1>2. ASSUME NEW e \in Engine, Execute(e) PROVE UNCHANGED store
    BY <1>2 DEF Execute, List, Fetch, RequestBootstrap, AwaitReady, WaitExpires, NextRequest
  <1>3. CASE Ack \/ Republish \/ UNCHANGED vars
    BY <1>3 DEF Ack, Republish, vars
  <1> QED
    BY <1>1, <1>2, <1>3 DEF Next, Attempt

-----------------------------------------------------------------------------
\* Without a snapshot there is one revision.
LEMMA OldIsOne ==
  ASSUME BInv, OldOnly, kind # "snapshot"
  PROVE  OneRevision
  BY DEF BInv, BShape, OldOnly, OneRevision, Content, Key

\* A step that leaves the bucket alone keeps what is known of its contents.
LEMMA ContentMoveKeeps ==
  ASSUME BInv, ContentInv, NEW s \in Stager, NEW p \in Stage, NEW c \in Content,
         UNCHANGED <<kind, upstream, store>>, mishap \subseteq mishap',
         stage' = [stage EXCEPT ![s] = p], copy' = [copy EXCEPT ![s] = c],
         \A t \in Stager : at'[t] = IF t = s THEN 1 ELSE at[t],
         kind # "unmix" => c # "short", kind # "snapshot" => c # "new",
         p = "verify" => kind = "payload",
         p = "list" => ~Whole, p = "delete" => stage[s] = "list",
         kind \in {"snapshot", "payload", "package"} /\ Clean /\ p = "commit"
           => Whole /\ OneRevision
  PROVE  ContentInv'
  <1>1. /\ Clean' => Clean
        /\ Whole' = Whole /\ Sentinel' = Sentinel /\ OneRevision' = OneRevision /\ Parts' = Parts
        /\ \A t \in Stager : stage'[t] = IF t = s THEN p ELSE stage[t]
        /\ \A t \in Stager : copy'[t] = IF t = s THEN c ELSE copy[t]
    BY DEF Clean, Whole, Sentinel, OneRevision, Parts, BInv, BShape
  <1>2. CopiesChecked' /\ OnlyParts' /\ VerifiesPayload'
    BY <1>1 DEF ContentInv, CopiesChecked, OnlyParts, VerifiesPayload
  <1>3. OldOnly'
    BY <1>1 DEF ContentInv, OldOnly
  <1>4. RepairIsDue'
    BY <1>1 DEF ContentInv, RepairIsDue
  <1>5. PutsAreExact'
    <2> SUFFICES ASSUME kind = "snapshot", Clean', NEW t \in Stager, stage'[t] = "put",
                        NEW i \in DOMAIN Layout[kind], i < at'[t]
                 PROVE  store[Layout[kind][i]] = copy'[t]
      BY DEF PutsAreExact
    <2>1. t # s
      BY Positions DEF BInv, BShape
    <2> QED
      BY <1>1, <2>1 DEF ContentInv, PutsAreExact
  <1>6. ReadyToVouch'
    BY <1>1 DEF ContentInv, ReadyToVouch
  <1> QED
    BY <1>2, <1>3, <1>4, <1>5, <1>6 DEF ContentInv

\* A step that leaves the stagers and the bucket alone does, too.
LEMMA ContentQuietKeeps ==
  ASSUME ContentInv, UNCHANGED <<kind, store, stagerVars>>, mishap \subseteq mishap',
         upstream' = upstream \/ kind = "snapshot"
  PROVE  ContentInv'
  <1>1. Clean' => Clean
    BY DEF Clean
  <1>2. Whole' = Whole /\ Sentinel' = Sentinel /\ OneRevision' = OneRevision /\ Parts' = Parts
    BY DEF Whole, Sentinel, OneRevision, Parts
  <1>3. CopiesChecked' /\ OnlyParts' /\ VerifiesPayload' /\ OldOnly'
    BY <1>2 DEF ContentInv, CopiesChecked, OnlyParts, VerifiesPayload, OldOnly, stagerVars
  <1>4. RepairIsDue' /\ PutsAreExact' /\ ReadyToVouch'
    BY <1>1, <1>2 DEF ContentInv, RepairIsDue, PutsAreExact, ReadyToVouch, stagerVars
  <1> QED
    BY <1>3, <1>4 DEF ContentInv

\* A prefix the coordinator may find holds one revision.
LEMMA ContentInitInv == Init => Alone /\ ContentInv
  <1> SUFFICES ASSUME Init PROVE Alone /\ ContentInv
    OBVIOUS
  <1>1. kind \in Kind
    BY DEF Init
  <1>2. BInv
    BY BootstrapInitInv
  <1>3. /\ \A k \in Key : store[k] # "new"
        /\ \A o \in Object : o \in Parts \/ store[o] = "none"
        /\ kind # "mt3" => (Sentinel => Whole)
    <2>1. CASE \E n \in 0 .. Len(Layout[kind]) :
                 store = Prefix({Layout[kind][i] : i \in 1 .. n}, "old")
      <3>1. PICK n \in 0 .. Len(Layout[kind]) :
              store = Prefix({Layout[kind][i] : i \in 1 .. n}, "old")
        BY <2>1
      <3>2. \A i \in 1 .. n : i \in DOMAIN Layout[kind]
        BY <1>1, Positions
      <3>3. {Layout[kind][i] : i \in 1 .. n} \subseteq Parts
        BY <3>2 DEF Parts
      <3>4. Ready \notin {Layout[kind][i] : i \in 1 .. n} /\ Ready \in Key
        BY <1>1, <3>3, PartsAreKeys DEF Key
      <3>5. ~Sentinel
        BY <3>1, <3>4 DEF Prefix, Sentinel
      <3> HIDE DEF Parts
      <3> QED
        BY <3>1, <3>3, <3>5 DEF Prefix, Key
    <2>2. CASE store = Prefix(Parts \cup {Ready}, "old")
      BY <1>1, <2>2, PartsAreKeys, BootstrapAssumption DEF Prefix, Whole, Key
    <2>3. CASE kind = "mt3" /\ \E bad \in Parts :
                 store = [Prefix(Parts \cup {Ready}, "old") EXCEPT ![bad] = "short"]
      BY <1>1, <2>3, PartsAreKeys, BootstrapAssumption DEF Prefix, Key
    <2> QED
      BY <2>1, <2>2, <2>3 DEF Init
  <1>4. OneRevision
    BY <1>2, <1>3 DEF OneRevision, BInv, BShape, Content, Key
  <1> QED
    BY <1>3, <1>4 DEF Init, Alone, Busy, ContentInv, CopiesChecked, OnlyParts, VerifiesPayload,
       OldOnly, RepairIsDue, PutsAreExact, ReadyToVouch

\* A deletion takes a bad copy further apart.
LEMMA ContentDeleteKeeps ==
  ASSUME BInv, ContentInv, NEW s \in Stager, Delete(s)
  PROVE  ContentInv'
  <1>1. kind = "mt3" /\ kind' = kind /\ stage[s] = "delete" /\ upstream' = upstream
    BY DEF Delete, BInv, RepairIsMt3
  <1>2. /\ copy' = copy /\ at' = at /\ mishap \subseteq mishap'
        /\ stage' = stage \/ stage' = [stage EXCEPT ![s] = "download"]
    BY DEF Delete, Goto
  <1>3. \A k \in Key : store'[k] \in {store[k], "none"}
    BY DEF Delete, BInv, BShape
  <1>4. Parts' = Parts /\ Parts \subseteq Key
    BY <1>1, PartsAreKeys DEF Parts, BInv, BShape
  <1>5. ~Whole => ~Whole'
    BY <1>3, <1>4 DEF Whole
  <1>6. CopiesChecked' /\ OnlyParts' /\ OldOnly'
    BY <1>1, <1>2, <1>3, <1>4 DEF ContentInv, CopiesChecked, OnlyParts, OldOnly, Key
  <1>7. VerifiesPayload' /\ RepairIsDue'
    BY <1>1, <1>2, <1>5 DEF ContentInv, VerifiesPayload, RepairIsDue, BInv, BShape
  <1>8. PutsAreExact' /\ ReadyToVouch'
    BY <1>1 DEF PutsAreExact, ReadyToVouch
  <1> QED
    BY <1>6, <1>7, <1>8 DEF ContentInv

\* The sentinel is no object.
LEMMA ContentCommitKeeps ==
  ASSUME BInv, ContentInv, NEW s \in Stager, stage[s] = "commit",
         store' = [store EXCEPT ![Ready] = "old"], stage' = [stage EXCEPT ![s] = "announce"],
         UNCHANGED <<kind, upstream, copy, at, mishap>>
  PROVE  ContentInv'
  <1>1. /\ \A o \in Object : store'[o] = store[o]
        /\ \A k \in Key : store[k] # "new" => store'[k] # "new"
    BY BootstrapAssumption DEF BInv, BShape, Key
  <1>2. Parts' = Parts /\ Parts \subseteq Object /\ Clean' = Clean
    BY PartsAreKeys DEF Parts, BInv, BShape, Key, Clean
  <1>3. Whole' = Whole /\ OneRevision' = OneRevision
    BY <1>1, <1>2 DEF Whole, OneRevision
  <1>4. CopiesChecked' /\ OnlyParts' /\ VerifiesPayload' /\ OldOnly'
    BY <1>1, <1>2 DEF ContentInv, CopiesChecked, OnlyParts, VerifiesPayload, OldOnly, BInv, BShape
  <1>5. RepairIsDue'
    BY <1>3 DEF ContentInv, RepairIsDue, BInv, BShape
  <1>6. PutsAreExact'
    <2>1. \A i \in DOMAIN Layout[kind] : Layout[kind][i] \in Object
      BY <1>2, PartsAreKeys DEF BInv, BShape
    <2> QED
      BY <1>1, <1>2, <2>1 DEF ContentInv, PutsAreExact, BInv, BShape
  <1>7. ReadyToVouch'
    BY <1>2, <1>3 DEF ContentInv, ReadyToVouch
  <1> QED
    BY <1>4, <1>5, <1>6, <1>7 DEF ContentInv

\* What is put is what was downloaded, except a payload that is cut.
LEMMA PutWrites ==
  ASSUME BInv, ContentInv, NEW s \in Stager, Put(s)
  PROVE  /\ at[s] \in DOMAIN Layout[kind] /\ Layout[kind][at[s]] \in Parts
         /\ copy[s] \in {"short", "old", "new"} /\ (kind = "snapshot" => copy[s] # "short")
         /\ \E c \in {"short", "old", "new"} :
              /\ store' = [store EXCEPT ![Layout[kind][at[s]]] = c]
              /\ kind # "payload" => c = copy[s]
              /\ kind # "snapshot" => c # "new"
  <1>1. at[s] \in DOMAIN Layout[kind] /\ Layout[kind][at[s]] \in Parts
    BY Positions, PartsAreKeys DEF Put, BInv, BShape
  <1>2. copy[s] \in {"short", "old", "new"} /\ (kind = "snapshot" => copy[s] # "short")
    BY DEF Put, BInv, BShape, PutShape, Content, ContentInv, CopiesChecked
  <1>3. kind # "snapshot" => copy[s] # "new"
    BY DEF ContentInv, OldOnly
  <1> QED
    BY <1>1, <1>2, <1>3 DEF Put

\* One object is put; the last of a snapshot makes it one whole revision.
LEMMA ContentPutKeeps ==
  ASSUME BInv, ContentInv, Alone, NEW s \in Stager, Put(s)
  PROVE  ContentInv'
  <1> DEFINE key == Layout[kind][at[s]]
  <1>a. /\ stage[s] = "put" /\ UNCHANGED <<kind, upstream>> /\ mishap \subseteq mishap'
        /\ stage \in [Stager -> Stage] /\ store \in [Key -> Content] /\ kind \in Kind
        /\ copy \in [Stager -> Content] /\ at \in [Stager -> Nat \ {0}]
    BY DEF Put, BInv, BShape
  <1>1. PICK c \in {"short", "old", "new"} :
          /\ store' = [store EXCEPT ![key] = c]
          /\ kind # "payload" => c = copy[s]
          /\ kind # "snapshot" => c # "new"
    BY PutWrites
  <1>2. at[s] \in DOMAIN Layout[kind] /\ key \in Parts /\ (kind = "snapshot" => copy[s] # "short")
    BY PutWrites
  <1>3. Parts' = Parts /\ Parts \subseteq Object /\ Ready \notin Parts
    BY <1>a, PartsAreKeys DEF Parts, Key
  <1>4. \A k \in Key : store'[k] = IF k = key THEN c ELSE store[k]
    BY <1>1, <1>a
  <1>5. Sentinel' = Sentinel /\ (Clean' => Clean /\ ~Sentinel)
    BY <1>2, <1>3, <1>4, <1>a DEF Sentinel, Clean, Put, Key
  <1>6. \A t \in Stager \ {s} : stage'[t] = stage[t] /\ copy'[t] = copy[t] /\ at'[t] = at[t]
    BY <1>a DEF Put, Goto, Cleanup
  <1>7. \/ at[s] < Len(Layout[kind]) /\ stage'[s] = "put" /\ copy'[s] = copy[s] /\ at'[s] = at[s] + 1
        \/ /\ at[s] = Len(Layout[kind]) /\ copy'[s] = "none"
           /\ stage'[s] = IF kind = "payload" THEN "verify" ELSE "commit"
    BY <1>2, <1>a, Positions DEF Put, Goto, Cleanup
  <1>8. ASSUME "overlap" \notin mishap', NEW t \in Stager \ {s} PROVE ~Busy(t)
    BY <1>8, <1>a DEF Alone, Busy
  <1>9. CopiesChecked' /\ OnlyParts' /\ VerifiesPayload'
    BY <1>2, <1>3, <1>4, <1>6, <1>7, <1>a
    DEF ContentInv, CopiesChecked, OnlyParts, VerifiesPayload, Key
  <1>10. OldOnly'
    BY <1>1, <1>4, <1>6, <1>7, <1>a DEF ContentInv, OldOnly
  <1>11. RepairIsDue'
    BY <1>6, <1>7, <1>8 DEF RepairIsDue, Busy
  <1>12. ASSUME kind = "snapshot", Clean', NEW i \in DOMAIN Layout[kind], i < at[s] \/ i = at[s]
         PROVE  store'[Layout[kind][i]] = copy[s]
    <2>1. Layout[kind][i] \in Key
      BY <1>a, PartsAreKeys
    <2>2. Layout[kind][i] # key => store[Layout[kind][i]] = copy[s]
      BY <1>5, <1>12, <1>a DEF ContentInv, PutsAreExact
    <2> QED
      BY <1>1, <1>4, <1>12, <2>1, <2>2
  <1>13. PutsAreExact'
    <2> SUFFICES ASSUME kind = "snapshot", Clean', NEW t \in Stager, stage'[t] = "put",
                        NEW i \in DOMAIN Layout[kind], i < at'[t]
                 PROVE  store'[Layout[kind][i]] = copy'[t]
      BY <1>a DEF PutsAreExact
    <2>1. t = s
      BY <1>6, <1>8 DEF Busy, Clean
    <2>2. copy'[s] = copy[s] /\ at'[s] = at[s] + 1
      BY <1>7, <2>1
    <2>3. i < at[s] \/ i = at[s]
      BY <1>a, <2>1, <2>2, Positions
    <2> QED
      BY <1>12, <2>1, <2>2, <2>3
  <1>14. ReadyToVouch'
    <2> SUFFICES ASSUME kind \in {"snapshot", "payload", "package"}, Clean', NEW t \in Stager,
                        stage'[t] = "commit" \/ Sentinel'
                 PROVE  Whole' /\ OneRevision'
      BY <1>a DEF ReadyToVouch
    <2>1. t = s /\ stage'[s] = "commit"
      BY <1>5, <1>6, <1>8 DEF Busy, Clean
    <2>2. kind = "snapshot" /\ at[s] = Len(Layout[kind])
      <3>1. kind # "payload" /\ at[s] = Len(Layout[kind])
        BY <1>7, <2>1
      <3>2. kind # "package"
        BY <1>2, BootstrapAssumption DEF Kind
      <3> QED
        BY <3>1, <3>2
    <2>3. copy[s] \in {"old", "new"}
      BY <1>1, <1>2, <2>2
    <2>4. \A o \in Parts : store'[o] = copy[s]
      <3> SUFFICES ASSUME NEW i \in DOMAIN Layout[kind] PROVE store'[Layout[kind][i]] = copy[s]
        BY DEF Parts
      <3>1. i < at[s] \/ i = at[s]
        BY <1>a, <2>2, Positions
      <3> QED
        BY <1>12, <2>2, <3>1
    <2>5. \A o \in Object : o \in Parts \/ store'[o] = "none"
      BY <1>3, <1>9 DEF OnlyParts
    <2> QED
      BY <1>3, <2>3, <2>4, <2>5 DEF Whole, OneRevision
  <1> QED
    BY <1>9, <1>10, <1>11, <1>13, <1>14 DEF ContentInv

\* An attempt that goes nowhere near the bucket.
LEMMA ContentWalkKeeps ==
  ASSUME BInv, ContentInv, NEW s \in Stager, NEW p \in Stage,
         UNCHANGED <<kind, upstream, store, copy, at, mishap>>,
         stage' = [stage EXCEPT ![s] = p], stage[s] # "put", p = "verify" => kind = "payload",
         p = "list" => ~Whole, p = "delete" => stage[s] = "list",
         kind \in {"snapshot", "payload", "package"} /\ Clean /\ p = "commit"
           => Whole /\ OneRevision
  PROVE  ContentInv'
  <1>1. copy[s] \in Content /\ copy' = [copy EXCEPT ![s] = copy[s]] /\ at[s] = 1
    BY DEF BInv, BShape, PutShape
  <1>2. (kind # "unmix" => copy[s] # "short") /\ (kind # "snapshot" => copy[s] # "new")
    BY DEF ContentInv, CopiesChecked, OldOnly
  <1> QED
    BY <1>1, <1>2, ContentMoveKeeps

\* Attempts that end.
LEMMA ContentStopKeeps ==
  ASSUME BInv, ContentInv, NEW s \in Stager, NEW p \in {"idle", "due", "done"},
         UNCHANGED <<kind, upstream, store>>, mishap \subseteq mishap',
         stage' = [stage EXCEPT ![s] = p], Cleanup(s)
  PROVE  ContentInv'
  BY ContentMoveKeeps DEF Cleanup, Content, Stage, BInv, BShape

\* Every step keeps what is known of the contents.
LEMMA ContentStep == BInv /\ Alone /\ ContentInv /\ [Next]_vars => ContentInv'
  <1> SUFFICES ASSUME BInv, Alone, ContentInv, [Next]_vars PROVE ContentInv'
    OBVIOUS
  <1>a. kind \in Kind /\ upstream \in {"old", "new"} /\ Loop \in Stager
    BY DEF BInv, BShape, Stager
  <1>b. ASSUME NEW s \in Stager, Abandon(s), stage[s] # "put",
               UNCHANGED <<kind, upstream, store, copy, at, mishap>>
        PROVE  ContentInv'
    <2>1. PICK p \in {"idle", "done"} : stage' = [stage EXCEPT ![s] = p]
      BY <1>b DEF Abandon, Goto
    <2> QED
      BY <1>b, <2>1, ContentWalkKeeps DEF Stage
  <1>1. ASSUME NEW s \in Stager, Begin(s) PROVE ContentInv'
    <2>1. /\ copy[s] \in Content /\ copy' = [copy EXCEPT ![s] = copy[s]] /\ at[s] = 1
          /\ UNCHANGED <<kind, upstream, store, at>> /\ mishap \subseteq mishap'
          /\ stage' = [stage EXCEPT ![s] = "look"]
      BY <1>1 DEF Begin, Goto, BInv, BShape, PutShape
    <2>2. (kind # "unmix" => copy[s] # "short") /\ (kind # "snapshot" => copy[s] # "new")
      BY DEF ContentInv, CopiesChecked, OldOnly
    <2> QED
      BY <2>1, <2>2, ContentMoveKeeps DEF Stage
  <1>2. ASSUME NEW s \in Stager, Look(s) PROVE ContentInv'
    <2>1. stage[s] = "look" /\ UNCHANGED <<kind, upstream, store, copy, at, mishap>>
      BY <1>2 DEF Look
    <2>2. CASE ~Abandon(s)
      <3>1. PICK p \in {"head", "announce", "download", "commit"} :
              stage' = [stage EXCEPT ![s] = p] /\ (p = "commit" => kind = "package")
        <4>1. PICK present \in BOOLEAN :
                Goto(s, CASE kind \in {"mt3", "unmix"} -> "head"
                       [] kind \notin {"mt3", "unmix"} /\ present -> "announce"
                       [] kind = "snapshot" /\ ~present -> "head"
                       [] kind = "payload" /\ ~present -> "download"
                       [] kind = "package" /\ ~present -> "commit")
          BY <1>2, <2>2 DEF Look
        <4>2. CASE kind \in {"mt3", "unmix"}
          BY <4>1, <4>2 DEF Goto
        <4>3. CASE kind \notin {"mt3", "unmix"} /\ present
          BY <4>1, <4>3 DEF Goto
        <4>4. CASE kind = "snapshot" /\ ~present
          BY <4>1, <4>4 DEF Goto
        <4>5. CASE kind = "payload" /\ ~present
          BY <4>1, <4>5 DEF Goto
        <4>6. CASE kind = "package" /\ ~present
          BY <4>1, <4>6 DEF Goto
        <4> QED
          BY <1>a, <4>2, <4>3, <4>4, <4>5, <4>6 DEF Kind
      <3>2. kind = "package" => Whole /\ OneRevision
        BY BootstrapAssumption, OldIsOne DEF Whole, Parts, Kind, ContentInv
      <3> QED
        BY <2>1, <3>1, <3>2, ContentWalkKeeps DEF Stage
    <2> QED
      BY <1>b, <2>1, <2>2
  <1>3. ASSUME NEW s \in Stager, HeadSentinel(s) PROVE ContentInv'
    <2>1. stage[s] = "head" /\ UNCHANGED <<kind, upstream, store, copy, at, mishap>>
      BY <1>3 DEF HeadSentinel
    <2>2. PICK p \in {"validate", "commit", "download"} :
            stage' = [stage EXCEPT ![s] = p] /\ (p = "commit" => Sentinel)
      BY <1>3 DEF HeadSentinel, Goto
    <2>3. kind \in {"snapshot", "payload", "package"} /\ Clean /\ p = "commit"
            => Whole /\ OneRevision
      BY <2>2 DEF ContentInv, ReadyToVouch
    <2> QED
      BY <2>1, <2>2, <2>3, ContentWalkKeeps DEF Stage
  <1>4. ASSUME NEW s \in Stager, Validate(s) PROVE ContentInv'
    <2>1. /\ stage[s] = "validate" /\ kind = "mt3"
          /\ UNCHANGED <<kind, upstream, store, copy, at, mishap>>
      BY <1>4 DEF Validate, BInv, RepairIsMt3
    <2>2. PICK p \in {"list", "commit"} :
            stage' = [stage EXCEPT ![s] = p] /\ (p = "list" => ~Whole)
      BY <1>4 DEF Validate, Goto
    <2> QED
      BY <2>1, <2>2, ContentWalkKeeps DEF Stage
  <1>5. ASSUME NEW s \in Stager, ListDoomed(s) PROVE ContentInv'
    BY <1>5, ContentWalkKeeps DEF ListDoomed, Goto, Stage
  <1>6. ASSUME NEW s \in Stager, Download(s) PROVE ContentInv'
    <2>1. stage[s] = "download" /\ UNCHANGED <<kind, upstream, store, at, mishap>> /\ at[s] = 1
      BY <1>6 DEF Download, BInv, PutShape
    <2>2. CASE Abandon(s) /\ UNCHANGED copy
      BY <1>b, <2>1, <2>2
    <2>3. CASE Goto(s, "put")
      <3>1. PICK c \in Content : /\ copy' = [copy EXCEPT ![s] = c]
                                 /\ c = upstream \/ (kind = "unmix" /\ c = "short")
        BY <1>6, <1>a, <2>1, <2>3 DEF Download, Unchecked, Content, Abandon, Goto, BInv, BShape
      <3>2. (kind # "unmix" => c # "short") /\ (kind # "snapshot" => c # "new")
        BY <1>a, <3>1 DEF ContentInv, OldOnly
      <3> QED
        BY <2>1, <2>3, <3>1, <3>2, ContentMoveKeeps DEF Goto, Stage
    <2> QED
      BY <1>6, <2>2, <2>3 DEF Download
  <1>7. ASSUME NEW s \in Stager, Verify(s) PROVE ContentInv'
    <2>1. /\ stage[s] = "verify" /\ kind = "payload"
          /\ UNCHANGED <<kind, upstream, store, copy, at, mishap>>
      BY <1>7 DEF Verify, ContentInv, VerifiesPayload
    <2>2. CASE Abandon(s)
      BY <1>b, <2>1, <2>2
    <2>3. CASE Whole /\ Goto(s, "commit")
      BY <2>1, <2>3, OldIsOne, ContentWalkKeeps DEF Stage, Goto, ContentInv
    <2> QED
      BY <1>7, <2>2, <2>3 DEF Verify
  <1>8. ASSUME NEW s \in Stager, Commit(s) PROVE ContentInv'
    <2>1. stage[s] = "commit" /\ UNCHANGED <<kind, upstream, copy, at, mishap>>
      BY <1>8 DEF Commit
    <2>2. CASE UNCHANGED store /\ Abandon(s)
      BY <1>b, <2>1, <2>2
    <2>3. CASE store' = [store EXCEPT ![Ready] = "old"] /\ Goto(s, "announce")
      BY <2>1, <2>3, ContentCommitKeeps DEF Goto
    <2> QED
      BY <1>8, <2>2, <2>3 DEF Commit
  <1>9. ASSUME NEW s \in Stager, Announce(s) PROVE ContentInv'
    <2>1. stage[s] = "announce" /\ UNCHANGED <<kind, upstream, store, copy, at, mishap>>
      BY <1>9 DEF Announce
    <2>2. PICK p \in {"ack", "done", "idle"} : stage' = [stage EXCEPT ![s] = p]
      BY <1>9 DEF Announce, Abandon, Goto
    <2> QED
      BY <2>1, <2>2, ContentWalkKeeps DEF Stage
  <1>10. CASE Ack
    BY <1>a, <1>10, ContentWalkKeeps DEF Ack, Goto, Stage
  <1>11. ASSUME NEW s \in Stager, CallFails(s) \/ Crash(s) PROVE ContentInv'
    <2>1. /\ UNCHANGED <<kind, upstream, store>> /\ mishap \subseteq mishap' /\ Cleanup(s)
          /\ \E p \in {"idle", "due", "done"} : stage' = [stage EXCEPT ![s] = p]
      BY <1>11 DEF CallFails, Crash, Abandon, Goto
    <2> QED
      BY <2>1, ContentStopKeeps
  <1>12. CASE Republish
    BY <1>12, ContentQuietKeeps DEF Republish
  <1>13. ASSUME NEW e \in Engine, Execute(e) PROVE ContentInv'
    <2>1. UNCHANGED <<kind, store, stagerVars, upstream>> /\ mishap \subseteq mishap'
      BY <1>13 DEF Execute, List, Fetch, RequestBootstrap, AwaitReady, WaitExpires, NextRequest
    <2> QED
      BY <2>1, ContentQuietKeeps
  <1>14. CASE UNCHANGED vars
    BY <1>14, ContentQuietKeeps DEF vars
  <1> QED
    BY <1>1, <1>2, <1>3, <1>4, <1>5, <1>6, <1>7, <1>8, <1>9, <1>10, <1>11, <1>12, <1>13, <1>14,
       ContentDeleteKeeps, ContentPutKeeps DEF Next, Attempt

\* What is known of the contents, throughout.
LEMMA ContentHolds == Spec => [](BInv /\ Alone /\ ContentInv)
  BY ContentInitInv, AloneStep, ContentStep, BootstrapInv, PTL DEF Spec

\* A payload or a snapshot under a sentinel is not truncated, unless attempts
\* overlapped or wrote over a published prefix.
THEOREM SentinelIsWhole == Spec => []SentinelMeansWhole
  <1>1. BInv /\ ContentInv => SentinelMeansWhole
    <2> SUFFICES ASSUME BInv, ContentInv, Sentinel, kind \notin {"mt3", "unmix"}, Clean PROVE Whole
      BY DEF SentinelMeansWhole, Clean
    <2>1. kind \in {"snapshot", "payload", "package"} /\ Loop \in Stager
      BY DEF BInv, BShape, Kind, Stager
    <2> QED
      BY <2>1 DEF ContentInv, ReadyToVouch
  <1> QED
    BY <1>1, ContentHolds, PTL

\* A good copy survives every attempt that runs alone: no failed read is taken
\* for corruption, and what is written over it is as good.
THEOREM GoodCopiesSurvive == Spec => GoodCopySurvives
  <1>1. ASSUME BInv, Alone, ContentInv, [Next]_vars, Sentinel, Whole, "overlap" \notin mishap
        PROVE  Sentinel' /\ Complete' /\ (kind \in {"mt3", "snapshot"} => Whole')
    <2>a. /\ kind' = kind /\ Parts' = Parts /\ kind \in Kind /\ store \in [Key -> Content]
          /\ Parts \subseteq Key /\ Ready \in Key /\ Ready \notin Parts
      BY <1>1, StageMoves, PartsAreKeys DEF Parts, BInv, BShape, Key
    <2>1. CASE UNCHANGED store
      BY <1>1, <2>1, <2>a DEF Sentinel, Whole, Complete
    <2>2. ASSUME NEW s \in Stager, Delete(s) PROVE FALSE
      BY <1>1, <2>2 DEF Delete, ContentInv, RepairIsDue
    <2>3. ASSUME NEW s \in Stager, Put(s)
          PROVE  Sentinel' /\ Complete' /\ (kind \in {"mt3", "snapshot"} => Whole')
      <3>1. PICK c \in {"short", "old", "new"} :
              /\ store' = [store EXCEPT ![Layout[kind][at[s]]] = c]
              /\ kind # "payload" => c = copy[s]
        BY <1>1, <2>3, PutWrites
      <3>2. Layout[kind][at[s]] \in Parts
        BY <1>1, <2>3, PutWrites
      <3>3. kind \in {"mt3", "snapshot"} => c # "short"
        BY <1>1, <3>1 DEF ContentInv, CopiesChecked
      <3> QED
        BY <1>1, <2>a, <3>1, <3>2, <3>3 DEF Sentinel, Whole, Complete
    <2>4. ASSUME NEW s \in Stager, Commit(s)
          PROVE  Sentinel' /\ Complete' /\ (kind \in {"mt3", "snapshot"} => Whole')
      BY <1>1, <2>a, <2>4 DEF Commit, Sentinel, Whole, Complete
    <2> QED
      BY <1>1, <2>1, <2>2, <2>3, <2>4, StoreMoves
  <1>2. BInv /\ Alone /\ ContentInv /\ [Next]_vars =>
          [Sentinel /\ Whole /\ "overlap" \notin mishap
             => Sentinel' /\ Complete' /\ (kind \in {"mt3", "snapshot"} => Whole')]_vars
    BY <1>1
  <1> QED
    BY <1>2, ContentHolds, PTL DEF Spec, GoodCopySurvives

-----------------------------------------------------------------------------
\* What an engine has fetched of a snapshot is what the prefix still holds,
\* and until it fetches it has nothing.
LoadsExact ==
  \A e \in Engine :
    IF run[e] \in {"fetch", "served"}
      THEN kind = "snapshot" /\ Clean =>
             Sentinel /\ \A o \in Object : got[e][o] \in {store[o], "none"}
      ELSE \A o \in Object : got[e][o] = "none"

LoadsOld == kind # "snapshot" => \A e \in Engine : \A o \in Object : got[e][o] # "new"

\* A stager that leaves its marks where it must leaves those loads exact.
LEMMA StagersKeepLoads ==
  ASSUME BInv, EInv, ContentInv, LoadsExact, LoadsOld, [Next]_vars, UNCHANGED engineVars
  PROVE  LoadsExact' /\ LoadsOld'
  <1>a. /\ kind' = kind /\ mishap \subseteq mishap' /\ store \in [Key -> Content]
        /\ UNCHANGED <<run, got>>
    BY StageMoves DEF BInv, BShape, engineVars
  <1>b. Clean' => Clean
    BY <1>a DEF Clean
  <1>1. LoadsOld'
    BY <1>a DEF LoadsOld
  <1>2. ASSUME kind = "snapshot", Clean', Sentinel
        PROVE  Sentinel' /\ \A o \in Object : store'[o] = store[o]
    <2>1. ASSUME NEW s \in Stager, Delete(s) PROVE FALSE
      BY <1>2, <2>1 DEF Delete, BInv, RepairIsMt3
    <2>2. ASSUME NEW s \in Stager, Put(s) PROVE FALSE
      BY <1>2, <2>2 DEF Put, Clean
    <2>3. ASSUME NEW s \in Stager, Commit(s)
          PROVE  Sentinel' /\ \A o \in Object : store'[o] = store[o]
      BY <1>a, <1>2, <2>3, BootstrapAssumption DEF Commit, Sentinel, Key
    <2> QED
      BY <1>2, <2>1, <2>2, <2>3, StoreMoves DEF Sentinel
  <1>3. LoadsExact'
    BY <1>a, <1>b, <1>2 DEF LoadsExact
  <1> QED
    BY <1>1, <1>3

\* Every step does.
LEMMA LoadsStep ==
  BInv /\ EInv /\ ContentInv /\ LoadsExact /\ LoadsOld /\ [Next]_vars => LoadsExact' /\ LoadsOld'
  <1> SUFFICES ASSUME BInv, EInv, ContentInv, LoadsExact, LoadsOld, [Next]_vars
               PROVE  LoadsExact' /\ LoadsOld'
    OBVIOUS
  <1>a. run \in [Engine -> EngineStage] /\ got \in [Engine -> [Key -> Content]]
    BY DEF EInv
  <1>1. CASE UNCHANGED engineVars
    BY <1>1, StagersKeepLoads
  <1>2. ASSUME NEW e \in Engine, Execute(e) PROVE LoadsExact' /\ LoadsOld'
    <2>a. UNCHANGED <<kind, store>> /\ mishap \subseteq mishap'
      BY <1>2 DEF Execute, List, Fetch, RequestBootstrap, AwaitReady, WaitExpires, NextRequest
    <2>b. (Clean' => Clean) /\ Sentinel' = Sentinel
      BY <2>a DEF Clean, Sentinel
    <2>1. CASE List(e)
      <3>1. UNCHANGED got /\ run[e] = "idle"
        BY <2>1 DEF List
      <3>2. \E p \in {"fetch", "failed", "miss"} :
              run' = [run EXCEPT ![e] = p] /\ (p = "fetch" => Sentinel)
        BY <2>1 DEF List, Proceed
      <3> QED
        BY <1>a, <2>a, <2>b, <3>1, <3>2 DEF LoadsExact, LoadsOld
    <2>2. CASE Fetch(e)
      <3>a. run[e] = "fetch"
        BY <2>2 DEF Fetch
      <3>1. CASE wanted[e] = {}
        <4>1. run' = [run EXCEPT ![e] = "served"] /\ UNCHANGED got
          BY <2>2, <3>1 DEF Fetch, Proceed
        <4> QED
          BY <1>a, <2>a, <2>b, <3>a, <4>1 DEF LoadsExact, LoadsOld
      <3>2. CASE wanted[e] # {}
        <4>1. PICK o \in wanted[e] :
                IF store[o] = "none"
                  THEN /\ Proceed(e, "failed")
                       /\ got' = [got EXCEPT ![e] = Prefix({}, "none")]
                  ELSE /\ got' = [got EXCEPT ![e][o] = store[o]]
                       /\ UNCHANGED run
          BY <2>2, <3>2 DEF Fetch
        <4>2. o \in Object /\ Object \subseteq Key
          BY DEF EInv, Key
        <4>3. CASE store[o] = "none"
          <5>1. /\ run' = [run EXCEPT ![e] = "failed"]
                /\ got' = [got EXCEPT ![e] = [k \in Key |-> "none"]]
            BY <4>1, <4>3 DEF Proceed, Prefix
          <5> QED
            BY <1>a, <2>a, <2>b, <4>2, <5>1 DEF LoadsExact, LoadsOld
        <4>4. CASE store[o] # "none"
          <5>1. run' = run /\ got' = [got EXCEPT ![e] = [got[e] EXCEPT ![o] = store[o]]]
            BY <4>1, <4>4
          <5>2. kind # "snapshot" => store[o] # "new"
            BY <4>2 DEF ContentInv, OldOnly
          <5>3. /\ \A f \in Engine \ {e} : got'[f] = got[f]
                /\ \A q \in Object : got'[e][q] = IF q = o THEN store[o] ELSE got[e][q]
            BY <1>a, <4>2, <5>1
          <5>4. LoadsOld'
            BY <2>a, <5>2, <5>3 DEF LoadsOld
          <5>5. LoadsExact'
            <6> SUFFICES ASSUME NEW f \in Engine
                         PROVE  IF run[f] \in {"fetch", "served"}
                                  THEN kind = "snapshot" /\ Clean =>
                                         Sentinel /\ \A q \in Object : got'[f][q] \in {store[q], "none"}
                                  ELSE \A q \in Object : got'[f][q] = "none"
              BY <2>a, <2>b, <5>1 DEF LoadsExact
            <6>1. CASE f # e
              BY <5>3, <6>1 DEF LoadsExact
            <6>2. CASE f = e
              BY <3>a, <5>3, <6>2 DEF LoadsExact
            <6> QED
              BY <6>1, <6>2
          <5> QED
            BY <5>4, <5>5
        <4> QED
          BY <4>3, <4>4
      <3> QED
        BY <3>1, <3>2
    <2>3. CASE RequestBootstrap(e) \/ AwaitReady(e) \/ WaitExpires(e) \/ NextRequest(e)
      <3>1. /\ UNCHANGED got /\ run[e] \in {"miss", "wait", "failed"}
            /\ \E p \in {"wait", "idle", "failed"} : run' = [run EXCEPT ![e] = p]
        BY <2>3 DEF RequestBootstrap, AwaitReady, WaitExpires, NextRequest, Proceed
      <3> QED
        BY <1>a, <2>a, <2>b, <3>1 DEF LoadsExact, LoadsOld
    <2> QED
      BY <1>2, <2>1, <2>2, <2>3 DEF Execute
  <1>3. ASSUME NEW s \in Stager, Attempt(s) \/ CallFails(s) \/ Crash(s) PROVE UNCHANGED engineVars
    BY <1>3 DEF Attempt, Begin, Look, HeadSentinel, Validate, ListDoomed, Delete, Download, Put,
       Verify, Commit, Announce, CallFails, Crash
  <1>4. Ack \/ Republish \/ UNCHANGED vars => UNCHANGED engineVars
    BY DEF Ack, Republish, vars
  <1> QED
    BY <1>1, <1>2, <1>3, <1>4 DEF Next

\* Whatever is staged and republished while an engine loads, what it loads is
\* of one revision, unless attempts overlapped or wrote over a published
\* prefix.
THEOREM ServesOne == Spec => []ServesOneRevision
  <1>1. Init => LoadsExact /\ LoadsOld
    BY DEF Init, LoadsExact, LoadsOld, Prefix, Key
  <1>2. ASSUME BInv, EInv, ContentInv, LoadsExact, LoadsOld PROVE ServesOneRevision
    <2> SUFFICES ASSUME NEW e \in Engine, run[e] = "served", Clean
                 PROVE  \E r \in {"old", "new"} : \A o \in Object : got[e][o] \in {r, "short", "none"}
      BY DEF ServesOneRevision, Clean
    <2>1. CASE kind = "snapshot"
      <3>1. Sentinel /\ \A o \in Object : got[e][o] \in {store[o], "none"}
        BY <1>2, <2>1 DEF LoadsExact
      <3>2. OneRevision
        BY <1>2, <2>1, <3>1 DEF ContentInv, ReadyToVouch, Stager
      <3> QED
        BY <3>1, <3>2 DEF OneRevision
    <2>2. CASE kind # "snapshot"
      <3>1. \A o \in Object : got[e][o] \in Content /\ got[e][o] # "new"
        BY <1>2, <2>2 DEF LoadsOld, EInv, Key
      <3> QED
        BY <3>1 DEF Content
    <2> QED
      BY <2>1, <2>2
  <1> QED
    BY <1>1, <1>2, EngineHolds, LoadsStep, ContentHolds, PTL DEF Spec

-----------------------------------------------------------------------------
(* The type.  Requests are counted down only by the loop, which holds one. *)

LoopHolds == Busy(Loop) => requests > 0

CountersOK ==
  /\ requests \in 0 .. MaxRequests /\ announced \in BOOLEAN /\ refused \in BOOLEAN
  /\ second \in [Engine -> BOOLEAN] /\ faults \in 0 .. MaxFaults
  /\ mishap \subseteq {"overlap", "cut", "overwrite", "glimpse"}
  /\ LoopHolds

\* Every step counts within the bounds.
LEMMA CountersStep == BInv /\ CountersOK /\ [Next]_vars => CountersOK'
  <1> SUFFICES ASSUME BInv, CountersOK, [Next]_vars PROVE CountersOK'
    OBVIOUS
  <1>a. /\ stage \in [Stager -> Stage] /\ Loop \in Stager /\ kind \in Kind
        /\ MaxRequests \in Nat /\ MaxFaults \in Nat
    BY BootstrapAssumption DEF BInv, BShape, Stager
  <1>b. faults' \in 0 .. MaxFaults
    <2>1. ASSUME NEW s \in Stager, Attempt(s) \/ CallFails(s) \/ Crash(s)
          PROVE  Fault \/ NoFault
      BY <2>1 DEF Attempt, Begin, Look, HeadSentinel, Validate, ListDoomed, Delete, Download, Put,
         Verify, Commit, Announce, CallFails, Crash, NoFault
    <2>2. ASSUME NEW e \in Engine, Execute(e) PROVE Fault \/ NoFault
      BY <2>2 DEF Execute, List, Fetch, RequestBootstrap, AwaitReady, WaitExpires, NextRequest,
         NoFault
    <2>3. Ack \/ Republish \/ UNCHANGED vars => NoFault
      BY DEF Ack, Republish, vars, NoFault
    <2> QED
      BY <1>a, <2>1, <2>2, <2>3 DEF Next, Fault, NoFault, CountersOK
  <1>1. ASSUME NEW s \in Stager, Begin(s) PROVE CountersOK'
    BY <1>a, <1>b, <1>1 DEF Begin, Goto, CountersOK, LoopHolds, Busy, topicVars, engineVars
  <1>2. ASSUME NEW s \in Stager, Busy(s), NEW p \in Stage, stage' = [stage EXCEPT ![s] = p],
               UNCHANGED <<requests, refused, second>>, announced' \in BOOLEAN,
               mishap' \subseteq {"overlap", "cut", "overwrite", "glimpse"}
        PROVE  CountersOK'
    BY <1>a, <1>b, <1>2 DEF CountersOK, LoopHolds, Busy
  <1>3. ASSUME UNCHANGED <<stage, announced, refused>>, requests' = requests \/ requests' = requests + 1,
               requests' <= MaxRequests, second' \in [Engine -> BOOLEAN],
               mishap' \subseteq {"overlap", "cut", "overwrite", "glimpse"}
        PROVE  CountersOK'
    BY <1>a, <1>b, <1>3 DEF CountersOK, LoopHolds, Busy
  <1>4. ASSUME NEW s \in Stager, Look(s) \/ HeadSentinel(s) \/ Validate(s) \/ ListDoomed(s)
        PROVE  CountersOK'
    <2>1. /\ Busy(s) /\ UNCHANGED <<topicVars, engineVars, mishap>>
      BY <1>4 DEF Look, HeadSentinel, Validate, ListDoomed, Busy
    <2>2. \E p \in Stage : stage' = [stage EXCEPT ![s] = p]
      <3>1. CASE Look(s)
        BY <1>a, <3>1 DEF Look, Goto, Abandon, Stage, Kind
      <3>2. CASE HeadSentinel(s) \/ Validate(s) \/ ListDoomed(s)
        BY <3>2 DEF HeadSentinel, Validate, ListDoomed, Goto, Stage
      <3> QED
        BY <1>4, <3>1, <3>2
    <2> QED
      BY <1>2, <2>1, <2>2 DEF CountersOK, topicVars, engineVars
  <1>5. ASSUME NEW s \in Stager, Verify(s) \/ Commit(s) \/ Announce(s) \/ CallFails(s)
        PROVE  CountersOK'
    <2>1. /\ Busy(s) /\ UNCHANGED <<requests, refused, second>> /\ announced' \in BOOLEAN
          /\ mishap' \subseteq mishap \cup {"cut"}
      BY <1>5 DEF Verify, Commit, Announce, CallFails, Busy, CountersOK, topicVars, engineVars
    <2>2. \E p \in Stage : stage' = [stage EXCEPT ![s] = p]
      BY <1>5 DEF Verify, Commit, Announce, CallFails, Goto, Abandon, Stage
    <2> QED
      BY <1>2, <2>1, <2>2 DEF CountersOK
  <1>6. ASSUME NEW s \in Stager, Delete(s) \/ Put(s) PROVE CountersOK'
    <2>1. /\ UNCHANGED <<requests, refused, announced, second>> /\ Busy(s)
          /\ mishap' \subseteq mishap \cup {"cut", "overwrite"}
      BY <1>6 DEF Delete, Put, topicVars, engineVars, Busy
    <2>2. UNCHANGED stage \/ \E p \in Stage : stage' = [stage EXCEPT ![s] = p]
      BY <1>6 DEF Delete, Put, Goto, Stage
    <2> QED
      BY <1>2, <1>3, <2>1, <2>2 DEF CountersOK
  <1>7. ASSUME NEW s \in Stager, Download(s) PROVE CountersOK'
    <2>1. stage[s] = "download" /\ UNCHANGED <<announced, second, mishap>> /\ refused' \in BOOLEAN
      BY <1>7 DEF Download, CountersOK, engineVars
    <2>2. requests' = requests \/ (Abandon(s) /\ requests' = IF s = Loop THEN requests - 1 ELSE requests)
      BY <1>7 DEF Download
    <2>3. \E p \in Stage : stage' = [stage EXCEPT ![s] = p]
      BY <1>7 DEF Download, Goto, Abandon, Stage
    <2> QED
      BY <1>a, <1>b, <2>1, <2>2, <2>3 DEF CountersOK, LoopHolds, Busy, Abandon, Goto
  <1>8. CASE Ack
    BY <1>a, <1>b, <1>8 DEF Ack, Goto, CountersOK, LoopHolds, Busy, engineVars
  <1>9. ASSUME NEW s \in Stager, Crash(s) PROVE CountersOK'
    BY <1>a, <1>b, <1>9 DEF Crash, Goto, CountersOK, LoopHolds, Busy, topicVars, engineVars
  <1>10. ASSUME NEW e \in Engine, Execute(e) PROVE CountersOK'
    <2>1. /\ UNCHANGED <<stage, announced, refused>>
          /\ requests' = requests \/ (requests < MaxRequests /\ requests' = requests + 1)
          /\ second' \in [Engine -> BOOLEAN] /\ mishap' \subseteq mishap \cup {"glimpse"}
      BY <1>10 DEF Execute, List, Fetch, RequestBootstrap, AwaitReady, WaitExpires, NextRequest,
         CountersOK, topicVars, stagerVars
    <2> QED
      BY <1>3, <1>a, <2>1 DEF CountersOK
  <1>11. CASE Republish \/ UNCHANGED vars
    <2>1. UNCHANGED <<stage, topicVars, second, mishap>>
      BY <1>11 DEF Republish, vars, stagerVars, engineVars
    <2> QED
      BY <1>3, <2>1 DEF CountersOK, topicVars
  <1> QED
    BY <1>1, <1>4, <1>5, <1>6, <1>7, <1>8, <1>9, <1>10, <1>11 DEF Next, Attempt

\* The staging procedure and the engines stay within their types.
THEOREM BootstrapTypeCorrect == Spec => []BTypeOK
  <1>1. ASSUME Init PROVE CountersOK
    <2>1. stage[Loop] = "idle" /\ requests = 0 /\ faults = 0 /\ mishap = {}
      BY <1>1 DEF Init, Stager
    <2>2. announced \in BOOLEAN /\ refused \in BOOLEAN /\ second \in [Engine -> BOOLEAN]
      BY <1>1 DEF Init
    <2> QED
      BY <2>1, <2>2, BootstrapAssumption DEF CountersOK, LoopHolds, Busy
  <1>2. BInv /\ EInv /\ CountersOK => BTypeOK
    BY DEF BInv, BShape, Stage, EInv, EngineStage, CountersOK, BTypeOK
  <1> QED
    BY <1>1, <1>2, CountersStep, EngineHolds, BootstrapInv, PTL DEF Spec
=============================================================================
