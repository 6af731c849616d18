---------------------------- MODULE Drafts_proofs ----------------------------
(***************************************************************************)
(* The sessions of a user show the same drafts, for any contexts, texts    *)
(* and sessions.                                                           *)
(*                                                                         *)
(* The argument: what the fold of the topic says of a context is the text  *)
(* of its last event.  A reader that starts over may show, of a context it *)
(* has not come to yet, what it showed before; but only if the topic has   *)
(* an event of that context, and that event is still ahead of the reader.  *)
(***************************************************************************)
EXTENDS Drafts, WellFoundedInduction, TLAPS

\* The last of the first n events that is about a context: one or none.
Latest(events, c, n) ==
  {j \in 1 .. n : /\ events[j].context = c
                  /\ \A i \in j + 1 .. n : events[i].context # c}

The(S) == CHOOSE j \in S : TRUE

\* What the first n events say of a context.
Says(events, c, n) ==
  IF Latest(events, c, n) = {} THEN NoDraft
  ELSE events[The(Latest(events, c, n))].text

SaysAll(events, n) == [c \in Context |-> Says(events, c, n)]

\* One more event is the latest of its context, and of no other.
LEMMA LatestNext ==
  ASSUME NEW events \in Seq(DraftEvent), NEW n \in Nat, n < Len(events), NEW c \in Context
  PROVE  Latest(events, c, n + 1)
           = IF events[n + 1].context = c THEN {n + 1} ELSE Latest(events, c, n)
  <1>1. CASE events[n + 1].context = c
    BY <1>1 DEF Latest
  <1>2. CASE events[n + 1].context # c
    <2>1. \A j \in 1 .. n + 1 : j # n + 1 => j \in 1 .. n
      OBVIOUS
    <2>2. \A j \in 1 .. n : \A i : i \in j + 1 .. n + 1 <=> i \in j + 1 .. n \/ i = n + 1
      OBVIOUS
    <2>3. \A j \in 1 .. n : j \in 1 .. n + 1
      OBVIOUS
    <2>4. \A j : j \in Latest(events, c, n + 1) <=> j \in Latest(events, c, n)
      BY <1>2, <2>1, <2>2, <2>3 DEF Latest
    <2> QED
      BY <1>2, <2>4
  <1> QED
    BY <1>1, <1>2

\* Applying one more event changes what its context shows, and no other.
LEMMA SaysNext ==
  ASSUME NEW events \in Seq(DraftEvent), NEW n \in Nat, n < Len(events)
  PROVE  SaysAll(events, n + 1) = ApplyDraftEvent(SaysAll(events, n), events[n + 1])
  <1> DEFINE e == events[n + 1]
  <1>1. e \in DraftEvent
    OBVIOUS
  <1>2. ASSUME NEW c \in Context
        PROVE  Says(events, c, n + 1) = IF c = e.context THEN e.text ELSE Says(events, c, n)
    <2>1. CASE e.context = c
      <3>1. Latest(events, c, n + 1) = {n + 1}
        BY <2>1, LatestNext
      <3>2. The({n + 1}) = n + 1
        BY DEF The
      <3> QED
        BY <2>1, <3>1, <3>2 DEF Says
    <2>2. CASE e.context # c
      BY <2>2, LatestNext DEF Says
    <2> QED
      BY <2>1, <2>2
  <1> QED
    BY <1>1, <1>2 DEF SaysAll, ApplyDraftEvent, DraftEvent

\* A context that has an event has a last one.
LEMMA LatestLater ==
  ASSUME NEW events, NEW c, NEW m \in Nat, NEW n \in Nat, m <= n, Latest(events, c, m) # {}
  PROVE  Latest(events, c, n) # {}
  <1> DEFINE R == OpToRel(<, Nat)
             Back == {k \in Nat : k < n /\ events[n - k].context = c}
  <1>1. Back # {}
    <2>1. PICK j \in 1 .. m : events[j].context = c
      BY DEF Latest
    <2>2. n - j \in Nat /\ n - j < n /\ n - (n - j) = j
      BY <2>1
    <2> QED
      BY <2>1, <2>2
  <1>2. PICK k \in Back : \A i \in Back : ~ (<<i, k>> \in R)
    <2>1. IsWellFoundedOn(R, Nat)
      BY NatLessThanWellFounded
    <2>2. Back \subseteq Nat
      OBVIOUS
    <2> HIDE DEF R, Back
    <2> QED
      BY <1>1, <2>1, <2>2, WFMin
  <1>3. \A i \in Back : ~ (i < k)
    BY <1>2 DEF OpToRel
  <1> HIDE DEF R
  <1>a. k \in Nat /\ k < n /\ events[n - k].context = c
    OBVIOUS
  <1>4. n - k \in 1 .. n /\ events[n - k].context = c
    BY <1>a
  <1>5. ASSUME NEW i \in (n - k) + 1 .. n, events[i].context = c PROVE FALSE
    <2>1. n - i \in Nat /\ n - i < k /\ n - i < n /\ n - (n - i) = i
      BY <1>a
    <2> QED
      BY <1>3, <1>5, <2>1
  <1> QED
    BY <1>4, <1>5 DEF Latest

\* The first events of a topic say the same when the topic grows.
LEMMA LatestOfGrown ==
  ASSUME NEW events \in Seq(DraftEvent), NEW e \in DraftEvent, NEW n \in 0 .. Len(events),
         NEW c \in Context
  PROVE  /\ Latest(Append(events, e), c, n) = Latest(events, c, n)
         /\ Says(Append(events, e), c, n) = Says(events, c, n)
  <1>1. \A j \in 1 .. n : Append(events, e)[j] = events[j]
    OBVIOUS
  <1>2. Latest(Append(events, e), c, n) = Latest(events, c, n)
    BY <1>1 DEF Latest
  <1> QED
    <2> DEFINE L == Latest(events, c, n)
    <2>1. CASE L = {}
      BY <1>2, <2>1 DEF Says
    <2>2. CASE L # {}
      <3>1. The(L) \in 1 .. n
        BY <2>2 DEF The, Latest
      <3> HIDE DEF L
      <3> QED
        BY <1>1, <1>2, <2>2, <3>1 DEF Says, L
    <2> QED
      BY <2>1, <2>2

\* The fold of a topic is what its events say, context by context.
LEMMA FoldSays ==
  ASSUME NEW events \in Seq(DraftEvent)
  PROVE  FoldDraftEvents(events) = SaysAll(events, Len(events))
  <1> DEFINE I == 0 .. Len(events)
             Body(f) == [i \in I |-> IF i = 0 THEN EmptyDrafts
                                     ELSE ApplyDraftEvent(f[i - 1], events[i])]
             said == [i \in I |-> SaysAll(events, i)]
             fold == CHOOSE f : f = Body(f)
  <1>1. said = Body(said)
    <2> SUFFICES ASSUME NEW i \in I
                 PROVE  SaysAll(events, i)
                          = IF i = 0 THEN EmptyDrafts ELSE ApplyDraftEvent(said[i - 1], events[i])
      OBVIOUS
    <2>1. CASE i = 0
      BY <2>1 DEF SaysAll, Says, Latest, EmptyDrafts
    <2>2. CASE i # 0
      <3>1. i - 1 \in Nat /\ i - 1 < Len(events) /\ (i - 1) + 1 = i /\ i - 1 \in I
        BY <2>2
      <3>2. SaysAll(events, i) = ApplyDraftEvent(SaysAll(events, i - 1), events[i])
        BY <3>1, SaysNext
      <3> QED
        BY <2>2, <3>1, <3>2
    <2> QED
      BY <2>1, <2>2
  <1>2. fold = Body(fold)
    BY <1>1
  <1>3. FoldDraftEvents(events) = fold[Len(events)]
    BY DEF FoldDraftEvents
  <1> HIDE DEF fold
  <1>4. /\ fold[0] = EmptyDrafts
        /\ \A i \in I : i # 0 => fold[i] = ApplyDraftEvent(fold[i - 1], events[i])
    <2>1. \A i \in I : Body(fold)[i] = IF i = 0 THEN EmptyDrafts
                                       ELSE ApplyDraftEvent(fold[i - 1], events[i])
      OBVIOUS
    <2>2. 0 \in I
      OBVIOUS
    <2> HIDE DEF Body, I
    <2> QED
      BY <1>2, <2>1, <2>2
  <1>5. ASSUME NEW n \in I, fold[n] # said[n] PROVE FALSE
    <2> DEFINE R == OpToRel(<, Nat)
               Bad == {i \in I : fold[i] # said[i]}
    <2>1. PICK i \in Bad : \A m \in Bad : ~ (<<m, i>> \in R)
      <3>1. IsWellFoundedOn(R, Nat)
        BY NatLessThanWellFounded
      <3>2. Bad \subseteq Nat /\ Bad # {}
        BY <1>5
      <3> HIDE DEF R, Bad
      <3> QED
        BY <3>1, <3>2, WFMin
    <2>2. i \in I /\ fold[i] # said[i] /\ i # 0
      BY <1>1, <1>4, <2>1
    <2>3. i - 1 \in I /\ fold[i - 1] = said[i - 1]
      <3>1. i - 1 \in I /\ i - 1 \in Nat /\ i \in Nat /\ i - 1 < i
        BY <2>2
      <3>2. <<i - 1, i>> \in R
        BY <3>1 DEF OpToRel
      <3> QED
        BY <2>1, <3>1, <3>2
    <2>4. said[i] = ApplyDraftEvent(said[i - 1], events[i])
      BY <1>1, <2>2
    <2> QED
      BY <1>4, <2>2, <2>3, <2>4
  <1>6. Len(events) \in I
    OBVIOUS
  <1> QED
    BY <1>3, <1>5, <1>6

-----------------------------------------------------------------------------
(* Compaction.                                                             *)

\* What one more message adds to the compacted topic.
Keeping(events, kept, i) ==
  IF IsLast(events, i) THEN Append(kept, events[i]) ELSE kept

KeepBody(events, n, f) ==
  [i \in 0 .. n |-> IF i = 0 THEN <<>> ELSE Keeping(events, f[i - 1], i)]

\* The definition of the compacted topic by recursion defines something.
LEMMA KeepExists ==
  ASSUME NEW events, NEW n \in Nat
  PROVE  \E f : f = KeepBody(events, n, f)
  <1> DEFINE R == OpToRel(<, Nat)
             Bad == {m \in Nat : ~ \E f : f = KeepBody(events, m, f)}
  <1> SUFFICES ASSUME Bad # {} PROVE FALSE
    OBVIOUS
  <1>1. PICK m \in Bad : \A k \in Bad : ~ (<<k, m>> \in R)
    <2>1. IsWellFoundedOn(R, Nat)
      BY NatLessThanWellFounded
    <2>2. Bad \subseteq Nat
      OBVIOUS
    <2> HIDE DEF R, Bad
    <2> QED
      BY <2>1, <2>2, WFMin
  <1>2. m \in Nat /\ ~ \E f : f = KeepBody(events, m, f)
    OBVIOUS
  <1>3. m # 0
    <2> SUFFICES ASSUME m = 0 PROVE FALSE
      OBVIOUS
    <2> DEFINE g == [i \in 0 .. 0 |-> <<>>]
    <2>1. g = KeepBody(events, 0, g)
      BY DEF KeepBody
    <2> QED
      BY <1>2, <2>1
  <1>4. m - 1 \in Nat /\ m - 1 < m
    BY <1>2, <1>3
  <1>5. PICK f : f = KeepBody(events, m - 1, f)
    <2>1. <<m - 1, m>> \in R
      BY <1>2, <1>4 DEF OpToRel
    <2> QED
      BY <1>1, <1>4, <2>1
  <1> DEFINE g == [i \in 0 .. m |-> IF i < m THEN f[i] ELSE Keeping(events, f[m - 1], m)]
  <1> HIDE DEF R, Bad
  <1>6. \A i \in 0 .. m - 1 : f[i] = IF i = 0 THEN <<>> ELSE Keeping(events, f[i - 1], i)
    BY <1>5 DEF KeepBody
  <1>7. ASSUME NEW i \in 0 .. m
        PROVE  g[i] = IF i = 0 THEN <<>> ELSE Keeping(events, g[i - 1], i)
    <2>1. CASE i = m
      <3>1. m - 1 \in 0 .. m /\ m - 1 < m /\ ~(m < m) /\ i # 0
        BY <1>2, <1>3, <1>4, <2>1
      <3> QED
        BY <2>1, <3>1
    <2>2. CASE i # m
      <3>1. i \in 0 .. m - 1 /\ i < m
        BY <1>2, <2>2
      <3>2. i # 0 => i - 1 \in 0 .. m /\ i - 1 < m
        BY <1>2, <3>1
      <3> QED
        BY <1>6, <3>1, <3>2
    <2> QED
      BY <2>1, <2>2
  <1>8. g = KeepBody(events, m, g)
    <2> HIDE DEF g
    <2>1. g = [i \in 0 .. m |-> g[i]]
      BY DEF g
    <2> QED
      BY <1>7, <2>1 DEF KeepBody
  <1> QED
    BY <1>2, <1>8

\* Appending an event applies it.
LEMMA SaysAppended ==
  ASSUME NEW events \in Seq(DraftEvent), NEW e \in DraftEvent
  PROVE  SaysAll(Append(events, e), Len(events) + 1)
           = ApplyDraftEvent(SaysAll(events, Len(events)), e)
  <1> DEFINE more == Append(events, e)
             n == Len(events)
  <1>1. /\ more \in Seq(DraftEvent) /\ n \in Nat /\ n < Len(more) /\ more[n + 1] = e
        /\ n \in 0 .. Len(events)
    OBVIOUS
  <1>2. SaysAll(more, n + 1) = ApplyDraftEvent(SaysAll(more, n), more[n + 1])
    <2> HIDE DEF more, n
    <2> QED
      BY <1>1, SaysNext
  <1>3. SaysAll(more, n) = SaysAll(events, n)
    BY <1>1, LatestOfGrown DEF SaysAll
  <1> QED
    BY <1>1, <1>2, <1>3

\* The compacted topic holds events, and says of each context what its last
\* event says.
LEMMA CompactedSays ==
  ASSUME NEW events \in Seq(DraftEvent)
  PROVE  /\ Compacted(events) \in Seq(DraftEvent)
         /\ SaysAll(Compacted(events), Len(Compacted(events))) = SaysAll(events, Len(events))
  <1> DEFINE size == Len(events)
             keep == CHOOSE f : f = KeepBody(events, size, f)
  <1>0. size \in Nat
    OBVIOUS
  <1>1. keep = KeepBody(events, size, keep)
    <2> HIDE DEF size
    <2> QED
      BY <1>0, KeepExists
  <1>2. Compacted(events) = keep[size]
    BY DEF Compacted, KeepBody, Keeping
  <1> HIDE DEF keep
  <1>3. /\ keep[0] = <<>>
        /\ \A i \in 1 .. size : keep[i] = Keeping(events, keep[i - 1], i)
    BY <1>0, <1>1 DEF KeepBody
  <1> DEFINE Final(c) == Latest(events, c, size)
             Up(n) == [c \in Context |-> IF Final(c) \cap 1 .. n = {} THEN NoDraft
                                         ELSE events[The(Final(c))].text]
             Good(n) == /\ keep[n] \in Seq(DraftEvent)
                        /\ SaysAll(keep[n], Len(keep[n])) = Up(n)
  <1>4. Good(0)
    BY <1>3 DEF SaysAll, Says, Latest
  <1>5. ASSUME NEW n \in Nat, n < size, Good(n) PROVE Good(n + 1)
    <2> DEFINE e == events[n + 1]
    <2>1. n + 1 \in 1 .. size /\ (n + 1) - 1 = n /\ e \in DraftEvent
      BY <1>0, <1>5
    <2>2. keep[n + 1] = Keeping(events, keep[n], n + 1)
      BY <1>3, <2>1
    <2>3. \A c \in Context : n + 1 \in Final(c) <=> c = e.context /\ IsLast(events, n + 1)
      BY <1>0, <2>1 DEF Latest, IsLast
    <2>4. \A c \in Context : n + 1 \in Final(c) => Final(c) = {n + 1}
      BY <1>0, <2>1 DEF Latest
    <2>5. \A c \in Context : Final(c) \cap 1 .. n + 1
                               = IF n + 1 \in Final(c) THEN (Final(c) \cap 1 .. n) \cup {n + 1}
                                 ELSE Final(c) \cap 1 .. n
      BY <1>5
    <2>6. CASE IsLast(events, n + 1)
      <3>1. keep[n + 1] = Append(keep[n], e)
        BY <2>2, <2>6 DEF Keeping
      <3>2. keep[n + 1] \in Seq(DraftEvent) /\ Len(keep[n + 1]) = Len(keep[n]) + 1
        BY <1>5, <2>1, <3>1
      <3>3. SaysAll(keep[n + 1], Len(keep[n]) + 1) = ApplyDraftEvent(Up(n), e)
        <4> HIDE DEF Up, e
        <4> QED
          BY <1>5, <2>1, <3>1, SaysAppended
      <3>4. ApplyDraftEvent(Up(n), e) = Up(n + 1)
        <4>1. ASSUME NEW c \in Context
              PROVE  (IF c = e.context THEN e.text ELSE Up(n)[c]) = Up(n + 1)[c]
          <5>1. CASE c = e.context
            <6>1. Final(c) = {n + 1} /\ Final(c) \cap 1 .. n + 1 # {}
              BY <2>1, <2>3, <2>4, <2>5, <2>6, <5>1
            <6>2. The({n + 1}) = n + 1
              BY DEF The
            <6> HIDE DEF Final
            <6> QED
              BY <5>1, <6>1, <6>2
          <5>2. CASE c # e.context
            <6>1. Final(c) \cap 1 .. n + 1 = Final(c) \cap 1 .. n
              BY <2>3, <2>5, <5>2
            <6> HIDE DEF Final
            <6> QED
              BY <5>2, <6>1
          <5> QED
            BY <5>1, <5>2
        <4>2. \A m : Up(m) = [c \in Context |-> Up(m)[c]]
          OBVIOUS
        <4>3. ApplyDraftEvent(Up(n), e)
                = [c \in Context |-> IF c = e.context THEN e.text ELSE Up(n)[c]]
          BY <2>1 DEF ApplyDraftEvent, DraftEvent
        <4> HIDE DEF Up
        <4> QED
          BY <4>1, <4>2, <4>3
      <3> HIDE DEF Up
      <3> QED
        BY <3>2, <3>3, <3>4
    <2>7. CASE ~ IsLast(events, n + 1)
      <3>1. keep[n + 1] = keep[n]
        BY <2>2, <2>7 DEF Keeping
      <3>2. Up(n + 1) = Up(n)
        <4>1. \A c \in Context : Final(c) \cap 1 .. n + 1 = Final(c) \cap 1 .. n
          BY <2>3, <2>5, <2>7
        <4> HIDE DEF Final
        <4> QED
          BY <4>1
      <3> HIDE DEF Up
      <3> QED
        BY <1>5, <3>1, <3>2
    <2> QED
      BY <2>6, <2>7
  <1> HIDE DEF Good
  <1>6. Good(size)
    <2> DEFINE R == OpToRel(<, Nat)
               Bad == {n \in 0 .. size : ~ Good(n)}
    <2> SUFFICES ASSUME Bad # {} PROVE FALSE
      BY <1>0
    <2>1. PICK n \in Bad : \A k \in Bad : ~ (<<k, n>> \in R)
      <3>1. IsWellFoundedOn(R, Nat)
        BY NatLessThanWellFounded
      <3>2. Bad \subseteq Nat
        BY <1>0
      <3> HIDE DEF R, Bad
      <3> QED
        BY <3>1, <3>2, WFMin
    <2>2. n \in 0 .. size /\ ~ Good(n) /\ n # 0
      BY <1>4
    <2>3. n - 1 \in Nat /\ n - 1 \in 0 .. size /\ n - 1 < size /\ (n - 1) + 1 = n
      BY <1>0, <2>2
    <2>4. <<n - 1, n>> \in R
      BY <1>0, <2>2, <2>3 DEF OpToRel
    <2>5. Good(n - 1)
      BY <2>1, <2>3, <2>4
    <2> HIDE DEF R, Bad
    <2>6. Good((n - 1) + 1)
      BY <1>5, <2>3, <2>5
    <2> QED
      BY <2>2, <2>3, <2>6
  <1>7. Up(size) = SaysAll(events, size)
    <2>1. \A c \in Context : Final(c) \cap 1 .. size = Final(c)
      BY DEF Latest
    <2> HIDE DEF size
    <2> QED
      BY <2>1 DEF SaysAll, Says
  <1>8. /\ keep[size] \in Seq(DraftEvent)
        /\ SaysAll(keep[size], Len(keep[size])) = SaysAll(events, size)
    <2> HIDE DEF Up, size
    <2> QED
      BY <1>6, <1>7 DEF Good
  <1> HIDE DEF Up, Good, Final
  <1> QED
    BY <1>2, <1>8

-----------------------------------------------------------------------------
(* The inductive invariant.                                                *)

DTypeOK ==
  /\ topic \in Seq(DraftEvent)
  /\ drafts \in [Session -> DraftMap]
  /\ position \in [Session -> Nat] /\ \A s \in Session : position[s] <= Len(topic)

\* Of a context the reader has come to, a session shows what was said up to
\* there; of another it shows nothing, or the topic has still to say.
ShowsWhatIsRead ==
  \A s \in Session, c \in Context :
    IF Latest(topic, c, position[s]) # {}
    THEN drafts[s][c] = Says(topic, c, position[s])
    ELSE drafts[s][c] = NoDraft \/ Latest(topic, c, Len(topic)) # {}

DInv == DTypeOK /\ ShowsWhatIsRead

LEMMA DInvStarts == Init => DInv
  BY DEF Init, DInv, DTypeOK, ShowsWhatIsRead, DraftMap, EmptyDrafts, Latest

\* A reader at the start of the topic has come to nothing.
LEMMA NothingRead ==
  ASSUME NEW events, NEW c
  PROVE  Latest(events, c, 0) = {}
  BY DEF Latest

LEMMA UpdateKeeps ==
  ASSUME DInv, NEW event \in DraftEvent, UpdateDraft(event)
  PROVE  DInv'
  <1>1. CASE UNCHANGED topic
    BY <1>1 DEF UpdateDraft, DInv, DTypeOK, ShowsWhatIsRead
  <1>2. CASE topic' = Append(topic, event)
    <2>1. DTypeOK'
      BY <1>2 DEF UpdateDraft, DInv, DTypeOK
    <2>2. ASSUME NEW s \in Session, NEW c \in Context
          PROVE  /\ position'[s] = position[s] /\ drafts'[s] = drafts[s]
                 /\ Latest(topic', c, position[s]) = Latest(topic, c, position[s])
                 /\ Says(topic', c, position[s]) = Says(topic, c, position[s])
      <3>1. topic \in Seq(DraftEvent) /\ position[s] \in 0 .. Len(topic)
        BY DEF DInv, DTypeOK
      <3> QED
        BY <1>2, <3>1, LatestOfGrown DEF UpdateDraft
    <2>3. ASSUME NEW c \in Context, Latest(topic, c, Len(topic)) # {}
          PROVE  Latest(topic', c, Len(topic')) # {}
      <3>1. /\ topic \in Seq(DraftEvent) /\ topic' \in Seq(DraftEvent)
            /\ Len(topic) \in Nat /\ Len(topic') = Len(topic) + 1
        BY <1>2 DEF DInv, DTypeOK
      <3>2. Latest(topic', c, Len(topic)) # {}
        BY <1>2, <2>3, <3>1, LatestOfGrown
      <3>3. Latest(topic', c, Len(topic) + 1)
              = IF topic'[Len(topic) + 1].context = c THEN {Len(topic) + 1}
                ELSE Latest(topic', c, Len(topic))
        <4>1. Len(topic) < Len(topic')
          BY <3>1
        <4> QED
          BY <3>1, <4>1, LatestNext
      <3> QED
        BY <3>1, <3>2, <3>3
    <2> QED
      <3>1. ASSUME NEW s \in Session, NEW c \in Context
            PROVE  IF Latest(topic', c, position'[s]) # {}
                   THEN drafts'[s][c] = Says(topic', c, position'[s])
                   ELSE drafts'[s][c] = NoDraft \/ Latest(topic', c, Len(topic')) # {}
        BY <2>2, <2>3 DEF DInv, ShowsWhatIsRead
      <3> QED
        BY <2>1, <3>1 DEF DInv, ShowsWhatIsRead
  <1> QED
    BY <1>1, <1>2 DEF UpdateDraft

LEMMA ReadKeeps ==
  ASSUME DInv, NEW r \in Session, ReadDraft(r)
  PROVE  DInv'
  <1> DEFINE n == position[r]
             e == topic[n + 1]
  <1>1. /\ topic' = topic /\ topic \in Seq(DraftEvent) /\ n \in Nat /\ n < Len(topic)
        /\ e \in DraftEvent
    BY DEF ReadDraft, DInv, DTypeOK
  <1>2. position' = [position EXCEPT ![r] = n + 1]
    BY DEF ReadDraft
  <1>3. drafts' = [drafts EXCEPT ![r] = ApplyDraftEvent(drafts[r], e)]
    BY DEF ReadDraft
  <1>4. ApplyDraftEvent(drafts[r], e) \in DraftMap
    BY <1>1 DEF DInv, DTypeOK, DraftMap, ApplyDraftEvent, DraftEvent
  <1>5. DTypeOK'
    BY <1>1, <1>2, <1>3, <1>4 DEF DInv, DTypeOK
  <1>6. ASSUME NEW c \in Context
        PROVE  IF Latest(topic, c, n + 1) # {}
               THEN drafts'[r][c] = Says(topic, c, n + 1)
               ELSE drafts'[r][c] = NoDraft \/ Latest(topic, c, Len(topic)) # {}
    <2>1. Latest(topic, c, n + 1) = IF e.context = c THEN {n + 1} ELSE Latest(topic, c, n)
      BY <1>1, LatestNext
    <2>2. drafts'[r] = ApplyDraftEvent(drafts[r], e) /\ drafts[r] \in DraftMap
      BY <1>3 DEF DInv, DTypeOK
    <2>3. CASE e.context = c
      <3>1. drafts'[r][c] = e.text
        BY <2>2, <2>3 DEF ApplyDraftEvent, DraftMap
      <3>2. Says(topic, c, n + 1) = e.text
        BY <1>1, <2>3, SaysNext DEF SaysAll, ApplyDraftEvent, DraftEvent
      <3> QED
        BY <2>1, <2>3, <3>1, <3>2
    <2>4. CASE e.context # c
      <3>1. drafts'[r][c] = drafts[r][c]
        BY <2>2, <2>4 DEF ApplyDraftEvent, DraftMap
      <3>2. Says(topic, c, n + 1) = Says(topic, c, n)
        BY <2>1, <2>4 DEF Says
      <3> QED
        BY <2>1, <2>4, <3>1, <3>2 DEF DInv, ShowsWhatIsRead
    <2> QED
      BY <2>3, <2>4
  <1>7. ASSUME NEW s \in Session, s # r
        PROVE  position'[s] = position[s] /\ drafts'[s] = drafts[s]
    BY <1>2, <1>3, <1>7 DEF DInv, DTypeOK
  <1>8. position'[r] = n + 1
    BY <1>2 DEF DInv, DTypeOK
  <1>9. ASSUME NEW s \in Session, NEW c \in Context
        PROVE  IF Latest(topic, c, position'[s]) # {}
               THEN drafts'[s][c] = Says(topic, c, position'[s])
               ELSE drafts'[s][c] = NoDraft \/ Latest(topic, c, Len(topic)) # {}
    <2>1. CASE s = r
      BY <1>6, <1>8, <2>1
    <2>2. CASE s # r
      BY <1>7, <2>2 DEF DInv, ShowsWhatIsRead
    <2> QED
      BY <2>1, <2>2
  <1> HIDE DEF n, e
  <1> QED
    BY <1>1, <1>5, <1>9 DEF DInv, ShowsWhatIsRead

\* A reader that starts over keeps what it shows: of every context it shows
\* something of, the topic has an event ahead of it.
LEMMA RestartKeeps ==
  ASSUME DInv, NEW r \in Session, RestartReader(r)
  PROVE  DInv'
  <1>1. position' = [position EXCEPT ![r] = 0] /\ UNCHANGED <<topic, drafts>>
    BY DEF RestartReader
  <1>2. DTypeOK'
    BY <1>1 DEF DInv, DTypeOK
  <1>3. ASSUME NEW c \in Context
        PROVE  drafts[r][c] = NoDraft \/ Latest(topic, c, Len(topic)) # {}
    <2>1. CASE Latest(topic, c, position[r]) = {}
      BY <2>1 DEF DInv, ShowsWhatIsRead
    <2>2. CASE Latest(topic, c, position[r]) # {}
      BY <2>2, LatestLater DEF DInv, DTypeOK
    <2> QED
      BY <2>1, <2>2
  <1>4. \A s \in Session : position'[s] = IF s = r THEN 0 ELSE position[s]
    BY <1>1 DEF DInv, DTypeOK
  <1> QED
    BY <1>1, <1>2, <1>3, <1>4, NothingRead DEF DInv, ShowsWhatIsRead

LEMMA OpenKeeps ==
  ASSUME DInv, NEW r \in Session, OpenSession(r)
  PROVE  DInv'
  <1>1. /\ position' = [position EXCEPT ![r] = 0] /\ UNCHANGED topic
        /\ drafts' = [drafts EXCEPT ![r] = EmptyDrafts]
    BY DEF OpenSession
  <1>2. EmptyDrafts \in DraftMap /\ \A c \in Context : EmptyDrafts[c] = NoDraft
    BY DEF EmptyDrafts, DraftMap
  <1>3. DTypeOK'
    BY <1>1, <1>2 DEF DInv, DTypeOK
  <1>4. \A s \in Session : /\ position'[s] = IF s = r THEN 0 ELSE position[s]
                           /\ drafts'[s] = IF s = r THEN EmptyDrafts ELSE drafts[s]
    BY <1>1 DEF DInv, DTypeOK
  <1> QED
    BY <1>1, <1>2, <1>3, <1>4, NothingRead DEF DInv, ShowsWhatIsRead

LEMMA DInvStep == DInv /\ [Next]_vars => DInv'
  <1> SUFFICES ASSUME DInv, [Next]_vars PROVE DInv'
    OBVIOUS
  <1>1. ASSUME NEW event \in DraftEvent, UpdateDraft(event) PROVE DInv'
    BY <1>1, UpdateKeeps
  <1>2. CASE UNCHANGED <<topic, drafts, position>>
    BY <1>2 DEF DInv, DTypeOK, ShowsWhatIsRead
  <1>3. ASSUME NEW s \in Session, ReadDraft(s) PROVE DInv'
    BY <1>3, ReadKeeps
  <1>4. ASSUME NEW s \in Session, RestartReader(s) PROVE DInv'
    BY <1>4, RestartKeeps
  <1>5. ASSUME NEW s \in Session, OpenSession(s) PROVE DInv'
    BY <1>5, OpenKeeps
  <1> QED
    BY <1>1, <1>2, <1>3, <1>4, <1>5 DEF Next, ForgetProducer, vars

\* A session that has read the whole topic shows what the topic says, however
\* often its reader started over on top of what it showed, and whatever the
\* broker stored of repeated edits.
THEOREM SessionsAlwaysConverge == Spec => []SessionsConverge
  <1>1. DInv => SessionsConverge
    <2> SUFFICES ASSUME DInv, NEW s \in Session, position[s] = Len(topic)
                 PROVE  drafts[s] = SaysAll(topic, Len(topic))
      BY FoldSays DEF SessionsConverge, DInv, DTypeOK
    <2>1. ASSUME NEW c \in Context PROVE drafts[s][c] = Says(topic, c, Len(topic))
      BY DEF DInv, ShowsWhatIsRead, Says
    <2> QED
      BY <2>1 DEF SaysAll, DInv, DTypeOK, DraftMap
  <1> QED
    BY <1>1, DInvStarts, DInvStep, PTL DEF Spec

\* A reader of the compacted topic ends with the same drafts as one of the
\* full topic, whatever was published and whenever the broker compacts.
THEOREM CompactionIsInvisible == Spec => []CompactionInvisible
  <1>1. DInv => CompactionInvisible
    <2> SUFFICES ASSUME topic \in Seq(DraftEvent) PROVE CompactionInvisible
      BY DEF DInv, DTypeOK
    <2> QED
      BY CompactedSays, FoldSays DEF CompactionInvisible
  <1> QED
    BY <1>1, DInvStarts, DInvStep, PTL DEF Spec
=============================================================================
