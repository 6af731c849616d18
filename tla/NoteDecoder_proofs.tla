-------------------------- MODULE NoteDecoder_proofs --------------------------
(***************************************************************************)
(* What the note decoder finds, for any activations, tolerance and note    *)
(* length.                                                                 *)
(*                                                                         *)
(* The argument: a note leaves silence behind at its pitch, longer than    *)
(* the tolerance, so no later scan gets past it; and a scan that touches a *)
(* run of loud frames covers all of it, because nothing in the run is      *)
(* silent before a note of that pitch has been heard there.                *)
(***************************************************************************)
EXTENDS NoteDecoder, WellFoundedInduction, TLAPS

-----------------------------------------------------------------------------
(* Least and greatest members.                                             *)

\* A set of natural numbers has a least member.
LEMMA LeastOfNats ==
  ASSUME NEW T \in SUBSET Nat, T # {}
  PROVE  \E n \in T : \A m \in T : n <= m
  <1> DEFINE R == OpToRel(<, Nat)
  <1>1. IsWellFoundedOn(R, Nat)
    BY NatLessThanWellFounded
  <1>2. \A m, n \in Nat : <<m, n>> \in R <=> m < n
    BY DEF OpToRel
  <1> HIDE DEF R
  <1>3. PICK n \in T : \A m \in T : ~ (<<m, n>> \in R)
    BY <1>1, WFMin
  <1>4. \A m \in T : ~ (m < n)
    BY <1>2, <1>3
  <1> QED
    BY <1>4

\* Min finds the least member of a set of integers bounded below.
LEMMA MinIsLeast ==
  ASSUME NEW lo \in Int, NEW S \in SUBSET Int, S # {}, \A x \in S : lo <= x
  PROVE  Min(S) \in S /\ \A x \in S : Min(S) <= x
  <1> DEFINE T == {n \in Nat : lo + n \in S}
  <1>1. T # {}
    <2>1. PICK x \in S : TRUE
      OBVIOUS
    <2>2. x - lo \in Nat /\ lo + (x - lo) = x
      BY <2>1
    <2> QED
      BY <2>1, <2>2
  <1>2. PICK n \in T : \A m \in T : n <= m
    BY <1>1, LeastOfNats
  <1>3. lo + n \in S /\ \A x \in S : lo + n <= x
    <2> SUFFICES ASSUME NEW x \in S PROVE lo + n <= x
      BY <1>2
    <2>1. x - lo \in Nat /\ lo + (x - lo) = x
      OBVIOUS
    <2>2. n <= x - lo
      BY <1>2, <2>1
    <2> QED
      BY <1>2, <2>2
  <1> QED
    BY <1>3 DEF Min

\* Max finds the greatest member of a set of integers bounded above.
LEMMA MaxIsGreatest ==
  ASSUME NEW hi \in Int, NEW S \in SUBSET Int, S # {}, \A x \in S : x <= hi
  PROVE  Max(S) \in S /\ \A x \in S : Max(S) >= x
  <1> DEFINE T == {n \in Nat : hi - n \in S}
  <1>1. T # {}
    <2>1. PICK x \in S : TRUE
      OBVIOUS
    <2>2. hi - x \in Nat /\ hi - (hi - x) = x
      BY <2>1
    <2> QED
      BY <2>1, <2>2
  <1>2. PICK n \in T : \A m \in T : n <= m
    BY <1>1, LeastOfNats
  <1>3. hi - n \in S /\ \A x \in S : hi - n >= x
    <2> SUFFICES ASSUME NEW x \in S PROVE hi - n >= x
      BY <1>2
    <2>1. hi - x \in Nat /\ hi - (hi - x) = x
      OBVIOUS
    <2>2. n <= hi - x
      BY <1>2, <2>1
    <2> QED
      BY <1>2, <2>2
  <1> QED
    BY <1>3 DEF Max

-----------------------------------------------------------------------------
(* The scans.                                                              *)

\* A scan forward stops at the last frame or after enough quiet frames, and
\* takes back the quiet frames it ended with.
LEMMA ScanAfter ==
  ASSUME NEW p, NEW s \in 0 .. N - 1
  PROVE  /\ StopAfter(s, p) \in s + 1 .. N
         /\ \/ StopAfter(s, p) >= N - 1
            \/ Quiet(p, StopAfter(s, p) - EnergyTol, StopAfter(s, p) - 1)
         /\ \A i \in s + 1 .. N :
              i >= N - 1 \/ (i - EnergyTol > s /\ Quiet(p, i - EnergyTol, i - 1))
                => StopAfter(s, p) <= i
         /\ SoundsUntil(s, p) \in s + 1 .. StopAfter(s, p)
         /\ Quiet(p, SoundsUntil(s, p), StopAfter(s, p) - 1)
         /\ \A e \in s + 1 .. StopAfter(s, p) :
              Quiet(p, e, StopAfter(s, p) - 1) => SoundsUntil(s, p) <= e
  <1> DEFINE A == {i \in s + 1 .. N : \/ i >= N - 1
                                      \/ i - EnergyTol > s /\ Quiet(p, i - EnergyTol, i - 1)}
             stop == StopAfter(s, p)
             U == {e \in s + 1 .. stop : Quiet(p, e, stop - 1)}
  <1>0. N \in Nat \ {0} /\ EnergyTol \in Nat \ {0} /\ s + 1 \in Int
    BY DecoderAssumption
  <1>1. N \in A /\ A \in SUBSET Int /\ \A i \in A : s + 1 <= i
    BY <1>0
  <1>2. stop = Min(A)
    BY DEF StopAfter
  <1>3. stop \in A /\ \A i \in A : stop <= i
    <2> HIDE DEF A, stop
    <2> QED
      BY <1>0, <1>1, <1>2, MinIsLeast
  <1> HIDE DEF stop
  <1>4. stop \in s + 1 .. N /\ stop \in Int
    BY <1>3
  <1>5. stop \in U /\ U \in SUBSET Int /\ \A e \in U : s + 1 <= e
    BY <1>4 DEF Quiet
  <1>6. SoundsUntil(s, p) = Min(U)
    BY DEF SoundsUntil, stop
  <1>7. SoundsUntil(s, p) \in U /\ \A e \in U : SoundsUntil(s, p) <= e
    <2> HIDE DEF U
    <2> QED
      BY <1>0, <1>5, <1>6, MinIsLeast
  <1> QED
    BY <1>3, <1>4, <1>7 DEF stop

\* A scan backward stops at the first frame or after enough quiet frames, and
\* takes back the quiet frames it ended with.
LEMMA ScanBefore ==
  ASSUME NEW p, NEW s \in 0 .. N - 1
  PROVE  /\ StopBefore(s, p) \in -1 .. s - 1
         /\ \/ StopBefore(s, p) <= 0
            \/ Quiet(p, StopBefore(s, p) + 1, StopBefore(s, p) + EnergyTol)
         /\ \A i \in -1 .. s - 1 :
              i <= 0 \/ (i + EnergyTol < s /\ Quiet(p, i + 1, i + EnergyTol))
                => StopBefore(s, p) >= i
         /\ SoundsFrom(s, p) \in StopBefore(s, p) + 1 .. s
         /\ Quiet(p, StopBefore(s, p) + 1, SoundsFrom(s, p) - 1)
         /\ \A b \in StopBefore(s, p) + 1 .. s :
              Quiet(p, StopBefore(s, p) + 1, b - 1) => SoundsFrom(s, p) >= b
  <1> DEFINE A == {i \in -1 .. s - 1 : \/ i <= 0
                                       \/ i + EnergyTol < s /\ Quiet(p, i + 1, i + EnergyTol)}
             stop == StopBefore(s, p)
             U == {b \in stop + 1 .. s : Quiet(p, stop + 1, b - 1)}
  <1>0. N \in Nat \ {0} /\ EnergyTol \in Nat \ {0} /\ s \in Int /\ s - 1 \in Int
    BY DecoderAssumption
  <1>1. -1 \in A /\ A \in SUBSET Int /\ \A i \in A : i <= s - 1
    BY <1>0
  <1>2. stop = Max(A)
    BY DEF StopBefore
  <1>3. stop \in A /\ \A i \in A : stop >= i
    <2> HIDE DEF A, stop
    <2> QED
      BY <1>0, <1>1, <1>2, MaxIsGreatest
  <1> HIDE DEF stop
  <1>4. stop \in -1 .. s - 1 /\ stop \in Int
    BY <1>3
  <1>5. stop + 1 \in U /\ U \in SUBSET Int /\ \A b \in U : b <= s
    BY <1>4 DEF Quiet
  <1>6. SoundsFrom(s, p) = Max(U)
    BY DEF SoundsFrom, stop
  <1>7. SoundsFrom(s, p) \in U /\ \A b \in U : SoundsFrom(s, p) >= b
    <2> HIDE DEF U
    <2> QED
      BY <1>0, <1>5, <1>6, MaxIsGreatest
  <1> QED
    BY <1>3, <1>4, <1>7 DEF stop

\* A scan forward ends before silence as long as the tolerance.
LEMMA SilenceAfter ==
  ASSUME NEW p, NEW s \in 0 .. N - 1, NEW b \in 0 .. N - 1, NEW e \in 0 .. N - 1,
         s < b, e - b >= EnergyTol, Quiet(p, b, e - 1)
  PROVE  SoundsUntil(s, p) <= b
  <1>0. N \in Nat \ {0} /\ EnergyTol \in Nat \ {0}
    BY DecoderAssumption
  <1> DEFINE stop == StopAfter(s, p)
  <1>1. stop \in s + 1 .. N
    BY ScanAfter
  <1>2. stop <= b + EnergyTol
    <2>1. b + EnergyTol \in s + 1 .. N /\ (b + EnergyTol) - EnergyTol = b
      BY <1>0
    <2>2. Quiet(p, b, (b + EnergyTol) - 1)
      BY <1>0 DEF Quiet
    <2> QED
      BY <2>1, <2>2, ScanAfter
  <1>3. SoundsUntil(s, p) \in s + 1 .. stop
    BY ScanAfter
  <1>4. CASE stop <= b
    BY <1>1, <1>3, <1>4
  <1>5. CASE stop > b
    <2>1. b \in s + 1 .. stop
      BY <1>1, <1>5
    <2>2. Quiet(p, b, stop - 1)
      BY <1>0, <1>1, <1>2 DEF Quiet
    <2> QED
      BY <2>1, <2>2, ScanAfter
  <1> QED
    BY <1>1, <1>4, <1>5

\* A scan backward ends after silence as long as the tolerance.
LEMMA SilenceBefore ==
  ASSUME NEW p, NEW s \in 0 .. N - 1, NEW b \in 0 .. N - 1, NEW e \in 0 .. N - 1,
         e <= s, e - b >= EnergyTol, Quiet(p, b, e - 1)
  PROVE  SoundsFrom(s, p) >= e
  <1>0. N \in Nat \ {0} /\ EnergyTol \in Nat \ {0}
    BY DecoderAssumption
  <1> DEFINE stop == StopBefore(s, p)
             i == e - 1 - EnergyTol
  <1>1. stop \in -1 .. s - 1
    BY ScanBefore
  <1>2. stop >= i
    <2>1. i \in -1 .. s - 1 /\ i + EnergyTol < s /\ i + EnergyTol = e - 1
      BY <1>0
    <2>2. Quiet(p, i + 1, i + EnergyTol)
      BY <1>0 DEF Quiet
    <2> HIDE DEF i
    <2> QED
      BY <2>1, <2>2, ScanBefore
  <1>3. SoundsFrom(s, p) \in stop + 1 .. s
    BY ScanBefore
  <1>4. CASE stop + 1 >= e
    BY <1>1, <1>3, <1>4
  <1>5. CASE stop + 1 < e
    <2>1. e \in stop + 1 .. s
      BY <1>1, <1>5
    <2>2. Quiet(p, stop + 1, e - 1)
      BY <1>0, <1>1, <1>2 DEF Quiet
    <2> QED
      BY <2>1, <2>2, ScanBefore
  <1> QED
    BY <1>1, <1>4, <1>5

\* A scan forward that gets into a run of frames goes on past its end.
LEMMA RunAfter ==
  ASSUME NEW p, NEW s \in 0 .. N - 1, NEW from \in 1 .. N - 2, NEW to \in 1 .. N - 2,
         \A i \in from .. to : <<i, p>> \in remaining, from <= to, s <= to,
         StopAfter(s, p) > from
  PROVE  SoundsUntil(s, p) > to
  <1>0. N \in Nat \ {0} /\ EnergyTol \in Nat \ {0}
    BY DecoderAssumption
  <1> DEFINE stop == StopAfter(s, p)
             until == SoundsUntil(s, p)
  <1>1. stop \in s + 1 .. N /\ until \in s + 1 .. stop
    BY ScanAfter
  <1>2. stop > to
    <2>1. CASE Quiet(p, stop - EnergyTol, stop - 1)
      <3>1. <<stop - 1, p>> \notin remaining
        BY <1>0, <1>1, <2>1 DEF Quiet
      <3> QED
        BY <1>0, <1>1, <3>1
    <2>2. CASE stop >= N - 1
      BY <1>0, <1>1, <2>2
    <2> QED
      BY <2>1, <2>2, ScanAfter
  <1>3. ASSUME until <= to PROVE FALSE
    <2>1. Quiet(p, until, stop - 1)
      BY ScanAfter
    <2> HIDE DEF stop, until
    <2>2. to \in until .. stop - 1 /\ to \in from .. to
      BY <1>0, <1>1, <1>2, <1>3
    <2> QED
      BY <2>1, <2>2 DEF Quiet
  <1> QED
    BY <1>0, <1>1, <1>3

\* A scan backward that gets into a run of frames goes on past its start.
LEMMA RunBefore ==
  ASSUME NEW p, NEW s \in 0 .. N - 1, NEW from \in 1 .. N - 2, NEW to \in 1 .. N - 2,
         \A i \in from .. to : <<i, p>> \in remaining, from <= to, from <= s,
         StopBefore(s, p) < to
  PROVE  SoundsFrom(s, p) <= from
  <1>0. N \in Nat \ {0} /\ EnergyTol \in Nat \ {0}
    BY DecoderAssumption
  <1> DEFINE stop == StopBefore(s, p)
             start == SoundsFrom(s, p)
  <1>1. stop \in -1 .. s - 1 /\ start \in stop + 1 .. s
    BY ScanBefore
  <1>2. stop + 1 <= from
    <2>1. CASE Quiet(p, stop + 1, stop + EnergyTol)
      <3>1. <<stop + 1, p>> \notin remaining
        BY <1>0, <1>1, <2>1 DEF Quiet
      <3> QED
        BY <1>0, <1>1, <3>1
    <2>2. CASE stop <= 0
      BY <1>0, <1>1, <2>2
    <2> QED
      BY <2>1, <2>2, ScanBefore
  <1>3. ASSUME start > from PROVE FALSE
    <2>1. Quiet(p, stop + 1, start - 1)
      BY ScanBefore
    <2> HIDE DEF stop, start
    <2>2. from \in stop + 1 .. start - 1 /\ from \in from .. to
      BY <1>0, <1>1, <1>2, <1>3
    <2> QED
      BY <2>1, <2>2 DEF Quiet
  <1> QED
    BY <1>0, <1>1, <1>3

-----------------------------------------------------------------------------
(* The notes.                                                              *)

\* A note leaves silence behind.
LeftSilent == \A n \in notes : Quiet(n.pitch, n.start, n.end - 1)

\* The onsets that are left come before the notes there are.
LatestFirst ==
  \A n \in notes, a \in onsets : a[1] < n.start \/ (a[1] = n.start /\ a[2] < n.pitch)

\* A pass is over when there is nothing left for it.
PassesOver ==
  /\ stage # "onsets" => onsets = {}
  /\ stage \in {"written", "failed"} => remaining = {}

NInv ==
  /\ loud \subseteq Cell /\ onsets \subseteq (1 .. N - 2) \X Pitch
  /\ PassesOver /\ NTypeOK /\ LeftSilent /\ LatestFirst /\ NotesDisjoint

\* Erasing makes nothing loud again.
LEMMA QuietStays ==
  ASSUME NEW p, NEW from, NEW to, remaining' \subseteq remaining, Quiet(p, from, to)
  PROVE  Quiet(p, from, to)'
  BY DEF Quiet

\* A note whose frames are erased and that lies clear of those there are.
LEMMA NoteFits ==
  ASSUME NInv, remaining' \subseteq remaining, onsets' \subseteq onsets, NEW x \in Note,
         x.end - x.start > MinNoteLen, notes' = notes \cup {x}, UNCHANGED <<loud, stage>>,
         \A i \in x.start .. x.end - 1 : <<i, x.pitch>> \notin remaining',
         \A a \in onsets' : a[1] < x.start \/ (a[1] = x.start /\ a[2] < x.pitch),
         \A b \in notes : b.pitch = x.pitch => b.end <= x.start \/ x.end <= b.start
  PROVE  NInv'
  <1>1. NTypeOK'
    BY DEF NInv, NTypeOK
  <1>2. LeftSilent'
    <2> SUFFICES ASSUME NEW n \in notes' PROVE Quiet(n.pitch, n.start, n.end - 1)'
      BY DEF LeftSilent
    <2>1. CASE n = x
      BY <2>1 DEF Quiet
    <2>2. CASE n \in notes
      BY <2>2, QuietStays DEF NInv, LeftSilent
    <2> QED
      BY <2>1, <2>2
  <1>3. LatestFirst'
    BY DEF NInv, LatestFirst
  <1>4. NotesDisjoint'
    BY DEF NInv, NotesDisjoint
  <1>5. PassesOver'
    BY DEF NInv, PassesOver
  <1> QED
    BY <1>1, <1>2, <1>3, <1>4, <1>5 DEF NInv

\* Erasing by itself disturbs no note.
LEMMA ErasingFits ==
  ASSUME NInv, remaining' \subseteq remaining, onsets' \subseteq onsets, UNCHANGED <<loud, notes>>,
         stage' \in {"onsets", "rest", "written", "failed"}, PassesOver'
  PROVE  NInv'
  <1>1. NTypeOK'
    BY DEF NInv, NTypeOK
  <1>2. LeftSilent'
    BY QuietStays DEF NInv, LeftSilent
  <1>3. LatestFirst' /\ NotesDisjoint'
    BY DEF NInv, LatestFirst, NotesDisjoint
  <1> QED
    BY <1>1, <1>2, <1>3 DEF NInv

\* Notes that are there are long enough to stop a scan.
LEMMA NotesAreSilent ==
  ASSUME NInv, NEW n \in notes
  PROVE  /\ n.start \in 0 .. N - 1 /\ n.end \in 0 .. N - 1 /\ n.pitch \in Pitch
         /\ n.end - n.start >= EnergyTol /\ Quiet(n.pitch, n.start, n.end - 1)
  BY DecoderAssumption DEF NInv, NTypeOK, Note, LeftSilent

\* The latest onset is visited.
LEMMA OnsetFits ==
  ASSUME NInv, NEW a \in Cell, VisitOnset(a)
  PROVE  NInv'
  <1> DEFINE s == a[1]
             p == a[2]
             end == SoundsUntil(s, p)
             x == [start |-> s, end |-> end, pitch |-> p]
  <1>0. N \in Nat \ {0} /\ s \in 1 .. N - 2 /\ p \in Pitch
    BY DecoderAssumption DEF VisitOnset, NInv
  <1>1. CASE end - s > MinNoteLen
    <2>1. /\ notes' = notes \cup {x} /\ remaining' = remaining \ Band(p, s .. end - 1)
          /\ onsets' = onsets \ {a} /\ UNCHANGED <<loud, stage>> /\ stage = "onsets" /\ IsNext(a)
          /\ a \in onsets
      BY <1>1 DEF VisitOnset
    <2>2. StopAfter(s, p) \in s + 1 .. N - 1
      <3>1. N - 1 \in s + 1 .. N /\ s \in 0 .. N - 1
        BY <1>0
      <3> QED
        BY <1>0, <3>1, ScanAfter
    <2>3. end \in s + 1 .. N - 1
      <3>1. s \in 0 .. N - 1
        BY <1>0
      <3> QED
        BY <1>0, <2>2, <3>1, ScanAfter
    <2>4. x \in Note /\ x.start = s /\ x.end = end /\ x.pitch = p
      BY <1>0, <2>3 DEF Note
    <2>5. \A i \in x.start .. x.end - 1 : <<i, x.pitch>> \notin remaining'
      BY <2>1, <2>4 DEF Band
    <2>6. \A b \in onsets' : b[1] < x.start \/ (b[1] = x.start /\ b[2] < x.pitch)
      BY <2>1, <2>4 DEF IsNext
    <2>7. ASSUME NEW b \in notes, b.pitch = p PROVE end <= b.start
      <3>1. s < b.start
        BY <1>0, <2>1, <2>7, NotesAreSilent DEF NInv, LatestFirst, Pitch
      <3> QED
        BY <1>0, <2>7, <3>1, NotesAreSilent, SilenceAfter
    <2> HIDE DEF end, s, p, x
    <2> QED
      BY <1>1, <2>1, <2>4, <2>5, <2>6, <2>7, NoteFits
  <1>2. CASE ~(end - s > MinNoteLen)
    BY <1>2, ErasingFits DEF VisitOnset, NInv, NTypeOK, PassesOver
  <1> QED
    BY <1>1, <1>2

\* A strongest cell is taken.
LEMMA StrongestFits ==
  ASSUME NInv, NEW c \in Cell, TakeStrongest(c)
  PROVE  NInv'
  <1> DEFINE s == c[1]
             p == c[2]
             start == SoundsFrom(s, p)
             end == SoundsUntil(s, p) - 1
             x == [start |-> start, end |-> end, pitch |-> p]
             gone == {c} \cup Band(p, StopBefore(s, p) + 1 .. s - 1)
                         \cup Band(p, s + 1 .. StopAfter(s, p) - 1)
  <1>0. N \in Nat \ {0} /\ s \in 0 .. N - 1 /\ p \in Pitch /\ c = <<s, p>>
    BY DecoderAssumption DEF Cell
  <1>a. remaining' = remaining \ gone /\ UNCHANGED <<loud, onsets, stage>> /\ c \in remaining
    BY DEF TakeStrongest
  <1>1. CASE end - start > MinNoteLen
    <2>1. notes' = notes \cup {x}
      BY <1>1 DEF TakeStrongest
    <2>2. /\ StopBefore(s, p) \in -1 .. s - 1 /\ start \in StopBefore(s, p) + 1 .. s
          /\ StopAfter(s, p) \in s + 1 .. N /\ end \in s .. StopAfter(s, p) - 1
      <3>1. SoundsUntil(s, p) \in s + 1 .. StopAfter(s, p) /\ StopAfter(s, p) \in s + 1 .. N
        BY <1>0, ScanAfter
      <3>2. StopBefore(s, p) \in -1 .. s - 1 /\ start \in StopBefore(s, p) + 1 .. s
        BY <1>0, ScanBefore
      <3> QED
        BY <1>0, <3>1, <3>2
    <2>3. x \in Note /\ x.start = start /\ x.end = end /\ x.pitch = p
      <3>1. start \in 0 .. N - 1 /\ end \in 0 .. N - 1
        BY <1>0, <2>2
      <3> QED
        BY <1>0, <3>1 DEF Note
    <2>4. \A i \in x.start .. x.end - 1 : <<i, x.pitch>> \notin remaining'
      <3> SUFFICES ASSUME NEW i \in start .. end - 1 PROVE <<i, p>> \in gone
        BY <1>a, <2>3
      <3> HIDE DEF start, end
      <3>1. \/ i = s \/ i \in StopBefore(s, p) + 1 .. s - 1
            \/ i \in s + 1 .. StopAfter(s, p) - 1
        BY <1>0, <2>2
      <3> QED
        BY <1>0, <3>1 DEF Band
    <2>5. ASSUME NEW b \in notes, b.pitch = p PROVE b.end <= start \/ end <= b.start
      <3>1. ~(b.start <= s /\ s < b.end)
        BY <1>0, <1>a, <2>5, NotesAreSilent DEF Quiet
      <3>2. CASE s < b.start
        <4>1. SoundsUntil(s, p) <= b.start
          BY <1>0, <2>5, <3>2, NotesAreSilent, SilenceAfter
        <4>2. end <= SoundsUntil(s, p) /\ SoundsUntil(s, p) \in Int /\ end \in Int
          <5>1. SoundsUntil(s, p) \in s + 1 .. StopAfter(s, p)
            BY <1>0, ScanAfter
          <5> QED
            BY <1>0, <2>2, <5>1
        <4>3. b.start \in Int
          BY NotesAreSilent
        <4> HIDE DEF end, start, s, p, x, gone
        <4> QED
          BY <4>1, <4>2, <4>3
      <3>3. CASE b.end <= s
        BY <1>0, <2>5, <3>3, NotesAreSilent, SilenceBefore
      <3>4. s \in Int /\ b.start \in Int /\ b.end \in Int
        BY <1>0, NotesAreSilent
      <3> HIDE DEF end, start, s, p, x, gone
      <3> QED
        BY <3>1, <3>2, <3>3, <3>4
    <2>6. \A a \in onsets' : a[1] < x.start \/ (a[1] = x.start /\ a[2] < x.pitch)
      BY <1>a DEF TakeStrongest, NInv, PassesOver
    <2> HIDE DEF end, start, s, p, x, gone
    <2> QED
      BY <1>1, <1>a, <2>1, <2>3, <2>4, <2>5, <2>6, NoteFits
  <1>2. CASE ~(end - start > MinNoteLen)
    <2> HIDE DEF end, start, s, p, x, gone
    <2>1. PassesOver'
      BY <1>a DEF NInv, PassesOver
    <2>2. UNCHANGED notes
      BY <1>2 DEF TakeStrongest, end, start, s, p
    <2> QED
      BY <1>a, <2>1, <2>2, ErasingFits DEF NInv, NTypeOK
  <1> QED
    BY <1>1, <1>2

LEMMA NInvStep == NInv /\ [Next]_vars => NInv'
  <1> SUFFICES ASSUME NInv, [Next]_vars PROVE NInv'
    OBVIOUS
  <1>1. ASSUME NEW a \in Cell, VisitOnset(a) PROVE NInv'
    BY <1>1, OnsetFits
  <1>2. ASSUME NEW a \in Cell, TakeStrongest(a) PROVE NInv'
    BY <1>2, StrongestFits
  <1>3. CASE TurnToRest
    BY <1>3, ErasingFits DEF TurnToRest, PassesOver
  <1>4. CASE Finish
    BY <1>4, ErasingFits DEF Finish, PassesOver, NInv
  <1>5. CASE UNCHANGED vars
    BY <1>5, ErasingFits DEF vars, PassesOver, NInv, NTypeOK
  <1> QED
    BY <1>1, <1>2, <1>3, <1>4, <1>5 DEF Next

LEMMA NInvStarts == Init => NInv
  <1> SUFFICES ASSUME Init PROVE NInv
    OBVIOUS
  <1>1. onsets \subseteq (1 .. N - 2) \X Pitch
    BY DEF Init
  <1> QED
    BY <1>1 DEF Init, NInv, PassesOver, NTypeOK, LeftSilent, LatestFirst, NotesDisjoint

\* What holds of the notes in every state.
LEMMA NInvHolds == Spec => []NInv
  BY NInvStarts, NInvStep, PTL DEF Spec

\* The notes lie in the frames and are longer than the minimum; nothing is
\* left that was never loud.
THEOREM DecoderTypeCorrect == Spec => []NTypeOK
  <1>1. NInv => NTypeOK
    BY DEF NInv
  <1> QED
    BY <1>1, NInvHolds, PTL

\* Two notes of one pitch never overlap, whichever pass of the decoder found
\* them and however loud the cells were: the scan of one stops in the cells
\* the other erased.
THEOREM NotesNeverOverlap == Spec => []NotesDisjoint
  <1>1. NInv => NotesDisjoint
    BY DEF NInv
  <1> QED
    BY <1>1, NInvHolds, PTL

\* The written track switches each pitch on and off in turn, so that no voice
\* is left sounding or is cut by the end of another note.
THEOREM TrackIsPlayable == Spec => []TrackAlternates
  <1>1. NInv => TrackAlternates
    <2> SUFFICES ASSUME NInv, NEW p \in Pitch
                 PROVE  LET mine == {m \in Message : m.pitch = p}
                        IN /\ \A a \in mine : (\A b \in mine : ~ Before(b, a)) => a.on = 1
                           /\ \A a \in mine : (\A b \in mine : ~ Before(a, b)) => a.on = 0
                           /\ \A a, b \in mine :
                                /\ Before(a, b)
                                /\ \A c \in mine : ~ (Before(a, c) /\ Before(c, b))
                                => a.on # b.on
      BY DEF TrackAlternates
    <2> DEFINE mine == {m \in Message : m.pitch = p}
               On(n) == [tick |-> n.start, on |-> 1, pitch |-> n.pitch]
               Off(n) == [tick |-> n.end, on |-> 0, pitch |-> n.pitch]
    <2>1. ASSUME NEW m \in mine
          PROVE  \E n \in notes : n.pitch = p /\ (m = On(n) \/ m = Off(n))
      BY DEF Message
    <2>2. ASSUME NEW n \in notes, n.pitch = p
          PROVE  /\ On(n) \in mine /\ On(n).tick = n.start /\ On(n).on = 1
                 /\ Off(n) \in mine /\ Off(n).tick = n.end /\ Off(n).on = 0
      BY <2>2 DEF Message
    <2>3. ASSUME NEW n \in notes
          PROVE  n.start \in Int /\ n.end \in Int /\ n.start < n.end
      <3>1. n.end - n.start > MinNoteLen /\ n.start \in 0 .. N - 1 /\ n.end \in 0 .. N - 1
        BY DEF NInv, NTypeOK, Note
      <3> QED
        BY <3>1, DecoderAssumption
    <2>4. ASSUME NEW n \in notes, NEW k \in notes, n.pitch = p, k.pitch = p, n # k
          PROVE  n.end <= k.start \/ k.end <= n.start
      BY <2>4 DEF NInv, NotesDisjoint
    <2> HIDE DEF mine, On, Off
    <2>5. ASSUME NEW a \in mine, \A b \in mine : ~ Before(b, a) PROVE a.on = 1
      BY <2>1, <2>2, <2>3, <2>5 DEF Before
    <2>6. ASSUME NEW a \in mine, \A b \in mine : ~ Before(a, b) PROVE a.on = 0
      BY <2>1, <2>2, <2>3, <2>6 DEF Before
    <2>7. ASSUME NEW a \in mine, NEW b \in mine, Before(a, b), a.on = b.on,
                 \A c \in mine : ~ (Before(a, c) /\ Before(c, b))
          PROVE  FALSE
      <3>1. PICK n \in notes : n.pitch = p /\ (a = On(n) \/ a = Off(n))
        BY <2>1
      <3>2. PICK k \in notes : k.pitch = p /\ (b = On(k) \/ b = Off(k))
        BY <2>1
      <3>3. a.tick < b.tick /\ n # k
        BY <2>2, <2>3, <2>7, <3>1, <3>2 DEF Before
      <3>4. CASE a = On(n) /\ b = On(k)
        <4>1. Before(a, Off(n)) /\ Before(Off(n), b)
          BY <2>2, <2>3, <2>4, <3>1, <3>2, <3>3, <3>4 DEF Before
        <4> QED
          BY <2>2, <2>7, <3>1, <4>1
      <3>5. CASE a = Off(n) /\ b = Off(k)
        <4>1. Before(a, On(k)) /\ Before(On(k), b)
          BY <2>2, <2>3, <2>4, <3>1, <3>2, <3>3, <3>5 DEF Before
        <4> QED
          BY <2>2, <2>7, <3>2, <4>1
      <3> QED
        BY <2>2, <2>7, <3>1, <3>2, <3>4, <3>5
    <2> QED
      BY <2>5, <2>6, <2>7 DEF mine
  <1> QED
    BY <1>1, NInvHolds, PTL

-----------------------------------------------------------------------------
(* The long tones.                                                         *)

Heard(p, from, to) == \E n \in notes : n.pitch = p /\ n.start <= to /\ from < n.end
Untouched(p, from, to) == \A i \in from .. to : <<i, p>> \in remaining

\* A long tone has been heard, or all of it is still there.
ToneInv ==
  \A p \in Pitch, from \in 1 .. N - 2, to \in 1 .. N - 2 :
    LongTone(p, from, to) => Heard(p, from, to) \/ Untouched(p, from, to)

HInv == NInv /\ ToneInv

\* Nothing sounds at a pitch that was never loud.
LEMMA NeverLoud ==
  ASSUME NInv, NEW p, NEW s \in 0 .. N - 1, \A i \in 0 .. N - 1 : <<i, p>> \notin loud
  PROVE  SoundsUntil(s, p) = s + 1
  <1>0. N \in Nat \ {0} /\ remaining \subseteq loud
    BY DecoderAssumption DEF NInv, NTypeOK
  <1> DEFINE stop == StopAfter(s, p)
  <1>1. stop \in s + 1 .. N /\ SoundsUntil(s, p) \in s + 1 .. stop
    BY ScanAfter
  <1>2. Quiet(p, s + 1, stop - 1)
    <2> HIDE DEF stop
    <2> QED
      BY <1>0, <1>1 DEF Quiet
  <1>3. s + 1 \in s + 1 .. stop
    BY <1>1
  <1>4. SoundsUntil(s, p) <= s + 1
    BY <1>2, <1>3, ScanAfter
  <1> QED
    BY <1>1, <1>4

\* An onset erases nothing of a long tone that it does not make heard.
LEMMA OnsetHears ==
  ASSUME HInv, NEW a \in Cell, VisitOnset(a),
         NEW p \in Pitch, NEW from \in 1 .. N - 2, NEW to \in 1 .. N - 2,
         LongTone(p, from, to), Untouched(p, from, to)
  PROVE  Heard(p, from, to)' \/ Untouched(p, from, to)'
  <1> DEFINE s == a[1]
             q == a[2]
             end == SoundsUntil(s, q)
             x == [start |-> s, end |-> end, pitch |-> q]
  <1>0. /\ N \in Nat \ {0} /\ MinNoteLen \in Nat \ {0} /\ s \in 0 .. N - 1
        /\ q \in Int /\ p \in Int
    BY DecoderAssumption DEF Cell, Pitch
  <1>1. CASE ~(end - s > MinNoteLen)
    BY <1>1 DEF VisitOnset, Untouched
  <1>2. CASE end - s > MinNoteLen
    <2>1. notes' = notes \cup {x} /\ remaining' = remaining \ Band(q, s .. end - 1)
      BY <1>2 DEF VisitOnset
    <2>2. q # p - 1 /\ q # p + 1
      <3>1. ASSUME \A i \in 0 .. N - 1 : <<i, q>> \notin loud PROVE FALSE
        <4>1. end = s + 1
          BY <1>0, <3>1, NeverLoud DEF HInv
        <4> HIDE DEF end, s
        <4> QED
          BY <1>0, <1>2, <4>1
      <3> HIDE DEF q
      <3> QED
        BY <3>1 DEF LongTone
    <2>3. end \in Int
      <3>1. end \in s + 1 .. StopAfter(s, q) /\ StopAfter(s, q) \in s + 1 .. N
        BY <1>0, ScanAfter
      <3> QED
        BY <1>0, <3>1
    <2> HIDE DEF s, q, end
    <2>4. CASE q # p
      BY <1>0, <2>1, <2>2, <2>4 DEF Untouched, Band
    <2>5. CASE q = p /\ s <= to /\ from < end
      <3>1. x.pitch = p /\ x.start <= to /\ from < x.end
        BY <2>5
      <3> HIDE DEF x
      <3> QED
        BY <2>1, <3>1 DEF Heard
    <2>6. CASE q = p /\ ~(s <= to /\ from < end)
      <3>1. \A i \in from .. to : i \notin s .. end - 1
        BY <1>0, <2>3, <2>6
      <3> QED
        BY <2>1, <3>1 DEF Untouched, Band
    <2> QED
      BY <2>4, <2>5, <2>6
  <1> QED
    BY <1>1, <1>2

\* A strongest cell erases nothing of a long tone that it does not make heard:
\* what it scans has all of the tone in it or nothing.
LEMMA StrongestHears ==
  ASSUME HInv, NEW c \in Cell, TakeStrongest(c),
         NEW p \in Pitch, NEW from \in 1 .. N - 2, NEW to \in 1 .. N - 2,
         LongTone(p, from, to), Untouched(p, from, to)
  PROVE  Heard(p, from, to)' \/ Untouched(p, from, to)'
  <1> DEFINE s == c[1]
             q == c[2]
             start == SoundsFrom(s, q)
             until == SoundsUntil(s, q)
             before == StopBefore(s, q)
             after == StopAfter(s, q)
             x == [start |-> start, end |-> until - 1, pitch |-> q]
             gone == {c} \cup Band(q, before + 1 .. s - 1) \cup Band(q, s + 1 .. after - 1)
  <1>0. /\ N \in Nat \ {0} /\ MinNoteLen \in Nat \ {0} /\ s \in 0 .. N - 1 /\ s \in Int
        /\ q \in Int /\ p \in Int /\ from \in Int /\ to \in Int /\ c = <<s, q>>
        /\ to - from > MinNoteLen
    BY DecoderAssumption DEF Cell, Pitch, LongTone
  <1>1. remaining' = remaining \ gone /\ c \in loud
    BY DEF TakeStrongest, HInv, NInv, NTypeOK
  <1>2. q # p - 1 /\ q # p + 1
    BY <1>0, <1>1 DEF LongTone
  <1>3. before \in -1 .. s - 1 /\ start \in before + 1 .. s
    BY ScanBefore, <1>0
  <1>4. after \in s + 1 .. N /\ until \in s + 1 .. after
    BY ScanAfter, <1>0
  <1>5. start \in Int /\ until \in Int /\ before \in Int /\ after \in Int
    BY <1>0, <1>3, <1>4
  <1>6. CASE q # p
    <2> HIDE DEF s, q, before, after
    <2> QED
      BY <1>0, <1>1, <1>2, <1>6 DEF Untouched, Band
  <1>7. CASE q = p /\ before < to /\ from < after
    <2>0. \A i \in from .. to : <<i, q>> \in remaining
      BY <1>7 DEF Untouched
    <2>1. until > to
      <3>1. CASE s <= to
        BY <1>0, <1>7, <2>0, <3>1, RunAfter
      <3>2. CASE s > to
        BY <1>0, <1>4, <1>5, <3>2
      <3> QED
        BY <1>0, <3>1, <3>2
    <2>2. start <= from
      <3>1. CASE from <= s
        BY <1>0, <1>7, <2>0, <3>1, RunBefore
      <3>2. CASE s < from
        BY <1>0, <1>3, <1>5, <3>2
      <3> QED
        BY <1>0, <3>1, <3>2
    <2>3. /\ (until - 1) - start > MinNoteLen /\ start <= to /\ from < until - 1
      <3> HIDE DEF start, until
      <3> QED
        BY <1>0, <1>5, <2>1, <2>2
    <2>4. notes' = notes \cup {x}
      BY <2>3 DEF TakeStrongest
    <2>5. x.pitch = p /\ x.start <= to /\ from < x.end
      BY <1>7, <2>3
    <2> HIDE DEF x
    <2> QED
      BY <2>4, <2>5 DEF Heard
  <1>8. CASE q = p /\ ~(before < to /\ from < after)
    <2> HIDE DEF s, q, before, after
    <2>1. \A i \in from .. to : /\ i # s /\ i \notin before + 1 .. s - 1
                                /\ i \notin s + 1 .. after - 1
      BY <1>0, <1>3, <1>4, <1>5, <1>8 DEF s, q, before, after
    <2> QED
      BY <1>0, <1>1, <2>1 DEF Untouched, Band
  <1> QED
    BY <1>6, <1>7, <1>8

LEMMA HInvStep == HInv /\ [Next]_vars => HInv'
  <1> SUFFICES ASSUME HInv, [Next]_vars PROVE HInv'
    OBVIOUS
  <1>1. loud' = loud /\ notes \subseteq notes'
    BY DEF Next, VisitOnset, TakeStrongest, TurnToRest, Finish, vars
  <1>2. ASSUME NEW p \in Pitch, NEW from \in 1 .. N - 2, NEW to \in 1 .. N - 2,
               LongTone(p, from, to)'
        PROVE  Heard(p, from, to)' \/ Untouched(p, from, to)'
    <2>1. LongTone(p, from, to)
      BY <1>1, <1>2 DEF LongTone
    <2>2. CASE Heard(p, from, to)
      BY <1>1, <2>2 DEF Heard
    <2>3. CASE Untouched(p, from, to)
      <3>1. ASSUME NEW a \in Cell, VisitOnset(a)
            PROVE  Heard(p, from, to)' \/ Untouched(p, from, to)'
        BY <2>1, <2>3, <3>1, OnsetHears
      <3>2. ASSUME NEW a \in Cell, TakeStrongest(a)
            PROVE  Heard(p, from, to)' \/ Untouched(p, from, to)'
        BY <2>1, <2>3, <3>2, StrongestHears
      <3>3. CASE remaining' = remaining
        BY <2>3, <3>3 DEF Untouched
      <3> QED
        BY <3>1, <3>2, <3>3 DEF Next, TurnToRest, Finish, vars
    <2> QED
      BY <2>1, <2>2, <2>3 DEF HInv, ToneInv
  <1>3. ToneInv'
    BY <1>2 DEF ToneInv
  <1> QED
    BY <1>3, NInvStep DEF HInv

\* A run of loud frames no neighbouring pitch disturbs, if it is long enough
\* for a note, is heard in the file, in whatever order the cells are taken
\* and whatever was heard before it.
THEOREM LongTonesHeard == Spec => []LongTonesAreHeard
  <1>1. Init => ToneInv
    BY DEF Init, ToneInv, LongTone, Untouched
  <1>2. Init => NInv
    BY NInvStarts
  <1>3. HInv => LongTonesAreHeard
    <2> SUFFICES ASSUME HInv, stage \in {"written", "failed"},
                        NEW p \in Pitch, NEW from \in 1 .. N - 2, NEW to \in 1 .. N - 2,
                        LongTone(p, from, to)
                 PROVE  Heard(p, from, to)
      BY DEF LongTonesAreHeard, Heard
    <2>1. remaining = {}
      BY DEF HInv, NInv, PassesOver
    <2>2. from \in from .. to
      BY DecoderAssumption DEF LongTone
    <2> QED
      BY <2>1, <2>2 DEF HInv, ToneInv, Untouched
  <1> QED
    BY <1>1, <1>2, <1>3, HInvStep, PTL DEF Spec, HInv
=============================================================================
