------------------------------ MODULE NoteDecoder ------------------------------
(***************************************************************************)
(* How the basic-pitch runner turns note activations into MIDI             *)
(* (src/python/native-runners/apple_native_runner.py): a pass over the     *)
(* onset peaks, latest first, then a pass that takes the strongest cell    *)
(* that is left, each erasing what it used.                                *)
(*                                                                         *)
(* A cell <<frame, pitch>> is loud or not; how loud decides only which one *)
(* the second pass takes first, so it takes any.                           *)
(***************************************************************************)
EXTENDS Integers, FiniteSets, FiniteSetsExt

CONSTANTS
  N,           \* n_frames
  TopPitch,    \* max_freq_idx
  MinNoteLen,  \* min_note_len
  EnergyTol,   \* energy_tol
  MaxOnsets    \* bound on onset peaks

\* 127.70 ms are 11 frames; the tolerance is 11.
ASSUME DecoderAssumption ==
  /\ N \in Nat \ {0} /\ TopPitch \in Nat /\ MaxOnsets \in Nat
  /\ EnergyTol \in Nat \ {0} /\ MinNoteLen \in Nat \ {0}
  /\ EnergyTol <= MinNoteLen + 1

VARIABLES
  loud,        \* cells of frames over frame_thresh (fixed)
  remaining,   \* those not erased yet
  onsets,      \* onset peaks not visited yet
  notes,       \* the note events
  stage        \* where the decoder is

vars == <<loud, remaining, onsets, notes, stage>>

-----------------------------------------------------------------------------
Pitch == 0 .. TopPitch
Cell == (0 .. N - 1) \X Pitch
Note == [start : 0 .. N - 1, end : 0 .. N - 1, pitch : Pitch]

\* argrelmax is strict and leaves out the first and the last frame.
IsPeakSet(S) ==
  /\ Cardinality(S) <= MaxOnsets
  /\ \A a, b \in S : a[2] = b[2] => b[1] # a[1] + 1

Init ==
  /\ loud \in SUBSET Cell /\ remaining = loud
  /\ onsets \in {S \in SUBSET ((1 .. N - 2) \X Pitch) : IsPeakSet(S)}
  /\ notes = {} /\ stage = "onsets"

-----------------------------------------------------------------------------
Quiet(p, from, to) == \A i \in from .. to : <<i, p>> \notin remaining

\* Scanning stops at the last frame or after EnergyTol quiet frames.
StopAfter(s, p) ==
  Min({i \in s + 1 .. N : \/ i >= N - 1
                          \/ i - EnergyTol > s /\ Quiet(p, i - EnergyTol, i - 1)})
StopBefore(s, p) ==
  Max({i \in -1 .. s - 1 : \/ i <= 0
                           \/ i + EnergyTol < s /\ Quiet(p, i + 1, i + EnergyTol)})

\* The quiet frames the scan ended with are taken back.
SoundsUntil(s, p) ==
  Min({e \in s + 1 .. StopAfter(s, p) : Quiet(p, e, StopAfter(s, p) - 1)})
SoundsFrom(s, p) ==
  Max({b \in StopBefore(s, p) + 1 .. s : Quiet(p, StopBefore(s, p) + 1, b - 1)})

\* The cells of a pitch and its neighbours over some frames.
Band(p, frames) == frames \X {p - 1, p, p + 1}

IsNext(a) == \A b \in onsets \ {a} : b[1] < a[1] \/ (b[1] = a[1] /\ b[2] < a[2])

\* Slip: a note as short as the minimum is kept.
VisitOnsetShort(a) ==
  /\ stage = "onsets" /\ a \in onsets /\ IsNext(a)
  /\ onsets' = onsets \ {a}
  /\ LET end == SoundsUntil(a[1], a[2])
     IN IF end - a[1] >= MinNoteLen
          THEN /\ notes' = notes \cup {[start |-> a[1], end |-> end, pitch |-> a[2]]}
               /\ remaining' = remaining \ Band(a[2], a[1] .. end - 1)
          ELSE UNCHANGED <<notes, remaining>>
  /\ UNCHANGED <<loud, stage>>

\* Slip: cells are erased before the length is looked at.
VisitOnsetErasing(a) ==
  /\ stage = "onsets" /\ a \in onsets /\ IsNext(a)
  /\ onsets' = onsets \ {a}
  /\ LET end == SoundsUntil(a[1], a[2])
     IN /\ remaining' = remaining \ Band(a[2], a[1] .. end - 1)
        /\ IF end - a[1] > MinNoteLen
             THEN notes' = notes \cup {[start |-> a[1], end |-> end, pitch |-> a[2]]}
             ELSE UNCHANGED notes
  /\ UNCHANGED <<loud, stage>>

\* The latest peak, the highest pitch first.
VisitOnset(a) ==
  /\ stage = "onsets" /\ a \in onsets /\ IsNext(a)
  /\ onsets' = onsets \ {a}
  /\ LET end == SoundsUntil(a[1], a[2])
     IN IF end - a[1] > MinNoteLen
          THEN /\ notes' = notes \cup {[start |-> a[1], end |-> end, pitch |-> a[2]]}
               /\ remaining' = remaining \ Band(a[2], a[1] .. end - 1)
          ELSE UNCHANGED <<notes, remaining>>
  /\ UNCHANGED <<loud, stage>>

TurnToRest ==
  /\ stage = "onsets" /\ onsets = {}
  /\ stage' = "rest"
  /\ UNCHANGED <<loud, remaining, onsets, notes>>

\* A strongest cell, scanned both ways; all that was scanned is erased,
\* whether it makes a note or not.
TakeStrongest(c) ==
  /\ stage = "rest" /\ c \in remaining
  /\ LET p == c[2]
         start == SoundsFrom(c[1], p)
         end == SoundsUntil(c[1], p) - 1
     IN /\ remaining' = remaining \ ({c}
              \cup Band(p, StopBefore(c[1], p) + 1 .. c[1] - 1)
              \cup Band(p, c[1] + 1 .. StopAfter(c[1], p) - 1))
        /\ notes' = IF end - start > MinNoteLen
                      THEN notes \cup {[start |-> start, end |-> end, pitch |-> p]}
                      ELSE notes
  /\ UNCHANGED <<loud, onsets, stage>>

\* Without a note the runner fails; otherwise the MIDI file is written.
Finish ==
  /\ stage = "rest" /\ remaining = {}
  /\ stage' = IF notes = {} THEN "failed" ELSE "written"
  /\ UNCHANGED <<loud, remaining, onsets, notes>>

Next ==
  \/ \E a \in Cell : VisitOnset(a) \/ TakeStrongest(a)
  \/ TurnToRest \/ Finish

Spec == Init /\ [][Next]_vars

-----------------------------------------------------------------------------
Message == {[tick |-> n.start, on |-> 1, pitch |-> n.pitch] : n \in notes}
           \cup {[tick |-> n.end, on |-> 0, pitch |-> n.pitch] : n \in notes}

\* Slip: at one tick the new note comes before the end of the old one.
OnFirst(a, b) ==
  \/ a.tick < b.tick
  \/ a.tick = b.tick /\ a.on > b.on

\* The order of the written track: the tick, then off before on.  Messages it
\* leaves tied are of different pitches.  Frame times are at least a tick apart,
\* so frames stand for ticks.
Before(a, b) ==
  \/ a.tick < b.tick
  \/ a.tick = b.tick /\ a.on < b.on

-----------------------------------------------------------------------------
(* Properties.                                                             *)

\* Every note lies in the frames and is longer than the minimum.
NTypeOK ==
  /\ remaining \subseteq loud
  /\ notes \subseteq Note /\ \A n \in notes : n.end - n.start > MinNoteLen
  /\ stage \in {"onsets", "rest", "written", "failed"}

\* Two notes of one pitch never overlap, whichever pass found them: the scan
\* of one stops in the cells another erased.
NotesDisjoint ==
  \A a, b \in notes : a.pitch = b.pitch /\ a # b => a.end <= b.start \/ b.end <= a.start

\* In the written track each pitch is switched on and off in turn: the first
\* of its messages switches it on, the last off, and each undoes the one before.
TrackAlternates ==
  stage = "written" =>
    \A p \in Pitch :
      LET mine == {m \in Message : m.pitch = p}
      IN /\ \A a \in mine : (\A b \in mine : ~ Before(b, a)) => a.on = 1
         /\ \A a \in mine : (\A b \in mine : ~ Before(a, b)) => a.on = 0
         /\ \A a, b \in mine :
              /\ Before(a, b)
              /\ \A c \in mine : ~ (Before(a, c) /\ Before(c, b))
              => a.on # b.on

\* A run of loud frames no neighbouring pitch disturbs: long enough for a
\* note, it is heard.
LongTone(p, from, to) ==
  /\ to - from > MinNoteLen
  /\ \A i \in from .. to : <<i, p>> \in loud
  /\ \A i \in 0 .. N - 1 : <<i, p - 1>> \notin loud /\ <<i, p + 1>> \notin loud
LongTonesAreHeard ==
  stage \in {"written", "failed"} =>
    \A p \in Pitch, from \in 1 .. N - 2, to \in 1 .. N - 2 :
      LongTone(p, from, to)
        => \E n \in notes : n.pitch = p /\ n.start <= to /\ from < n.end
=============================================================================
