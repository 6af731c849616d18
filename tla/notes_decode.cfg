SPECIFICATION Spec
CONSTANTS
  N = 6
  TopPitch = 1
  MinNoteLen = 1
  EnergyTol = 2
  MaxOnsets = 2
INVARIANTS
  NTypeOK
  NotesDisjoint
  TrackAlternates
  LongTonesAreHeard
CHECK_DEADLOCK FALSE
