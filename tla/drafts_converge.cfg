SPECIFICATION Spec
CONSTANTS
  Context = {x1, x2}
  Text = {t1, t2}
  NoDraft = NoDraft
  Session = {s1, s2}
  MaxTopic = 4
SYMMETRY DraftSymmetry
INVARIANTS
  CompactionInvisible
  SessionsConverge
