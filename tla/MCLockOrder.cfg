SPECIFICATION Spec
CONSTANTS
  Workers = {w1, w2}
  Callback = callback
  Sections = {s1, s2}
  Nobody = nobody
INVARIANTS OnlyKnownCircles
SYMMETRY MCSymmetry
CHECK_DEADLOCK FALSE
