CONSTANTS
  s1 = s1
  s2 = s2
  Losses <- MCLosses
  Diverged = Diverged
  Infinity = Infinity
  Shapes = {s1, s2}
  max_epochs = 4
  patience = 2
  min_delta = 1
  Absent = Absent
  Partial = Partial
  MaxTrainings = 2
SPECIFICATION Spec
INVARIANT
  CalibratedForDetector
