SPECIFICATION MCSpec
CONSTANTS
  Calls = {c1, c2, c3}
  Gated = {c1, c2}
  Mortal = {c1, c2}
  Editors = {p}
  Original = Original
  Skeleton = Skeleton
  Absent = Absent
  None = None
SYMMETRY Symmetry
INVARIANTS
  ChangesAreOnRecord
PROPERTIES
  GateSpansTheCall
CHECK_DEADLOCK FALSE
