SPECIFICATION Spec
CONSTANTS
  Requests = {r1, r2}
  Lifetimes = {1, 3}
  Overlaps = {0, 2}
  MaxVersion = 3
  MaxTime = 2
SYMMETRY Symmetry
INVARIANTS
  TypeOK
  RotationEndsPredecessors
  RevocationReaches
