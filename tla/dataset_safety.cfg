SPECIFICATION Spec
CONSTANTS
  Requests = {r1, r2}
  Workers = {w1, w2}
  Projector = up
  Crashing = {r1, r2, w1, w2, up}
  ValidationEnabled = TRUE
  Keep = Keep
SYMMETRY Symmetry
INVARIANTS
  TypeOK
  ExposedWasAccepted
  ValidatedByOne
PROPERTIES
  AcceptedStays
