SPECIFICATION Spec
CONSTANTS
  Requests = {r1, r2}
  Workers = {w1}
  Parts = {p1, p2}
  Sent = {"good", "bad"}
  Crashing = {r1, r2, w1}
SYMMETRY Symmetry
INVARIANTS
  TypeOK
  CompletedMeansAssembled
  ProjectionsAgree
  EvidenceHolds
PROPERTIES
  UploadedRowsStay
  KeepsOutcome
  CompletingIsAttended
CONSTRAINT OneWrongPart
