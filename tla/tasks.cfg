SPECIFICATION Spec
CONSTANTS
  t1 = t1
  t2 = t2
  t3 = t3
  t4 = t4
  o1 = o1
  o2 = o2
  o3 = o3
  Tasks <- MCTasks
  Objects <- MCObjects
  ObjectsOf <- MCObjectsOf
  Driven <- MCDriven
  Failing = {t1}
  MaxOpen = 2
  MaxCreating = 2
  Projected = {"UPLOADING", "COMPLETED", "EXPIRED"}
SYMMETRY Symmetry
CHECK_DEADLOCK FALSE
INVARIANTS
  TypeOK
  CountInRange
  EndedTaskIsClosed
  OvershootIsBounded
