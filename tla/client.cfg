\* A rewritten file stops every run that is not forced.
CHECK_DEADLOCK FALSE
SPECIFICATION FairSpec
CONSTANTS
  Runs = {r1, r2}
  PartCount = 2
  BatchSize = 1
  Versions = 2
  MaxFaults = 2
INVARIANTS
  TypeOK
  MarkedIsStored
  ToldIsAssembled
  AssembledIsTheFile

  
