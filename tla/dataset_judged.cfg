SPECIFICATION FairSpec
CONSTANTS
  Requests = {r1}
  Workers = {w1, w2}
  Projector = up
  Crashing = {r1, w1, up}
  ValidationEnabled = TRUE
  Keep = Keep
PROPERTIES
  EventuallyJudged
