SPECIFICATION FairSpec
CONSTANTS
  Requests = {r1, r2}
  Workers = {w1}
  Parts = {p1}
  Sent = {"good"}
  Crashing = {w1}
PROPERTIES
  EventuallySettled
