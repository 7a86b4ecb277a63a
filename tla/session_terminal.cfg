SPECIFICATION Spec
CONSTANTS
  Requests = {r1, r2}
  Workers = {w1}
  Parts = {p1}
  Sent = {"good", "bad"}
  Crashing = {}
PROPERTIES
  CompletedIsFinal
