SPECIFICATION FairSpec
CONSTANTS
  Starters = {p1}
  Stoppers = {q1}
  Restarters = {r1}
  Faults = {}
PROPERTY StopStops
