SPECIFICATION FairSpec
CONSTANTS
  Starters = {p1, p2}
  Stoppers = {q1, q2}
  Restarters = {r1}
  Faults = {"prepare", "remove", "start", "stop", "create"}
INVARIANT TypeOK
INVARIANT NoStaleStop
