SPECIFICATION FairSpec
CONSTANTS
  Callers = {c1}
  Instances = {i1, i2}
  Servers = {s1, s2}
  Requests <- MCRequests
  Ops <- AllOps
  Faults <- AllFaults
  Nil = Nil
INVARIANT StartedMeansRunning
INVARIANT SoloStart
INVARIANT SoloStop
PROPERTY TransitionEnds
