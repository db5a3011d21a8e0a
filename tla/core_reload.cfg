SPECIFICATION Spec
CONSTANTS
  Callers = {c1}
  Instances = {i1, i2}
  Servers = {s1, s2}
  Requests <- TwoRequests
  Ops <- AllOps
  Faults <- NoFaults
  Nil = Nil
INVARIANT ReloadKeepsService
