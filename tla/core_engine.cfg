SPECIFICATION Spec
CONSTANTS
  Callers = {c1}
  Instances = {i1, i2}
  Servers = {s1, s2}
  Requests <- MCRequests
  Ops <- EngineOps
  Faults <- EngineFaults
  Nil = Nil
INVARIANT NoLeakedEngine
INVARIANT NoServiceAfterClose
PROPERTY ImplementsContract
