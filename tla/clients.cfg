SPECIFICATION Spec
CONSTANTS
  Callers = {c1, c2, c3}
  Commands = {m1, m2}
  Clients = {k1, k2, k3, k4}
  Overlapping = {m2}
  Nil = Nil
INVARIANT TypeOK
INVARIANT OneClientPerCommand
INVARIANT NoStrayClient
