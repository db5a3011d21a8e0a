SPECIFICATION Spec
CONSTANTS
  Callers = {c1, c2}
  Instances = {i1, i2, i3}
  Servers = {s1, s2, s3}
  Requests <- OneRequest
  Ops <- RacingOps
  Faults <- RacingFaults
  Nil = Nil
SYMMETRY Symmetry
INVARIANT TypeOK
INVARIANT NoOrphanTransition
INVARIANT SoloStart
INVARIANT SoloStartRecovers
INVARIANT SoloStop
