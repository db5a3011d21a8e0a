SPECIFICATION FairSpec
CONSTANTS
  Streams = {s1, s2}
  Admins = {a1}
  Extensions = {x1}
  Instances = {i1, i2}
  Values = {v0, v1}
  Default = v0
  Faults = {"Get", "UpdateInsert"}
  Nil = Nil
INVARIANT TypeOK
INVARIANT LoadedIffEnabled
INVARIANT DataKept
PROPERTY OnlyEditsToggle
PROPERTY SubmitGoesThrough
PROPERTY ImplementsContract
