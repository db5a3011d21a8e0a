SPECIFICATION FairSpec
CONSTANTS
  Streams = {s1}
  Admins = {a1}
  Extensions = {x1}
  Instances = {i1, i2, i3}
  Values = {v0, v1}
  Default = v0
  Faults = {}
  Nil = Nil
PROPERTY ConnectGoesThrough
