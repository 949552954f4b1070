CONSTANTS
  Volumes = {d1, d2}
  Instances = {i1}
  Requests = {r1, r2}
  MaxSize = 1
  LastDevice = 1
  Root = Root
  None = None
SPECIFICATION Spec
PROPERTY DetachTakesOwnDisk
