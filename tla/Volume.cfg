CONSTANTS
  Volumes = {d1}
  Instances = {i1}
  Requests = {r1, r2}
  MaxSize = 3
  LastDevice = 1
  Root = Root
  None = None
SPECIFICATION Spec
SYMMETRY Symmetry
INVARIANTS TypeOK SizeBacked AttachedRowNamesDevice
