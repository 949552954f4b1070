CONSTANTS
  Snaps = {s1, s2}  Drops = {d1}  Machines = {m1}  Names = {n1, n2}
  NoSnap = NoSnap  NoMachine = NoMachine
  HostIds = {h1, h2, h3}  Selectors = {l1, l2}  Best = 2
  Fetchers = {f1, f2, f3}  Size = 2  NoFile = NoFile
  Groups = {g1, g2}  Titles = {web, default}  Default = default
  Seeders = {p1, p2}  Members = {i1}  MaxRules = 2
  Handlers = {a1, a2}  MaxVms = 4  Capacity = 1
  Events = {e1}  Progress = {}  Casts = {e2}  Asks = {e3}  Limit = 2
  MaxSecond = 1  MaxThird = 2  FirstHost = 1  LastHost = 3
SPECIFICATION MCSpec
INVARIANTS ServicesTyped NoOrphans ReadyIsThere TakesTurns ImageWhole SeedLeavesAccess  DeliveredOrTold FindsFirstBlock FindsFirstAddress
PROPERTIES LockReleased PublishReturns ImplementsDelivery
CHECK_DEADLOCK FALSE
