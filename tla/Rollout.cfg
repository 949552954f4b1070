CONSTANTS
  r1 = r1  r2 = r2  u1 = u1  n1 = n1
  HostIds = {u1, n1}
  Uuids = {u1}
  Rollouts = {r1, r2}
  VersionOf <- OneVersion
  ProbeEvery = 2
SPECIFICATION MCSpec
INVARIANTS TypeOK SummaryAddsUp SkipsAreExplained FailureHasCause
PROPERTIES RolloutReturns
