CONSTANTS
  h1 = h1  h2 = h2  a1 = a1
  Instances = {i1}
  Hosts = {h1, h2}
  LocalHost = l
  IpOf <- Ips
  Requests = {r1}
  Ops = {"stop", "start", "restart", "delete", "assign"}
  None = None
SPECIFICATION Spec
INVARIANT TerminatedMeansReleased
