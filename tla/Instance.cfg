CONSTANTS
  h1 = h1  h2 = h2  a1 = a1
  Instances = {i1}
  Hosts = {h1, h2}
  LocalHost = l
  IpOf <- Ips
  Requests = {r1, r2}
  Ops = {"stop", "start", "restart", "delete", "assign"}
  None = None
SPECIFICATION Spec
SYMMETRY Symmetry
INVARIANTS TypeOK 
PROPERTIES ImplementsPlacement
