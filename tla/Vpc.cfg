CONSTANTS
  v1 = v1  v2 = v2  v3 = v3
  Requests = {r1, r2}
  Tenants = {t1}
  VpcIds = {v1, v2}
  Instances = {i1}
  NumCidrs = 2
  FirstIP = 10
  LastIP = 11
  BridgeOf <- Bridges
  None = None
SPECIFICATION Spec
SYMMETRY Symmetry
INVARIANTS TypeOK 
PROPERTIES  ImplementsAddressPlan
