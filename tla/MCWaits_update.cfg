SPECIFICATION Spec
CONSTANTS
  c1 = c1  c2 = c2  a1 = a1  a2 = a2  b1 = b1  x1 = x1  p1 = p1  p2 = p2
  z1 = z1  z2 = z2  z3 = z3  r1 = r1  r2 = r2  r3 = r3
  Channels = {c1, c2}
  Pods = {a1, a2, b1, x1}
  Given = {a1, b1}
  Ports = {p1, p2}
  Deployment <- MCDeployment
  Load <- MCLoad
  Kinds = {"RdsConfigUpdated", "CdsLimit"}
  NoVersion = NoVersion
  MaxLooks = 2
  MaxCalls = 3
  MaxLive = 3
  MaxMoves = 3
  MaxEvents = 7
  MaxConns = 2
  MaxTries = 3
  MaxFaults = 4
  MaxChanges = 3
  NumRpcs = 2
  MinServers = 2
  StrayLimit = 1
  Backends = {z1, z2, z3}
  Replicas = {r1, r2, r3}
  MaxAttempts = 5
  MaxDisruptions = 3
INVARIANT UpdateWasSeen
CHECK_DEADLOCK FALSE
