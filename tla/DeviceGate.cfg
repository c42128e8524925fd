\* Two machines and one session key; two servers; every message may be delivered twice.
SPECIFICATION Spec
CONSTANTS
  c1 = c1
  c2 = c2
  c3 = c3
  c4 = c4
  c5 = c5
  c6 = c6
  c7 = c7
  k1 = k1
  k2 = k2
  k3 = k3
  d1 = d1
  d2 = d2
  s1 = s1
  Calls = {c1, c2, c3, c4, c5, c6, c7}
  Keys = {k1, k2, k3}
  Handlers = {h1, h2}
  EnrolledProjects = {"p1", "p2"}
  Sessions = {s1}
  Requests <- MCRequests
  Command <- MCCommand
  ProjectAt <- MCProjectAt
  DeviceOf <- MCDeviceOf
  Enrolled = {k1, k3}
  Lifetime = 0
  MaxTime = 1
  MaxChanges = 1
  NoKey = NoKey
  NotAnObject = NotAnObject
  NoCall = NoCall
  NoOwner = NoOwner
  LegacyDevice = d1
INVARIANTS OncePerAssertion SessionHasOneOwner ExitZeroMeansRan
SYMMETRY ServersAlike
CHECK_DEADLOCK FALSE
