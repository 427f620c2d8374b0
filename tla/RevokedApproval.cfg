\* A preflight and a new approval while an execution waits for its turn.
SPECIFICATION ApiSpec
CONSTANTS
  p1 = p1  v1 = v1
  Plans = {p1}
  Sources = {v1}
  SourceOf <- OnePlan
  Requests = {r1}
  Handlers = {h1}
  MapsSent = {"all"}
  Vmids = {i1}
  DiskCount = 1
  Disturbances = {}
  NoPlan = NoPlan
  NoRequest = NoRequest
  NoVmid = NoVmid
PROPERTIES
  ShutdownIsApproved
\* Nothing is left to do once every plan has been deleted.
CHECK_DEADLOCK FALSE
