\* Nothing goes wrong: two plans, two requests.
SPECIFICATION FairSpec
CONSTANTS
  p1 = p1  p2 = p2  v1 = v1  v2 = v2
  Plans = {p1, p2}
  Sources = {v1, v2}
  SourceOf <- OneSourceEach
  Requests = {r1, r2}
  Vmids = {i1, i2, i3}
  DiskCount = 2
  Disturbances = {}
  NoPlan = NoPlan
  NoRequest = NoRequest
  NoVmid = NoVmid
PROPERTIES
  ExecutionCompletes
