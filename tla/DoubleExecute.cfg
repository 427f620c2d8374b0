\* Two execute requests of one plan and nothing else going wrong.
SPECIFICATION Spec
CONSTANTS
  p1 = p1  p2 = p2  v1 = v1  v2 = v2
  Plans = {p1}
  Sources = {v1}
  SourceOf <- OnePlan
  Requests = {r1, r2}
  Vmids = {i1, i2}
  DiskCount = 1
  Disturbances = {}
  NoPlan = NoPlan
  NoRequest = NoRequest
  NoVmid = NoVmid
INVARIANTS
  PlanNamesItsVM
