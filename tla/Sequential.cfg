\* One client at a time, two plans with two disks that share a source VM, calls that
\* fail before or after their effect, a crash anywhere, and an operator who may
\* start the source.
SPECIFICATION Spec
CONSTANTS
  p1 = p1  p2 = p2  v1 = v1  v2 = v2
  Plans = {p1, p2}
  Sources = {v1}
  SourceOf <- SharedSource
  Requests = {r1}
  Vmids = {i1, i2}
  DiskCount = 2
  Disturbances = {"store", "platform", "crash", "operator"}
  NoPlan = NoPlan
  NoRequest = NoRequest
  NoVmid = NoVmid
INVARIANTS
  SequentialInv
  PlanNamesItsVM
  VMsKeepToTheirPlan
  RunningTargetIsComplete
SYMMETRY PlansAndIdsAreAlike
