\* Two plans and two free ids, two disks each, other users of the cluster.
SPECIFICATION TargetSpec
CONSTANTS
  Plans = {p1, p2}
  Vmids = {i1, i2}
  DiskCount = 2
  MaxTasks = 2
  NoPlan = NoPlan
  NoVmid = NoVmid
  Somebody = Somebody
INVARIANTS
  TargetInv
  AnsweredStaysDone
  RunningVMIsComplete
PROPERTIES
  OthersUntouched
  ImplementsTargetVMs
SYMMETRY PlansAndIdsAreAlike
