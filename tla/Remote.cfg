\* Two tasks on a cold and a live plan, of one plan or of both, that are given
\* the same VM id; answers are lost, the store and the clusters fail, operators
\* switch VMs and the backend may die.
SPECIFICATION RemoteSpec
CONSTANTS
  ColdPlans = {cold}
  LivePlans = {live}
  Requests = {r1}
  VMIds = {1}
  MaxTasks = 2
  NoPlan = NoPlan
  NoVM = NoVM
INVARIANTS
  RemoteInv
  SuccessHasAMigration
PROPERTIES
  RunningJobEnds
