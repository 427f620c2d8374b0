\* Two execute requests of one plan with two disks: the second waits for the
\* mutex with the plan it read before the first ran.
SPECIFICATION FairSpec
CONSTANTS
  p1 = p1  p2 = p2  v1 = v1  v2 = v2
  Plans = {p1}
  Sources = {v1}
  SourceOf <- OnePlan
  Requests = {r1, r2}
  Vmids = {i1, i2}
  DiskCount = 2
  Disturbances = {"store", "platform", "crash"}
  NoPlan = NoPlan
  NoRequest = NoRequest
  NoVmid = NoVmid
INVARIANTS
  EngineInv
  WaitingIsComplete
  EffectsInv
PROPERTIES
  ImplementsLifecycle
  StrandedOnlyByFault
  RequestReturns
