\* One plan, one execution and one other handler at a time, platform calls that
\* fail, a crash anywhere, and an operator who may start the source.
SPECIFICATION ApiSpec
CONSTANTS
  p1 = p1  v1 = v1
  Plans = {p1}
  Sources = {v1}
  SourceOf <- OnePlan
  Requests = {r1}
  Handlers = {h1}
  MapsSent = {"none"}
  Vmids = {i1}
  DiskCount = 1
  Disturbances = {"platform", "crash", "operator"}
  NoPlan = NoPlan
  NoRequest = NoRequest
  NoVmid = NoVmid
INVARIANTS
  ApiInv
  StepsFollowOrder
  SucceededStepsHappened
PROPERTIES
  ShutdownOnRecord
VIEW WhatIsRead
\* Nothing is left to do once every plan has been deleted.
CHECK_DEADLOCK FALSE
