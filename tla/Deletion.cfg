\* Two handlers at a time and one execution, and a crash anywhere:
\* plans are deleted, checked, approved and executed over each other.
SPECIFICATION ApiSpec
CONSTANTS
  p1 = p1  v1 = v1
  Plans = {p1}
  Sources = {v1}
  SourceOf <- OnePlan
  Requests = {r1}
  Handlers = {h1, h2}
  MapsSent = {"none"}
  Vmids = {i1}
  DiskCount = 1
  Disturbances = {"crash"}
  NoPlan = NoPlan
  NoRequest = NoRequest
  NoVmid = NoVmid
INVARIANTS
  JobsKeepTheirPlan
VIEW WhatIsRead
SYMMETRY HandlersAreAlike
CONSTRAINT PlansInUse
\* Nothing is left to do once every plan has been deleted.
CHECK_DEADLOCK FALSE
