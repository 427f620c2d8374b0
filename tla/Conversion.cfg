\* One disk whose source changes once, two requests, failures anywhere.
SPECIFICATION ConversionSpec
CONSTANTS
  MaxContent = 2
  Requests = {r1, r2}
  NoRequest = NoRequest
INVARIANTS
  ConversionInv
  EvidenceIsTrue
  ExportIsWhole
PROPERTIES
  PublishedIsKept
  ImplementsDiskSteps
  RequestEnds
