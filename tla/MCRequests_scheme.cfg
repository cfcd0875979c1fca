CONSTANTS
  MaxLen = 20
  SchemeMax = 1
  HostMax = 4
  PathMax = 6
  QueryMax = 5
  MaxPort = 40
  HttpsPort = 4
  CandidateMax = 4
  NameMax = 2
  BodyMax = 6
  Links <- MCLinks
  Submits <- MCSubmits
  Responses <- MCResponses
SPECIFICATION Spec
INVARIANT LinkIsFetchedOrRefused
