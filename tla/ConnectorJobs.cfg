SPECIFICATION FairSpec
CONSTANTS
  Nil = Nil
  j1 = j1
  j2 = j2
  Jobs = {j1, j2}
  Threads = 1
  Retention = 1
  Demands <- TableDemands
CHECK_DEADLOCK FALSE
INVARIANTS
  JobsTypeOK
  FailedChangedNothing
  ResultTellsTruth
  WritesWereAllowed
  SendsGivenIdentity
  FormsWithinCommands
PROPERTIES
  ResultsStay
  RunsEnd
