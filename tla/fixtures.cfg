SPECIFICATION Spec
CONSTANTS
  image = image  server = server  dir = dir  db = db  file = file  conn = conn  t1 = t1  t2 = t2
  Test <- Tests2
  Fixture <- Fixtures6
  ScopeOf <- Scopes
  DepsOf <- Dependencies
  UsesOf <- Parameters
  ShouldPanic <- OnlyT2
  SetupFails <- MayFail
  DropPanics <- MayPanic
INVARIANTS GivenIsLive ScopeDecidesSharing VerdictIsTheBodys
PROPERTY DependenciesOutlive
