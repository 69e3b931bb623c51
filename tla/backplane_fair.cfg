CONSTANTS
  OAuths = {a, b}
  Admin = Admin
  Nothing = Nothing
  Scenarios = {{}, {"early"}, {"view"}}
SPECIFICATION FairSpec
INVARIANTS
  RestoredWhenUnmanaged
  NoConflictingWorks
PROPERTIES
  KeepsPromise
  Converges
  ConvergesWhileManaged
  DeletionsEnd
