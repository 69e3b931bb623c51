CONSTANTS
  OAuths = {a, b}
  Admin = Admin
  Others = {registry, ingress}
  Namesakes = {ingress}
  Absent = Absent
  Nothing = Nothing
  Scenarios = {{"overlap", "detach"}, {"lag"}, {"abort", "overlap"}, {"early"}, {"namesake", "overlap"}}
SPECIFICATION FairSpec
INVARIANTS
  TypeOK
  OthersKept
  RestoredWhenUnmanaged
  ProvidersHaveSecrets
  AppliedIsPushed
PROPERTIES
  UnmanagedBeforeRemoved
  KeepsPromise
  Converges
