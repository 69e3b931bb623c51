CONSTANTS
  Configs = {c, d}
  Namespaces = {n}
  Realms = {a, b}
  SubDomains = {s}
  Nothing = Nothing
  Scenarios = {{"lag", "several", "test"}, {"abort", "several", "leave"}, {"several", "leave"},
               {"bare", "leave", "twins", "reuse"}}
SPECIFICATION FairSpec
INVARIANTS
  InstalledIsOwned
PROPERTIES
  Settles
  DeletedRealmsEnd
  OwnNamespacesUnlessShared
