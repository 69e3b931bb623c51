CONSTANTS
  Realms = {a, b}
  Clusters = {c}
  Placements = {p}
  PlacementRef <- Shared
  Nobody = Nobody
  Scenarios = {{}, {"rush", "together"}}
SPECIFICATION Spec
SYMMETRY Symmetry
INVARIANTS
  TypeOK
  UninstalledWithTheLast
  OperatorServes
  NothingLeftBehind
  SecretsRemoved
  ClientsFinalized
