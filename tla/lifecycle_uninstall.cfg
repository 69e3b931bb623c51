CONSTANTS
  Realms = {a}
  Clusters = {c}
  Placements = {p}
  PlacementRef <- Shared
  Nobody = Nobody
  Scenarios = {{"unplace"}}
SPECIFICATION FairSpec
PROPERTIES
  DeletionEnds
