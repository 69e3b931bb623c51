CONSTANTS
  Realms = {a}
  Clusters = {c, d}
  Placements = {p}
  PlacementRef <- Shared
  Nobody = Nobody
  Scenarios = {{"hasty"}}
SPECIFICATION FairSpec
PROPERTIES
  DeletionEnds
  Serves
  Withdraws
