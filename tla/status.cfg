CONSTANTS
  Strategies = {s}
  Clusters = {c}
  StrategyOf <- OneStrategy
  Values = {v1, v2}
  Unset = Unset
  Alien = Alien
  Nothing = Nothing
  MaxCopies = 2
  Scenarios = {{"race", "alien"}, {"fail", "unselect"}, {"change", "unselect"}, {"change", "detach"}}
SPECIFICATION FairSpec
INVARIANTS UniqueEntries
PROPERTIES StrategiesShown OAuthsShown WorksShown HdsShown Withdrawn
