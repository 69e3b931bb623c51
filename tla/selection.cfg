CONSTANTS
  Clusters = {c}
  MaxEdits = 1
  Absent = Absent
  Nobody = Nobody
  Scenarios = {{}, {"alternatives"}, {"resets"}}
SPECIFICATION FairSpec
PROPERTIES
  OnlySelected
  FollowsUser
