CONSTANTS
  OAuths = {a}
  Admin = Admin
  Others = {ingress}
  Namesakes = {}
  Absent = Absent
  Nothing = Nothing
  Scenarios = {{"early"}}
SPECIFICATION Spec
INVARIANTS
  Restored
