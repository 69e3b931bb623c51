CONSTANTS
  OAuths = {a, b}
  Admin = Admin
  Nothing = Nothing
  Scenarios = {{"view"}}
SPECIFICATION Spec
SYMMETRY Symmetry
INVARIANTS
  BackupIsOriginal
