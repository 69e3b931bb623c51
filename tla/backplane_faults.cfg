CONSTANTS
  OAuths = {a, b}
  Admin = Admin
  Nothing = Nothing
  Scenarios = {{"lag", "early"}, {"release", "abort", "overlap"}}
SPECIFICATION Spec
SYMMETRY Symmetry
INVARIANTS
  TypeOK
  IInv
  AppliedIsPushed
PROPERTIES
  UnmanagedBeforeRemoved
  BackupOutlivesRestore
