CONSTANTS
  Configs = {c}
  Namespaces = {n}
  Realms = {a, b}
  SubDomains = {s}
  Nothing = Nothing
  Scenarios = {{"reuse"}}
SPECIFICATION Spec
PROPERTIES
  OwnNamespaces
