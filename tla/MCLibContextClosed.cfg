SPECIFICATION Spec
CONSTANTS
  Contexts = {c1}
  Default = default
  Handles = {h1}
  MaxEnables = 1
PROPERTY
  ClosedContextRefuses
