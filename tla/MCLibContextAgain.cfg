SPECIFICATION Spec
CONSTANTS
  Contexts = {c1}
  Default = default
  Handles = {h1}
  MaxEnables = 2
INVARIANT
  FIPSReferenceReleased
