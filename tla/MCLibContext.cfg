SPECIFICATION Spec
CONSTANTS
  Contexts = {c1}
  Default = default
  Handles = {h1, h2}
  MaxEnables = 1
SYMMETRY HandleSymmetry
INVARIANTS
  TypeOK
  ReferencesBalance
  FIPSStaysUp

  
  
