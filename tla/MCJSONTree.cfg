SPECIFICATION Spec
CONSTANTS
  Vars = {v1, v2}
  MaxNodes = 4
  MaxLabel = 1
  Moves = "trees"
  ParseMember = TRUE
  Replace = FALSE
  Null = Null
INVARIANTS
  OneOwner
  
SYMMETRY VarSymmetry
CHECK_DEADLOCK FALSE
