SPECIFICATION Spec
CONSTANTS
  Users = {u1, u2}
  Calls = {j1, j2, j3, j4}
  None = None
SYMMETRY Symmetry
CHECK_DEADLOCK FALSE
INVARIANTS
  NobodyFollowsUnasked
  
