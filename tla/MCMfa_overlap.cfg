SPECIFICATION Spec
CONSTANTS
  Clients = {c1, c2}
  Numbers = {n1, n2}
  NoNumber = NoNumber
  Families <- families
  MaxCalls = 6
SYMMETRY Symmetry
CHECK_DEADLOCK FALSE
INVARIANTS
  LogoutLasts
  NumberWasConfirmed
  MfaIsConsistent
  
  PasskeyHasCredential
PROPERTIES
  ChangesOneMethod
