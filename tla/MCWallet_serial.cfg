SPECIFICATION Spec
CONSTANTS
  Calls = {c1, c2, c3, c4}
  Users = {u1, u2}
  Games = {g1}
  Amounts = {1, 2}
  WelcomeBalance = 2
  MaxInFlight = 1
  Kinds <- SerialKinds
  Free = Free
  NoRequest = NoRequest
  NoGame = NoGame
SYMMETRY Symmetry
CHECK_DEADLOCK FALSE
INVARIANTS
  LedgerExplainsBalance
  
