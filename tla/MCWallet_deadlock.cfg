SPECIFICATION FairSpec
CONSTANTS
  Calls = {c1, c2, c3, c4}
  Users = {u1, u2}
  Games = {g1}
  Amounts = {1}
  WelcomeBalance = 2
  MaxInFlight = 2
  Kinds <- GameKinds
  Free = Free
  NoRequest = NoRequest
  NoGame = NoGame
CHECK_DEADLOCK FALSE
PROPERTIES
  EveryCallEnds
