SPECIFICATION PayFairSpec
CONSTANTS
  Calls = {c1, c2, c3}
  Users = {u1, u2}
  Games = {g1}
  Amounts = {1}
  WelcomeBalance = 2
  MaxInFlight = 1
  Kinds <- QueueKinds
  Free = Free
  NoRequest = NoRequest
  NoGame = NoGame
  Payments = {i1}
  Deliveries = {d1, d2}
  NoPayment = NoPayment
  NoJob = NoJob
  MaxRestarts = 1
  MaxFaults = 1
CHECK_DEADLOCK FALSE
INVARIANTS
  
  RepeatsHaveStalled
PROPERTIES
  AcceptedIsCredited
