SPECIFICATION FairSpec
CONSTANTS
  p1 = p1
  p2 = p2
  p3 = p3
  NoOne = NoOne
  Tasks = {h1}
  Players <- ThreePlayers
  Order <- InTurn
  Bots <- LastIsBot
  FirstTurn = p1
  TreatBotAsUser = TRUE
  Bet = 1
  Target = 7
  Rolls = {6, 7}
  Purses = {0, 2}
  MaxQueue = 4
  MaxPayouts = 2
  MaxCrashes = 2
CHECK_DEADLOCK FALSE
INVARIANTS
  PlayingIsFunded
  
  
  WinnerHitTarget

  
  
