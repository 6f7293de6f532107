SPECIFICATION FairSpec
CONSTANTS
  u1 = u1
  u2 = u2
  t1 = t1
  Users = {u1, u2}
  Notes = {n1}
  Phones = {u1}
  Movers = {u1}
  Tokens = {t1, t2}
  NoToken = NoToken
  Team = Team
  Asked <- asked
  Wishes <- wishes
  OldToken <- oldToken
  MaxEvents = 2
  MaxCrashes = 1
CHECK_DEADLOCK FALSE
INVARIANTS
  
  DocumentsHaveOwners
  
PROPERTIES
  OnlyRacesLoseTokens
  QueuedAreServed
