SPECIFICATION FairSpec
CONSTANTS
  Users = {u1}
  Jobs = {d1, d2}
  NoUser = NoUser
  MaxFaults = 2
  MaxCrashes = 1
CHECK_DEADLOCK FALSE
INVARIANTS
  WalletGoesWithUser
  OnlyDueAreDeleted
PROPERTIES
  DeletionCompletes
