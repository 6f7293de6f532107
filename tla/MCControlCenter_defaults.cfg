SPECIFICATION Spec
CONSTANTS
  mail1 = mail1
  mail2 = mail2
  sms1 = sms1
  Providers = {mail1, mail2, sms1}
  Scope <- Channels
  MaxChanges = 3
  MaxFailures = 1
  MaxCrashes = 1
CHECK_DEADLOCK FALSE
INVARIANTS
  AtMostOneDefault
  DocumentCatchesUp
