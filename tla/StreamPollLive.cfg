SPECIFICATION FairSpec
CONSTANTS
  Clients = {item, order}
  Subscribed = {item, order}
  Updates = {u}
  Resend = FALSE
  UserFinishes = {}
  NoUpdate = NoUpdate
  ErrorLoopMax = 2
PROPERTIES
  RecoveryEnds
  AutoRecovery
  UpdateDelivered
