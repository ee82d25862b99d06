SPECIFICATION ManagerSpec
CONSTANTS
  Clients = {item, order}
  Subscribed = {item}
  Updates = {u}
  Resend = TRUE
  UserFinishes = {item}
  NoUpdate = NoUpdate
  ErrorLoopMax = 2
  Calls = {k, n, m}
  Confirmations = {n, m}
  CallbackCalls = {k}
INVARIANTS
  ManagerTypeOK
  RecoveryAwaitsStreams
PROPERTIES
  StreamSide
  UnarySide
  UpdatesKept
