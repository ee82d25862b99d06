SPECIFICATION FairManagerSpec
CONSTANTS
  Clients = {item, order}
  Subscribed = {item}
  Updates = {u}
  Resend = TRUE
  UserFinishes = {item}
  NoUpdate = NoUpdate
  ErrorLoopMax = 2
  Calls = {k, n}
  Confirmations = {n}
  CallbackCalls = {}
PROPERTY
  PollReturns
