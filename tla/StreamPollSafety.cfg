SPECIFICATION Spec
CONSTANTS
  Clients = {item, order, player}
  Subscribed = {item, order}
  Updates = {u}
  Resend = FALSE
  UserFinishes = {item, order, player}
  NoUpdate = NoUpdate
  ErrorLoopMax = 3
INVARIANTS
  TypeOK
  FinishNeverLate
  ConfirmedWasRead
  NoOrphan
  DrainedMeansFinished
  GracefulMeansDrained
  RecoveryKeepsUpdates
  ClosedMeansCancelled
PROPERTY
  FinishOnce
