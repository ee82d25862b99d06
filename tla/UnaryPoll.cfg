SPECIFICATION FairSpec
CONSTANTS
  Calls = {k1, k2, k3, k4}
  CallbackCalls = {k1, k2, k3, k4}
  Answered = {k1, k2, k3}
  ErrorLoopMax = 2
INVARIANTS
  TypeOK
  FreedWhenTaken
  NoCallLost
  OnPolledQueue
PROPERTIES
  OneCallbackPerRequest
  AnswerDelivered
  RecoveryEnds
