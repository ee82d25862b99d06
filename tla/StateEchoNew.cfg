SPECIFICATION Spec
CONSTANTS
  Sent <- NewRange
  LastKnown = 12
INVARIANT
  ConfirmEchoes
