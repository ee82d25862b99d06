SPECIFICATION Spec
CONSTANTS
  Values = {0, 1, 2147483647}
  Unset = 0
  States = {0, 5, 127}
  Messages <- MCMessages
  full = full
  braces = braces
  compact = compact
  spaced = spaced
  EmptyObject = EmptyObject
  Objects = {EmptyObject, full}
  Texts = {braces, compact, spaced}
  Denotes <- MCDenotes
  Printed <- MCPrinted
  NoText = NoText
  Absent = Absent
INVARIANTS
  FieldsKeepTheirPlace
  ScoreIsTheEngines
  RoundTrip
  ConfirmationNamesUpdate
CHECK_DEADLOCK FALSE
