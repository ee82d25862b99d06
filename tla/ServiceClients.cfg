SPECIFICATION Spec
CONSTANTS
  Requests = {r1, r2}
  Items = {i1, i2}
  ItemTypes = {t1, t2}
  Players = {p1}
  Orders = {o1, o2}
  NewOrder = NewOrder
  Existing = {i1, i2, t1}
  full = full
  braces = braces
  compact = compact
  spaced = spaced
  EmptyObject = EmptyObject
  Objects = {EmptyObject, full}
  Texts = {braces, compact, spaced}
  Denotes <- MCDenotes
  Printed <- MCPrinted
  NoText = NoText
  Malformed = Malformed
  Absent = Absent
  Unknown = Unknown
  None = None
  MaxList = 2
  MaxPurchased = 1
SYMMETRY RequestSymmetry
INVARIANTS TypeOK ResultNamesRequest ReadsWhatWasWritten
CHECK_DEADLOCK FALSE
