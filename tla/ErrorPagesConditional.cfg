CONSTANTS
  p404 = p404
  p4xx = p4xx
  q1 = q1
  q2 = q2
  Status <- Statuses
  Page <- Pages
  StatusToPath <- Table
  Request <- Requests
  Conditional <- Maybe
  MaxChanges = 0
SPECIFICATION Spec
SYMMETRY Symmetric
INVARIANTS PagesReturn
CHECK_DEADLOCK FALSE
