CONSTANTS
  p404 = p404
  p4xx = p4xx
  q1 = q1
  q2 = q2
  Status <- Statuses
  Page <- Pages
  StatusToPath <- Table
  Request <- Requests
  Conditional <- Maybe
  MaxChanges = 1
SPECIFICATION Spec
SYMMETRY Symmetric
INVARIANTS HasBody NoForeignPage PagesServed
CHECK_DEADLOCK FALSE
