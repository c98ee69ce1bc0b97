SPECIFICATION Spec
CONSTANTS
  m1 = m1
  r1 = r1
  w1 = w1
  w2 = w2
  w3 = w3
  j1 = j1
  m2 = m2
  l1 = l1
  c1 = c1
  c2 = c2
  nil = nil
INVARIANTS
  ProjectionSafe
  PublicationSafe
PROPERTIES
  ReplicationSafe
  BudgetSafe
  RemoteCommandsSafe
CHECK_DEADLOCK FALSE
