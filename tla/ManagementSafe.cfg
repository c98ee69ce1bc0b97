SPECIFICATION Spec
CONSTANTS
  u1 = u1
  u2 = u2
  q1 = q1
  q2 = q2
  i1 = i1
  i2 = i2
  code = code
  n1 = n1
  n2 = n2
  p1 = p1
  p2 = p2
  console = console
  w1 = w1
  unbound = unbound
  s1 = s1
  s2 = s2
  none = none
  deleted = deleted
  rq1 = rq1
  rq2 = rq2
  m1 = m1
  m2 = m2
  o1 = o1
  o2 = o2
  j1 = j1
  j2 = j2
  w2 = w2
  h1 = h1
  h2 = h2
  e1 = e1
  e2 = e2
INVARIANTS
  AccountsSafe
  CutoverSafe
  ResearchSafe
PROPERTIES
  PoliciesSafe
  CentralRecoverySafe
  DirectoriesSafe
  ScimSafe
  ImportSafe
SYMMETRY Symmetry
CHECK_DEADLOCK FALSE
