SPECIFICATION Spec
CONSTANTS
  v1 = v1
  v2 = v2
  x1 = x1
  x2 = x2
  s1 = s1
  s2 = s2
  p1 = p1
  r1 = r1
  r2 = r2
  k1 = k1
  k2 = k2
  c1 = c1
  c2 = c2
  peer1 = peer1
  peer2 = peer2
  m1 = m1
  m2 = m2
  m3 = m3
  d1 = d1
  d2 = d2
  d3 = d3
  r3 = r3
  r4 = r4
INVARIANT RequirementBindsRules
CHECK_DEADLOCK FALSE
