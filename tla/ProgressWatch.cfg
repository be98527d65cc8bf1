SPECIFICATION Spec
CONSTANTS
  None = None
  c1 = c1
  d1 = d1
  e1 = e1
  e2 = e2
  k1 = k1
  n1 = n1
  s1 = s1
  v1 = v1
  w1 = w1
  w2 = w2
PROPERTIES
  EndsAreKnown
CHECK_DEADLOCK FALSE
