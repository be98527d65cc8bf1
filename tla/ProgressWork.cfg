SPECIFICATION Spec
CONSTANTS
  None = None
  c1 = c1
  d1 = d1
  e1 = e1
  e2 = e2
  f1 = f1
  p1 = p1
  r1 = r1
  w1 = w1
PROPERTIES
  WorkSettles
CHECK_DEADLOCK FALSE
