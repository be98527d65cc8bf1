SPECIFICATION Spec
CONSTANTS
  None = None
  ab = ab
  ax = ax
  bc = bc
  cd = cd
  f1 = f1
  ha = ha
  hb = hb
  hc = hc
  hd = hd
  s1 = s1
PROPERTIES
  CallsEnd
  IntentsDelivered
CHECK_DEADLOCK FALSE
