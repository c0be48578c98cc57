\* The manager's own service has the label, and docker does not fail.
CONSTANTS
  a1 = a1  a2 = a2
  k1 = k1  k2 = k2
  Address = {a1, a2}
  Pair = {k1, k2}
  Labels = {TRUE}
  Faults = {}
  None = None
SPECIFICATION Spec
PROPERTIES
  SparesItself
