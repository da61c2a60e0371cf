SPECIFICATION Spec
CONSTANTS
  g1 = g1
  g2 = g2
  None = None
  Groups = {g1, g2}
  Addresses <- MCAddresses
  MaxConcurrency = 2
  Callers = {d1}
  Asked = {g1, g2}
PROPERTY
  AskedIsTakenUp
