SPECIFICATION Spec
CONSTANTS
  p1 = p1
  p2 = p2
  c1 = c1
  c2 = c2
  v1 = v1
  v2 = v2
  None = None
  Producers = {p1, p2}
  Consumers = {c1}
  Values = {v1}
  Cap = 2
  Modulus = 8
  Reordering = {}
PROPERTIES
  FullMeansFull
