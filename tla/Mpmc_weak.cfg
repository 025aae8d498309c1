SPECIFICATION FairSpec
CONSTANTS
  p1 = p1
  p2 = p2
  c1 = c1
  c2 = c2
  v1 = v1
  v2 = v2
  None = None
  Producers = {p1, p2}
  Consumers = {c1}
  Values = {v1, v2}
  Cap = 2
  Modulus = 6
  Reordering = {p1, p2, c1}
INVARIANTS
  ClaimsArePublished
PROPERTIES
  ImplementsQueue
  ClaimCompletes
