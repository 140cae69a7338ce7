SPECIFICATION Spec
CONSTANTS
  n1 = n1
  n2 = n2
  n3 = n3
  n4 = n4
  n5 = n5
  n6 = n6
  a = a
  b = b
  c = c
  d = d
  e = e
  f = f
  g = g
  NULL = NULL
  Nodes = {n1, a, b}
  Roots = {n1}
  Kind <- LoneSelect
  Fut1 <- LoneLeft
  Fut2 <- LoneRight
INVARIANT
  SelectRunsBoth
