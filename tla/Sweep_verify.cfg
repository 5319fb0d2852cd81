CONSTANTS
  s1 = s1
  s2 = s2
  a = a
  b = b
  d = d
  x = x
  y = y
  j1 = j1
  j2 = j2
  Sources = {s1, s2}
  Order <- MCOrder
  Coins = {a, b, d}
  Home <- MCHome
  Late = {d}
  Addresses = {x, y}
  Jobs = {j1, j2}
  Budget = 2
SPECIFICATION Spec
CHECK_DEADLOCK FALSE
INVARIANTS
  ReviewedWasVerified
