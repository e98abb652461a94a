SPECIFICATION FairSpec
CONSTANTS
  one = one
  two = two
  a = a
  b = b
  d = d
  Tabs = {one, two}
  Calls = {a, b, d}
  TabOf <- MCTabOf
  Sse = {b}
  MaxTokens = 3
  MaxExpiries = 1
INVARIANTS
  TypeOK
  LockIsHeld
  OneCanSend
PROPERTIES
  CallsEnd
CHECK_DEADLOCK FALSE
