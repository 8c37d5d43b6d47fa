CONSTANTS
  a = a  b = b  c = c  d = d  f = f  n1 = n1  n2 = n2  n3 = n3
  Holders = {h1, h2}
  NoHolder = none
  TTL = 2
  MaxRetries = 1
  StoreFails = TRUE
SPECIFICATION MCSpec
INVARIANTS LockExclusive StoreSound
PROPERTIES   LocksEnd
CHECK_DEADLOCK FALSE
