SPECIFICATION FairSpec
CONSTANTS
  Shells = {s1}
  Conns = {c1}
  Tickets = {k1}
  Tabs = {a}
  MaxChunks = 1
  RingCap = 1
  QueueCap = 1
  Nil = Nil
CHECK_DEADLOCK FALSE
PROPERTY BackToPicker
