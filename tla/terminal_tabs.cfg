SPECIFICATION FairSpec
CONSTANTS
  Shells = {s1, s2}
  Conns = {c1, c2}
  Tickets = {k1, k2}
  Tabs = {a}
  MaxChunks = 2
  RingCap = 1
  QueueCap = 1
  Nil = Nil
CHECK_DEADLOCK FALSE
INVARIANT TabInv
INVARIANT NoOrphanShell
INVARIANT NothingMissed
INVARIANT OutputInOrder
INVARIANT NewestIsServed
INVARIANT EndIsTold
