SPECIFICATION MCSpec
CONSTANTS
  Tasks = {t1, t2}
  t1 = t1
  Rungs = {r1}
  r1 = r1
  Procs = {p1, p2}
  Background = {b1, b2}
  Objs = {o1, o2, o3}
  o1 = o1
  o2 = o2
  b1 = b1
  Ladders <- AllLadders
  Workload <- Requests
  MaxStrays = 2
  Nil = Nil
INVARIANT JobsAreRecorded
INVARIANT CatalogInv
INVARIANT CacheFollowsStoreInTurn
INVARIANT ScheduleFollowsSwitches
PROPERTY RequestsAnswer
