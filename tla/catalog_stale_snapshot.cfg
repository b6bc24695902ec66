SPECIFICATION MCSpec
CONSTANTS
  Tasks = {t1}
  Rungs = {r1}
  t1 = t1
  r1 = r1
  Procs = {p1, p2}
  Background = {}
  Objs = {o1, o2, o3}
  o1 = o1
  o2 = o2
  b1 = b1
  Ladders <- PlainLadders
  Workload <- Updating
  MaxStrays = 2
  Nil = Nil
INVARIANT OnlyEnabledTasksScheduled
