SPECIFICATION MCSpec
CONSTANTS
  Tasks <- AllTasks
  RungIds <- AllRungs
  Flags <- AllFlags
  Sensors <- AllSensors
  Levels <- Loads
  Ladder <- Ladders
  Administered = {"deploy"}
  Scheduled <- Schedule
  Slots = {s1, s2}
  s1 = s1
  Nil = Nil
  Failed = Failed
INVARIANT LadderInv
INVARIANT PassIsComplete
INVARIANT OneReadingPerPass
INVARIANT RungContactsSeeThePreviousPass
PROPERTY MaintenancePauses
