SPECIFICATION ChainSpec
CONSTANTS
  Tasks <- ChainTasks
  RungIds <- AllRungs
  Flags <- AllFlags
  Sensors <- AllSensors
  Levels <- OneLoad
  Ladder <- Chain
  Administered = {"A", "B"}
  Scheduled <- ChainSchedule
  Slots = {s1}
  s1 = s1
  Nil = Nil
  Failed = Failed
INVARIANT PublishAfterSuccess
