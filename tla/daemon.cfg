CONSTANTS
  Migrations = 3
  TaskIds = {t1}
  RungIds <- RungIds2
  Panels = {p1}
  OldTasks <- MCOldTasks
  EditedRungs <- MCEditedRungs
  SentTasks <- MCSentTasks
  None = None
  Editors = {e1, e2}
  MaxSaves = 3
  Streams = {s1, s2}
  Lists = {c1, c2}
  MaxClock = 2
  Foci = {"startup", "tasks", "units", "streams", "lists"}
SPECIFICATION MCFairSpec
INVARIANT DaemonInv
INVARIANT DefinitionsAreSound
INVARIANT SamplesAddUp
INVARIANT SavedIsInEffect
PROPERTY Recovers
PROPERTY Stops
