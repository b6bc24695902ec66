SPECIFICATION Spec
CONSTANTS
  Panels = {a, b}
  MaxRelease = 2
  MaxCrashes = 2
  MaxTemps = 3
  Nil = Nil
INVARIANT OneUpdateAtATime
INVARIANT ExecutableIsWhole
INVARIANT AnnouncedIsInstalled
INVARIANT TempsAreAccounted
INVARIANT UpdateInv
