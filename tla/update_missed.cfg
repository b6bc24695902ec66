SPECIFICATION FairSpec
CONSTANTS
  Panels = {a}
  MaxRelease = 1
  MaxCrashes = 0
  MaxTemps = 1
  Nil = Nil
PROPERTY PageComesBack
