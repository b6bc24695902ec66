SPECIFICATION FairSpec
CONSTANTS
  Tasks = {t1}
  Slots = {s1, s2}
  MaxRuns = 2
  MaxTime = 1
  MaxFaults = 1
  Nil = Nil
INVARIANT RunInv
INVARIANT RunningTaskHasRun
INVARIANT RunsOwnTheirEntries
INVARIANT RunningEntryHasRun
PROPERTY OutcomeIsFinal
PROPERTY ImplementsHistory
PROPERTY EntriesAreFinalized
