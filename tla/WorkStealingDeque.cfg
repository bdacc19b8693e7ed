SPECIFICATION FairSpec
CONSTANTS
  Thieves = {t1, t2}
  InitCap = 1
  MaxPushes = 3
INVARIANTS ExactlyOnce PopFailsOnlyIfEmpty
PROPERTIES RefinesAbstractDeque EventuallyTaken
