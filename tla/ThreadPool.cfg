SPECIFICATION FairSpec
CONSTANTS
  NumThreads = 2
  Tasks <- MixedTasks
  Roots <- MixedRoots
  Program <- Mixed
INVARIANTS RunOnce NoStarvation
PROPERTIES EveryTaskCompletes DestructorReturns
