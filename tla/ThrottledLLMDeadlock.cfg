SPECIFICATION FairCallSpec
CONSTANTS
  NumThreads = 2
  Tasks <- MCTasks
  Roots <- MCRoots
  Program <- ThreeSessions
  Calls <- MCCalls
  MaxPermits = 1
  MayThrow = {}
PROPERTIES EverySessionEnds
