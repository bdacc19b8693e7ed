SPECIFICATION FairCallSpec
CONSTANTS
  NumThreads = 2
  Tasks <- MCTasks
  Roots <- MCRoots
  Program <- ThreeSessions
  Calls <- MCCalls
  MaxPermits = 1
  MayThrow = {"s1", "s3", "h1"}
INVARIANTS PermitsAccounted
PROPERTIES SessionsEndUnlessPermitStuck
